---------------------------- MODULE MCVerification ----------------------------
(* Names, roles and profiles small enough to enumerate.                    *)
EXTENDS Verification

AcmeAi == <<"acme", "ai">>
AcmeAiInc == <<"acme", "ai", "inc">>
AcmeAiLabs == <<"acme", "ai", "labs">>       \* 2/3 of Acme AI: similar, not strong
Meta == <<"meta">>
Facebook == <<"facebook">>
AppleBank == <<"apple", "bank">>
AppleRecords == <<"apple", "records">>
Alibaba == <<"alibaba in chinese">>
Tencent == <<"tencent in chinese">>

MCSuffixes == <<"inc">>
MCLatin == {"acme", "ai", "labs", "meta", "facebook", "apple", "bank", "records",
            "inc"}
MCWords == MCLatin \cup {"alibaba in chinese", "tencent in chinese", Blank}
MCAliases == (Facebook :> Meta)

MCAdjustments == {-100, 100}
MCLlmAliases == {{}, {AcmeAiLabs}}

Roles(names, urns, currents, starts, ends, types) ==
  {r \in [urn : urns, name : names, current : currents, start : starts,
          end : ends, type : types] : r.current => r.end = NoDate}

UpTo(n, roles) == UNION {[1..k -> roles] : k \in 0..n}

ProfilesOf(experiences, headlines, ages) ==
  [experience : experiences, headline : headlines, updated : ages]

Urns == {NoUrn, "u1", "u2"}
FullTime == {"full_time"}

(* Similar and different names, all urns, every kind of match.             *)
MatchProfiles ==
  ProfilesOf(UpTo(2, Roles({AcmeAiInc, AcmeAiLabs, Meta}, Urns, BOOLEAN, {NoDate},
                           {NoDate, 90}, FullTime)),
             {NoHeadline, {}, {AcmeAiInc}, {AcmeAiLabs}}, {90})

(* Dates and types of roles at two companies; empty names.                 *)
DateProfiles ==
  ProfilesOf(UpTo(2, Roles({AcmeAi}, {"u1"}, BOOLEAN, {NoDate, 365, 366, 30000},
                           {NoDate, 90, 500}, FullTime)
                     \cup Roles({AcmeAi}, {"u1"}, BOOLEAN, {NoDate}, {NoDate}, {"advisor"})
                     \cup Roles({Meta, <<>>}, {"u2"}, BOOLEAN, {1000},
                                {NoDate, 500}, FullTime)),
             {{AcmeAi}, {Meta}}, {90, 365, 366})

(* Two candidates of equal score.                                          *)
AppleProfiles ==
  ProfilesOf(UpTo(2, Roles({AppleBank, AppleRecords}, {"u1", "u2"}, BOOLEAN, {NoDate},
                           {NoDate}, FullTime)),
             {NoHeadline}, {90})

(* Blank names and names in another script, which are equal to them.       *)
BlankProfiles ==
  ProfilesOf(UpTo(2, Roles({<<>>, <<Blank>>, Alibaba}, Urns, BOOLEAN, {NoDate}, {NoDate},
                           FullTime)),
             {NoHeadline, {}}, {90})

AllQueries == {AcmeAi, Facebook, <<"apple">>, Alibaba}
AllProfiles == MatchProfiles \cup DateProfiles \cup AppleProfiles \cup BlankProfiles

(* Names in another script.                                                *)
ScriptQueries == {Alibaba}
ScriptProfiles ==
  ProfilesOf(UpTo(2, Roles({Alibaba, Tencent}, {"u1", "u2"}, BOOLEAN, {NoDate}, {NoDate},
                           FullTime)),
             {NoHeadline, {}}, {90})
=============================================================================

------------------------- MODULE MCProfileAcquisition -------------------------
(* A person, her namesake, and the payloads about them.                    *)
EXTENDS ProfileAcquisition

CONSTANTS full, mini, other, bare, good, wall, namesake

Acme == <<"acme">>
Meta == <<"meta">>

MCSuffixes == <<"inc">>
MCLatin == {"acme", "meta", "unknown"}
MCWords == MCLatin \cup {"inc"}
MCAliases == <<>>

Profile(type, urn, ref, slug, who) ==
  [type |-> type, urn |-> urn, ref |-> ref, slug |-> slug, who |-> who,
   headline |-> {Acme}, updated |-> 0]

Position(type, urn, ref, company, name, end) ==
  [type |-> type, urn |-> urn, ref |-> ref, company |-> company, name |-> name,
   start |-> [year |-> 20, month |-> 0], end |-> end,
   employment |-> "unknown", advisor |-> name = Meta]

Graph(who, objects) ==
  [kind |-> "graph", included |-> objects,
   root |-> [urn |-> NoEntityUrn, who |-> who, headline |-> {Acme}]]

Page(who, walled, companies, headline) ==
  [kind |-> "page", who |-> who, wall |-> walled,
   companies |-> companies, headline |-> headline]

Ann == Profile("dash Profile", <<"fsd_profile", "ann">>, NoEntityUrn, "ann", "Ann")
MiniAnn == Profile("MiniProfile", <<"fs_miniProfile", "ann">>, NoEntityUrn, "ann", "Ann")
MiniBob == Profile("MiniProfile", NoEntityUrn, <<"fs_miniProfile", "bob">>, "bob", "Bob")

Y(n) == [year |-> n, month |-> 0]
YM(n, m) == [year |-> n, month |-> m]
Pos(n) == <<"position", n>>

(* December 24 is the first month.                                         *)
MCStart == 12 * 24 + 12

(* full: somebody else first, a position twice, one without an entityUrn,  *)
(* and one that ended "in 2024"; mini: under another urn; other: somebody  *)
(* else's; bare: only the response's root.                                 *)
MCBody ==
  full :> Graph(Nobody,
    <<MiniBob, Ann, Position("dash Position", Pos("1"), NoEntityUrn, "u1", Acme, YM(24, 11)),
                    Position("Position", Pos("2"), NoEntityUrn, "u2", Meta, Y(24)),
                    Position("dash Position", NoEntityUrn, Pos("3"), NoUrn, <<>>, YM(24, 8)),
                    Position("dash Position", Pos("1"), NoEntityUrn, "u1", Acme, NoWhen)>>) @@
  mini :> Graph(Nobody,
    <<MiniAnn, Position("Position", NoEntityUrn, Pos("4"), "u1", Acme, Y(25)),
               Position("Position", NoEntityUrn, NoEntityUrn, "u2", Meta, NoWhen)>>) @@
  other :> Graph(Nobody,
    <<MiniBob, MiniAnn, Position("Position", Pos("5"), NoEntityUrn, "u1", Acme, NoWhen)>>) @@
  bare :> Graph("Ann", <<>>) @@
  good :> Page("Ann", FALSE, <<<<>>, Acme, Meta>>, Acme) @@
  wall :> Page(Nobody, TRUE, <<<<>>, <<>>, <<>>>>, <<>>) @@
  namesake :> Page("Bob", FALSE, <<<<>>>>, Acme)

MCQueries == {Acme}

CallerSymmetry == Permutations(Callers)
=============================================================================

----------------------------- MODULE CompanyNames -----------------------------
(***************************************************************************)
(* Company names (verifier/src/normalize/company.ts).  A name is the       *)
(* sequence of its words; a legal suffix, which may be several words in    *)
(* the code's list, is one word here, and so is white space in a name that *)
(* has nothing else.                                                       *)
(***************************************************************************)
EXTENDS Integers, FiniteSets, SequencesExt

CONSTANTS Words,
          LegalSuffixes,   \* SUFFIXES, in the order of the code
          Latin,      \* words with a letter, digit or & that survives
          Aliases     \* ALIASES, from normalized names to normalized names

Blank == "blank"    \* the word that is only white space

ASSUME NamesAssumption ==
  /\ Blank \notin Latin
  /\ LegalSuffixes \in Seq(Words)
  /\ Latin \subseteq Words
  /\ \A name \in DOMAIN Aliases : Aliases[name] \in Seq(Words)

(* No name, or one of which trim leaves nothing.                           *)
IsBlank(name) == ToSet(name) \subseteq {Blank}

(* What s has at the places in K, in their order.                          *)
Kept(s, K) ==
  [k \in 1..Cardinality(K) |->
     s[CHOOSE i \in K : Cardinality({j \in K : j <= i}) = k]]

(* Every suffix that is now at the end is cut off, once each, in the order *)
(* of the list.  What goes from the words after the n-th on are therefore  *)
(* suffixes that come, from the last to the first, later and later in the  *)
(* list; a suffix has a space before it, so the first word stays.          *)
CutAfter(n, name) ==
  \E place \in [(n + 1)..Len(name) -> DOMAIN LegalSuffixes] :
    \A i \in DOMAIN place :
      /\ LegalSuffixes[place[i]] = name[i]
      /\ \A j \in DOMAIN place : i < j => place[j] < place[i]

Stripped(name) ==
  SubSeq(name, 1, Min({n \in DOMAIN name : CutAfter(n, name)} \cup {Len(name)}))

(* What is not in [a-z0-9 &] becomes blank: a name in another script is    *)
(* empty afterwards.                                                       *)
Plain(name) ==
  LET stripped == Stripped(name)
  IN  Kept(stripped, {i \in DOMAIN stripped : stripped[i] \in Latin})

WasAliased(name) == Plain(name) \in DOMAIN Aliases

Normalized(name) == IF WasAliased(name) THEN Aliases[Plain(name)] ELSE Plain(name)

(* Ratios are in ten-thousandths, rounded down.                            *)
One == 10000

(* Jaccard on the sets of words; 0 when either has none.                   *)
TokenSetRatio(a, b) ==
  LET ta == ToSet(a)
      tb == ToSet(b)
  IN  IF ta = {} \/ tb = {} THEN 0
      ELSE (One * Cardinality(ta \cap tb)) \div Cardinality(ta \cup tb)
=============================================================================

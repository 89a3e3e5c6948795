------------------------------ MODULE MCLinker ------------------------------
(***************************************************************************)
(* Small instances of Linker for TLC.                                      *)
(***************************************************************************)
EXTENDS Linker

TwoPeople    == {1, 2}
TwoProviders == {1, 2}
OneProvider  == {1}
TwoAccounts  == {1, 2}
NoOne        == {}
Second       == {2}

\* A face: match value and subject.
At(key, subject) == [key |-> key, subject |-> subject]

\* Each person has a match value of her own, for good.
OwnKey    == [u \in Users |-> {u}]
\* Match values pass from one person to the other.
EitherKey == [u \in Users |-> {1, 2}]

\* An account's match value is that of its owner; the first may get another's.
OwnFace    == [s \in Slots |-> {At(s[2], s[2])}]
EitherFace == [s \in Slots |-> {At(k, 0) : k \in {s[2], 2}}]
\* The second provider knows subjects only, and one of its accounts may take
\* the other's.
BySubject  ==
  [s \in Slots |-> IF s[1] = 1 THEN {At(s[2], s[2])} ELSE {At(0, sub) : sub \in {s[2], 2}}]
=============================================================================

----------------------------- MODULE MCReadings -----------------------------
(***************************************************************************)
(* Two people, one of whom has an account on both services; the first      *)
(* service rounds.  With units of 8 and thirds of them, 10 bytes are       *)
(* stored as one unit of 8, and 85 as one and a third of the next.         *)
(***************************************************************************)
EXTENDS Readings

TwoPeople     == {1, 2}
TwoServices   == {1, 2}
First         == {1}
ThreeAccounts == {<<1, 1>>, <<1, 2>>, <<2, 2>>}
RoundAndNot   == {10, 85}
\* More than the smaller ceiling, less than the larger.
InBetween     == {12}
AnyDecision   == {Unknown, BytesQuota(3)}
=============================================================================

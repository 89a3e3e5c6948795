------------------------------ MODULE MCServer ------------------------------
(***************************************************************************)
(* Two guarded changes, one of which an operator may consent to, and runs  *)
(* of everything or of one of them.                                        *)
(***************************************************************************)
EXTENDS Server

TwoKeys   == {1, 2}
OneShrink == {1}
AllOrOne  == {{1, 2}, {1}}
=============================================================================

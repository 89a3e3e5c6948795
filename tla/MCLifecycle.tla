---------------------------- MODULE MCLifecycle ----------------------------
(***************************************************************************)
(* Two processes of two binaries over one data directory, two keys, a      *)
(* provider that can be registered and one whose type was changed.         *)
(***************************************************************************)
EXTENDS Lifecycle

CONSTANTS p1, p2, k1, k2, nextcloud, immich

TwoProcs  == {p1, p2}
TwoKeys   == {k1, k2}
TwoProviders == {nextcloud, immich}
OneRetyped   == {immich}
TwoBinaries  == {2, 3}
=============================================================================

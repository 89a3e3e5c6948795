------------------------------ MODULE Rounding ------------------------------
(***************************************************************************)
(* internal/providers/nextcloud/quota.go: Nextcloud keeps a quota as a     *)
(* human-readable size, and this is the trip there and back.  A value is   *)
(* counted in Dths of its unit; the program has Kilo = 1024 and D = 10.    *)
(***************************************************************************)
EXTENDS Naturals

CONSTANTS Kilo, D

ASSUME ScaleAssumption == Kilo \in Nat \ {0, 1} /\ D \in 1..Kilo

\* Half away from zero.
RoundDiv(a, b) == (2 * a + b) \div (2 * b)

\* What the trip is not, and a mutant takes it for: one decimal in every step.
HumanFileSizeFiner(n) ==
  LET kilo == RoundDiv(n * D, Kilo)
      mega == RoundDiv(kilo, Kilo)
      giga == RoundDiv(mega, Kilo)
  IN IF n < Kilo THEN [value |-> n * D, unit |-> 1]
     ELSE IF kilo < Kilo * D THEN [value |-> kilo, unit |-> Kilo]
     ELSE IF mega < Kilo * D THEN [value |-> mega, unit |-> Kilo * Kilo]
     ELSE [value |-> giga, unit |-> Kilo * Kilo * Kilo]

\* The first step rounds to zero decimals, the others to one.
HumanFileSize(n) ==
  LET kilo == RoundDiv(n, Kilo)
      mega == RoundDiv(kilo * D, Kilo)
      giga == RoundDiv(mega, Kilo)
      tera == RoundDiv(giga, Kilo)
      peta == RoundDiv(tera, Kilo)
  IN IF n < Kilo THEN [value |-> n * D, unit |-> 1]
     ELSE IF kilo < Kilo THEN [value |-> kilo * D, unit |-> Kilo]
     ELSE IF mega < Kilo * D THEN [value |-> mega, unit |-> Kilo * Kilo]
     ELSE IF giga < Kilo * D THEN [value |-> giga, unit |-> Kilo * Kilo * Kilo]
     ELSE IF tera < Kilo * D THEN [value |-> tera, unit |-> Kilo * Kilo * Kilo * Kilo]
     ELSE [value |-> peta, unit |-> Kilo * Kilo * Kilo * Kilo * Kilo]

ComputerFileSize(size) == RoundDiv(size.value * size.unit, D)

NormalizeBytes(n) == ComputerFileSize(HumanFileSize(n))
=============================================================================

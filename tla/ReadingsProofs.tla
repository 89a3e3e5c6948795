--------------------------- MODULE ReadingsProofs ---------------------------
(***************************************************************************)
(* What Readings promises, for any people, services and ceilings.  The     *)
(* first part is about Rounding alone, at the scale the program has: units *)
(* of 1024 and tenths of them.                                             *)
(***************************************************************************)
EXTENDS Readings, SumProofs

\* The sizes of n in each unit, as HumanFileSize counts them.
ByKilo(n) == RoundDiv(n, 1024)
Kilos(n)  == ByKilo(n)
Megas(n)  == ByKilo(Kilos(n) * 10)
Gigas(n)  == ByKilo(Megas(n))
Teras(n)  == ByKilo(Gigas(n))
Petas(n)  == ByKilo(Teras(n))
Tenth(n)  == RoundDiv(n, 10)

\* What one of each unit is in bytes.
MB == 1048576
GB == 1073741824
TB == 1099511627776
PB == 1125899906842624

\* q is what a tenth of a, and what one Ki-th of it, round to.
Tenths(a, q) == 20 * q <= 2 * a + 10 /\ 2 * a + 10 < 20 * q + 20
Rounds(a, q) == 2048 * q <= 2 * a + 1024 /\ 2 * a + 1024 < 2048 * q + 2048

AreCounts(n) ==
  /\ Kilos(n) \in Nat /\ Megas(n) \in Nat /\ Gigas(n) \in Nat
  /\ Teras(n) \in Nat /\ Petas(n) \in Nat
  /\ Rounds(n, Kilos(n)) /\ Rounds(Kilos(n) * 10, Megas(n)) /\ Rounds(Megas(n), Gigas(n))
  /\ Rounds(Gigas(n), Teras(n)) /\ Rounds(Teras(n), Petas(n))

\* Division by 1024 rounds to the nearest.
LEMMA KiloBounds == \A a \in Nat : ByKilo(a) \in Nat /\ Rounds(a, ByKilo(a))
  BY SMT DEF RoundDiv, ByKilo, Rounds

\* So does division by ten.
LEMMA TenthBounds == \A a \in Nat : Tenth(a) \in Nat /\ Tenths(a, Tenth(a))
  BY SMT DEF RoundDiv, Tenth, Tenths

\* Tenths of a whole number, and of whole units of 1024.
LEMMA TenthExact == \A a \in Nat : Tenth(a * 10) = a /\ Tenth(a * 10240) = a * 1024
  BY SMT DEF RoundDiv, Tenth

\* Whole units of 1024 are counted exactly.
LEMMA KiloExact == \A a \in Nat : Kilos(a * 1024) = a
  BY SMT DEF RoundDiv, Kilos, ByKilo

\* Every count of HumanFileSize rounds the one before it.
LEMMA UnitBounds == ASSUME NEW m \in Nat PROVE AreCounts(m)
  <1>1. Kilos(m) \in Nat /\ Rounds(m, Kilos(m))
    BY KiloBounds DEF Kilos
  <1>2. Kilos(m) * 10 \in Nat
    BY <1>1, SMT
  <1>3. Megas(m) \in Nat /\ Rounds(Kilos(m) * 10, Megas(m))
    BY <1>2, KiloBounds, Zenon DEF Megas
  <1>4. Gigas(m) \in Nat /\ Rounds(Megas(m), Gigas(m))
    BY <1>3, KiloBounds DEF Gigas
  <1>5. Teras(m) \in Nat /\ Rounds(Gigas(m), Teras(m))
    BY <1>4, KiloBounds DEF Teras
  <1>6. Petas(m) \in Nat /\ Rounds(Teras(m), Petas(m))
    BY <1>5, KiloBounds DEF Petas
  <1> QED BY <1>1, <1>3, <1>4, <1>5, <1>6 DEF AreCounts

\* Megabytes with one decimal, stored as bytes, come back as they were: the
\* roundings on the way lose less than half of a tenth.
LEMMA MegaBack ==
  ASSUME NEW v \in Nat, NEW n \in Nat, v >= 10, Tenths(v * MB, n)
  PROVE  n >= 1024 /\ Kilos(n) >= 1024 /\ Megas(n) = v
  <1>1. AreCounts(n)
    BY UnitBounds
  <1>2. /\ n \in Nat /\ Kilos(n) \in Nat /\ Megas(n) \in Nat
        /\ Rounds(n, Kilos(n)) /\ Rounds(Kilos(n) * 10, Megas(n))
    BY <1>1 DEF AreCounts
  <1>3. Kilos(n) >= 1024 /\ n >= 1024
    BY <1>2, SMT DEF Rounds, Tenths, MB
  <1>4. Megas(n) = v
    BY <1>2, SMT DEF Rounds, Tenths, MB
  <1> QED BY <1>3, <1>4

\* So do gigabytes, through one rounding more.
LEMMA GigaBack ==
  ASSUME NEW v \in Nat, NEW n \in Nat, v >= 10, Tenths(v * GB, n)
  PROVE  n >= 1024 /\ Kilos(n) >= 1024 /\ Megas(n) >= 10240 /\ Gigas(n) = v
  <1>1. AreCounts(n)
    BY UnitBounds
  <1> QED BY <1>1, SMT DEF AreCounts, Rounds, Tenths, GB

\* Terabytes.
LEMMA TeraBack ==
  ASSUME NEW v \in Nat, NEW n \in Nat, v >= 10, Tenths(v * TB, n)
  PROVE  /\ n >= 1024 /\ Kilos(n) >= 1024 /\ Megas(n) >= 10240
         /\ Gigas(n) >= 10240 /\ Teras(n) = v
  <1>1. AreCounts(n)
    BY UnitBounds
  <1> QED BY <1>1, SMT DEF AreCounts, Rounds, Tenths, TB

\* And petabytes, where the units end.
LEMMA PetaBack ==
  ASSUME NEW v \in Nat, NEW n \in Nat, v >= 10, Tenths(v * PB, n)
  PROVE  /\ n >= 1024 /\ Kilos(n) >= 1024 /\ Megas(n) >= 10240
         /\ Gigas(n) >= 10240 /\ Teras(n) >= 10240 /\ Petas(n) = v
  <1>1. AreCounts(n)
    BY UnitBounds
  <1> QED BY <1>1, SMT DEF AreCounts, Rounds, Tenths, PB

\* The trip there and back, at the scale of the program.
LEMMA NormalizeUnfolds ==
  ASSUME Kilo = 1024, D = 10, NEW m \in Nat
  PROVE  NormalizeBytes(m) =
           IF m < 1024 THEN Tenth(m * 10)
           ELSE IF Kilos(m) < 1024 THEN Tenth(Kilos(m) * 10240)
           ELSE IF Megas(m) < 10240 THEN Tenth(Megas(m) * MB)
           ELSE IF Gigas(m) < 10240 THEN Tenth(Gigas(m) * GB)
           ELSE IF Teras(m) < 10240 THEN Tenth(Teras(m) * TB)
           ELSE Tenth(Petas(m) * PB)
  <1>1. /\ Kilo * Kilo = MB /\ Kilo * Kilo * Kilo = GB
        /\ Kilo * Kilo * Kilo * Kilo = TB
        /\ Kilo * Kilo * Kilo * Kilo * Kilo = PB
        /\ Kilo * D = 10240
    BY SMT DEF MB, GB, TB, PB
  <1>2. Kilos(m) \in Nat
    BY UnitBounds DEF AreCounts
  <1>3. Kilos(m) * 10 * 1024 = Kilos(m) * 10240 /\ m * 10 * 1 = m * 10
    BY <1>2, SMT
  <1>4. HumanFileSize(m) =
          IF m < 1024 THEN [value |-> m * 10, unit |-> 1]
          ELSE IF Kilos(m) < 1024 THEN [value |-> Kilos(m) * 10, unit |-> 1024]
          ELSE IF Megas(m) < 10240 THEN [value |-> Megas(m), unit |-> MB]
          ELSE IF Gigas(m) < 10240 THEN [value |-> Gigas(m), unit |-> GB]
          ELSE IF Teras(m) < 10240 THEN [value |-> Teras(m), unit |-> TB]
          ELSE [value |-> Petas(m), unit |-> PB]
    BY <1>1, SMT DEF HumanFileSize, Kilos, Megas, Gigas, Teras, Petas, ByKilo
  <1>5. \A s : ComputerFileSize(s) = Tenth(s.value * s.unit)
    BY Zenon DEF ComputerFileSize, Tenth
  <1> QED BY <1>3, <1>4, <1>5, SMT DEF NormalizeBytes

\* What Nextcloud stores for a size it has stored already is that size, for
\* every byte count and not the ones a test lists (ADR-0021, normalizeBytes).
THEOREM RoundingIsStable ==
  ASSUME Kilo = 1024, D = 10, NEW n \in Nat
  PROVE  NormalizeBytes(n) \in Nat /\ NormalizeBytes(NormalizeBytes(n)) = NormalizeBytes(n)
  <1> DEFINE s == NormalizeBytes(n)
  <1>0. /\ Kilos(n) \in Nat /\ Megas(n) \in Nat /\ Gigas(n) \in Nat /\ Teras(n) \in Nat
        /\ Petas(n) \in Nat
        /\ n >= 1024 => Kilos(n) >= 1
        /\ Kilos(n) >= 1024 => Megas(n) >= 10
        /\ Megas(n) >= 10240 => Gigas(n) >= 10
        /\ Gigas(n) >= 10240 => Teras(n) >= 10
        /\ Teras(n) >= 10240 => Petas(n) >= 10
    <2>1. AreCounts(n)
      BY UnitBounds
    <2> QED BY <2>1, SMT DEF AreCounts, Rounds
  <1>a. ASSUME NEW v \in Nat
        PROVE  /\ v * MB \in Nat /\ v * GB \in Nat /\ v * TB \in Nat /\ v * PB \in Nat
               /\ v * 10240 \in Nat /\ v * 1024 \in Nat
    BY <1>a, SMT DEF MB, GB, TB, PB
  <1>b. s = NormalizeBytes(n)
    OBVIOUS
  <1> HIDE DEF s
  <1>1. CASE n < 1024
    <2>1. s = n
      BY <1>b, <1>1, NormalizeUnfolds, TenthExact, SMT
    <2> QED BY <1>b, <2>1
  <1>2. CASE n >= 1024 /\ Kilos(n) < 1024
    <2>1. s = Kilos(n) * 1024
      BY <1>b, <1>0, <1>2, NormalizeUnfolds, TenthExact, SMT
    <2>2. s \in Nat /\ s >= 1024
      BY <1>0, <1>2, <2>1, SMT
    <2>3. Kilos(s) = Kilos(n)
      BY <1>0, <2>1, KiloExact
    <2>4. NormalizeBytes(s) = Kilos(n) * 1024
      BY <1>0, <1>2, <2>2, <2>3, NormalizeUnfolds, TenthExact, SMT
    <2> QED BY <1>b, <2>1, <2>2, <2>4
  <1>3. CASE n >= 1024 /\ Kilos(n) >= 1024 /\ Megas(n) < 10240
    <2>1. s = Tenth(Megas(n) * MB)
      BY <1>b, <1>0, <1>3, NormalizeUnfolds, SMT
    <2>2. s \in Nat /\ Tenths(Megas(n) * MB, s)
      BY <1>0, <1>a, <2>1, TenthBounds
    <2>3. s >= 1024 /\ Kilos(s) >= 1024 /\ Megas(s) = Megas(n)
      BY <1>0, <1>3, <2>2, MegaBack
    <2>4. NormalizeBytes(s) = Tenth(Megas(n) * MB)
      BY <1>0, <1>3, <2>2, <2>3, UnitBounds, NormalizeUnfolds, SMT DEF AreCounts
    <2> QED BY <1>b, <2>1, <2>2, <2>4
  <1>4. CASE n >= 1024 /\ Kilos(n) >= 1024 /\ Megas(n) >= 10240 /\ Gigas(n) < 10240
    <2>1. s = Tenth(Gigas(n) * GB)
      BY <1>b, <1>0, <1>4, NormalizeUnfolds, SMT
    <2>2. s \in Nat /\ Tenths(Gigas(n) * GB, s)
      BY <1>0, <1>a, <2>1, TenthBounds
    <2>3. s >= 1024 /\ Kilos(s) >= 1024 /\ Megas(s) >= 10240 /\ Gigas(s) = Gigas(n)
      BY <1>0, <1>4, <2>2, GigaBack
    <2>4. NormalizeBytes(s) = Tenth(Gigas(n) * GB)
      BY <1>0, <1>4, <2>2, <2>3, UnitBounds, NormalizeUnfolds, SMT DEF AreCounts
    <2> QED BY <1>b, <2>1, <2>2, <2>4
  <1>5. CASE /\ n >= 1024 /\ Kilos(n) >= 1024 /\ Megas(n) >= 10240 /\ Gigas(n) >= 10240
             /\ Teras(n) < 10240
    <2>1. s = Tenth(Teras(n) * TB)
      BY <1>b, <1>0, <1>5, NormalizeUnfolds, SMT
    <2>2. s \in Nat /\ Tenths(Teras(n) * TB, s)
      BY <1>0, <1>a, <2>1, TenthBounds
    <2>3. /\ s >= 1024 /\ Kilos(s) >= 1024 /\ Megas(s) >= 10240 /\ Gigas(s) >= 10240
          /\ Teras(s) = Teras(n)
      BY <1>0, <1>5, <2>2, TeraBack
    <2>4. NormalizeBytes(s) = Tenth(Teras(n) * TB)
      BY <1>0, <1>5, <2>2, <2>3, UnitBounds, NormalizeUnfolds, SMT DEF AreCounts
    <2> QED BY <1>b, <2>1, <2>2, <2>4
  <1>6. CASE /\ n >= 1024 /\ Kilos(n) >= 1024 /\ Megas(n) >= 10240 /\ Gigas(n) >= 10240
             /\ Teras(n) >= 10240
    <2>1. s = Tenth(Petas(n) * PB)
      BY <1>b, <1>0, <1>6, NormalizeUnfolds, SMT
    <2>2. s \in Nat /\ Tenths(Petas(n) * PB, s)
      BY <1>0, <1>a, <2>1, TenthBounds
    <2>3. /\ s >= 1024 /\ Kilos(s) >= 1024 /\ Megas(s) >= 10240 /\ Gigas(s) >= 10240
          /\ Teras(s) >= 10240 /\ Petas(s) = Petas(n)
      BY <1>0, <1>6, <2>2, PetaBack
    <2>4. NormalizeBytes(s) = Tenth(Petas(n) * PB)
      BY <1>0, <1>6, <2>2, <2>3, UnitBounds, NormalizeUnfolds, SMT DEF AreCounts
    <2> QED BY <1>b, <2>1, <2>2, <2>4
  <1> QED BY <1>0, <1>b, <1>1, <1>2, <1>3, <1>4, <1>5, <1>6, SMT
-----------------------------------------------------------------------------
(* The rows: what a write leaves marked stays marked until it is read.     *)

\* What the records are made of, without saying of what.
Shape ==
  /\ real = [a \in Accounts |->
       [there |-> real[a].there, quota |-> real[a].quota, used |-> real[a].used]]
  /\ row = [a \in Accounts |->
       [stored |-> row[a].stored, quota |-> row[a].quota, used |-> row[a].used,
        ok |-> row[a].ok, age |-> row[a].age]]
  /\ pending.doing \in {"nothing", "apply", "probe"}
  /\ pending.doing = "nothing" => pending = Idle
  /\ pending # Idle => pending.to \in Accounts

\* Every account written and not read since is the one being read back, or
\* its row is marked.
Marked ==
  /\ wrote \subseteq Accounts
  /\ \A a \in wrote : \/ pending.doing = "apply" /\ pending.to = a
                      \/ row[a].stored => row[a].ok = FALSE

ReadingsInv == Shape /\ Marked

\* Nothing is pending in Idle.
LEMMA IdleDoesNothing == Idle.doing = "nothing"
  BY DEF Idle

\* A row as an answer leaves it has every field.
LEMMA RowHasFields ==
  ASSUME NEW a, NEW answer
  PROVE  RowFrom(a, answer) =
           [stored |-> RowFrom(a, answer).stored, quota |-> RowFrom(a, answer).quota,
            used |-> RowFrom(a, answer).used, ok |-> RowFrom(a, answer).ok,
            age |-> RowFrom(a, answer).age]
  BY DEF RowFrom

\* A row that was never read has every field, and is not stored.
LEMMA NoRowHasFields ==
  /\ NoRow.stored = FALSE
  /\ NoRow = [stored |-> NoRow.stored, quota |-> NoRow.quota, used |-> NoRow.used,
              ok |-> NoRow.ok, age |-> NoRow.age]
  BY DEF NoRow

\* It starts with nothing written.
LEMMA InitReads == Init => ReadingsInv
  BY IdleDoesNothing, NoRowHasFields DEF Init, ReadingsInv, Shape, Marked

\* Storing what a provider answered, whole or half.
LEMMA ReplacingKeeps ==
  ASSUME ReadingsInv, NEW p, NEW answer, ReplaceExternalAccounts(p, answer),
         pending = Idle, UNCHANGED <<real, pending>>
  PROVE  ReadingsInv'
  <1>1. \A a \in Accounts :
          /\ row'[a] = row[a] \/ row'[a] = NoRow \/ row'[a] = RowFrom(a, answer[a])
          /\ a[2] # p => row'[a] = row[a]
    BY DEF ReplaceExternalAccounts, Stored
  <1>2. row' = [a \in Accounts |-> row'[a]]
    BY DEF ReplaceExternalAccounts
  <1>3. \A a \in Accounts :
          row'[a] = [stored |-> row'[a].stored, quota |-> row'[a].quota, used |-> row'[a].used,
                     ok |-> row'[a].ok, age |-> row'[a].age]
    BY <1>1, RowHasFields, NoRowHasFields DEF ReadingsInv, Shape
  <1>4. Shape'
    BY <1>2, <1>3 DEF ReadingsInv, Shape
  <1>5. Marked'
    BY <1>1, IdleDoesNothing DEF ReplaceExternalAccounts, Of, ReadingsInv, Marked
  <1> QED BY <1>4, <1>5 DEF ReadingsInv

\* A quota that changes, by hand or by a write, is all that changes.
LEMMA SettingKeepsShape ==
  ASSUME Shape, NEW a \in Accounts, NEW q, SetQuota(a, q)
  PROVE  /\ real' = [b \in Accounts |->
              [there |-> real'[b].there, quota |-> real'[b].quota, used |-> real'[b].used]]
         /\ real'[a] = [there |-> real[a].there, quota |-> Kept(a[2], q), used |-> real[a].used]
         /\ \A b \in Accounts \ {a} : real'[b] = real[b]
  <1>1. real' = [real EXCEPT ![a].quota = Kept(a[2], q)]
    BY DEF SetQuota
  <1>2. real'[a] = [there |-> real[a].there, quota |-> Kept(a[2], q), used |-> real[a].used]
    BY <1>1 DEF Shape
  <1>3. \A b \in Accounts \ {a} : real'[b] = real[b]
    BY <1>1 DEF Shape
  <1>4. real' = [b \in Accounts |-> real'[b]]
    BY <1>1 DEF Shape
  <1> QED BY <1>2, <1>3, <1>4 DEF Shape

\* Marking a row changes nothing else of it.
LEMMA MarkingKeepsShape ==
  ASSUME Shape, NEW a \in Accounts, row' = [row EXCEPT ![a].ok = FALSE]
  PROVE  /\ row' = [b \in Accounts |-> row'[b]]
         /\ row'[a] = [stored |-> row[a].stored, quota |-> row[a].quota, used |-> row[a].used,
                       ok |-> FALSE, age |-> row[a].age]
         /\ \A b \in Accounts \ {a} : row'[b] = row[b]
  <1>1. row' = [b \in Accounts |-> row'[b]]
    BY DEF Shape
  <1>2. row'[a] = [row[a] EXCEPT !.ok = FALSE]
    BY DEF Shape
  <1>3. row[a] = [stored |-> row[a].stored, quota |-> row[a].quota, used |-> row[a].used,
                  ok |-> row[a].ok, age |-> row[a].age]
    BY DEF Shape
  <1>4. row'[a] = [stored |-> row[a].stored, quota |-> row[a].quota, used |-> row[a].used,
                   ok |-> FALSE, age |-> row[a].age]
    BY <1>2, <1>3
  <1>5. \A b \in Accounts \ {a} : row'[b] = row[b]
    BY DEF Shape
  <1> QED BY <1>1, <1>4, <1>5

\* Every step keeps it.
LEMMA StepReads == ReadingsInv /\ [Next]_vars => ReadingsInv'
  <1> SUFFICES ASSUME ReadingsInv, [Next]_vars PROVE ReadingsInv'
    OBVIOUS
  <1> USE IdleDoesNothing
  <1>0. Shape /\ Marked
    BY DEF ReadingsInv
  <1>1. CASE UNCHANGED vars
    BY <1>1 DEF vars, ReadingsInv, Shape, Marked
  <1>2. ASSUME NEW p \in Providers, Observe(p) PROVE ReadingsInv'
    <2>1. PICK answer \in [Of(p) -> Answers(p)] : ReplaceExternalAccounts(p, answer)
      BY <1>2 DEF Observe
    <2> QED BY <1>2, <2>1, ReplacingKeeps DEF Observe
  <1>3. ASSUME NEW p \in Providers, ObserveHalfStored(p) PROVE ReadingsInv'
    BY <1>3, ReplacingKeeps DEF ObserveHalfStored
  <1>4. ASSUME NEW p \in Providers, ObserveFails(p) \/ ProbeRefused(p) PROVE ReadingsInv'
    BY <1>0, <1>4 DEF ObserveFails, ProbeRefused, ReadingsInv, Shape, Marked
  <1>5. ASSUME NEW p \in Providers, ProbeWrites(p) PROVE ReadingsInv'
    <2>1. PICK a \in Of(p) : /\ SetQuota(a, row[a].quota)
                             /\ pending' = [doing |-> "probe", to |-> a, sent |-> row[a].quota]
      BY <1>5 DEF ProbeWrites
    <2>2. a \in Accounts
      BY DEF Of
    <2>3. Shape'
      BY <1>0, <1>5, <2>1, <2>2, SettingKeepsShape DEF ProbeWrites, Shape
    <2>4. Marked'
      BY <1>0, <1>5 DEF ProbeWrites, Marked
    <2> QED BY <2>3, <2>4 DEF ReadingsInv
  <1>6. ASSUME NEW a \in Accounts, Drift(a) PROVE ReadingsInv'
    <2>1. PICK q \in CeilingsOver(Bytes), n \in Uses, there \in BOOLEAN :
            real' = [real EXCEPT ![a] = [there |-> there, quota |-> q, used |-> n]]
      BY <1>6 DEF Drift
    <2>2. /\ real' = [b \in Accounts |-> real'[b]]
          /\ real'[a] = [there |-> there, quota |-> q, used |-> n]
          /\ \A b \in Accounts \ {a} : real'[b] = real[b]
      BY <1>0, <2>1 DEF Shape
    <2>3. ASSUME NEW b \in Accounts
          PROVE  real'[b] = [there |-> real'[b].there, quota |-> real'[b].quota,
                             used |-> real'[b].used]
      <3>1. CASE b = a
        BY <2>2, <3>1
      <3>2. CASE b # a
        BY <1>0, <2>2, <3>2 DEF Shape
      <3> QED BY <3>1, <3>2
    <2>5. real' = [b \in Accounts |-> [there |-> real'[b].there, quota |-> real'[b].quota,
                                        used |-> real'[b].used]]
      BY <2>2, <2>3
    <2>6. row' = row /\ pending' = pending
      BY <1>6 DEF Drift
    <2>7. Shape'
      BY <1>0, <2>5, <2>6 DEF Shape
    <2>4. Marked'
      BY <1>0, <1>6 DEF Drift, Marked
    <2> QED BY <2>4, <2>7 DEF ReadingsInv
  <1>7. ASSUME NEW a \in Accounts, NEW q, Apply(a, q) PROVE ReadingsInv'
    <2>1. Shape'
      BY <1>0, <1>7, SettingKeepsShape DEF Apply, Shape
    <2>2. Marked'
      BY <1>0, <1>7 DEF Apply, Marked
    <2> QED BY <2>1, <2>2 DEF ReadingsInv
  <1>8. ASSUME NEW answer, RefreshAfterWrite(answer) PROVE ReadingsInv'
    <2> DEFINE a == pending.to
    <2>1. a \in Accounts
      BY <1>0, <1>8 DEF RefreshAfterWrite, Shape
    <2>2. row' = [row EXCEPT ![a] = RowFrom(a, answer)] /\ wrote' = wrote \ {a}
      BY <1>8 DEF RefreshAfterWrite
    <2>3. /\ row' = [b \in Accounts |-> row'[b]]
          /\ row'[a] = RowFrom(a, answer) /\ \A b \in Accounts \ {a} : row'[b] = row[b]
      BY <1>0, <2>1, <2>2 DEF Shape
    <2>4. Shape'
      <3>1. ASSUME NEW b \in Accounts
            PROVE  row'[b] = [stored |-> row'[b].stored, quota |-> row'[b].quota,
                              used |-> row'[b].used, ok |-> row'[b].ok, age |-> row'[b].age]
        <4>1. CASE b = a
          BY <2>3, <4>1, RowHasFields
        <4>2. CASE b # a
          BY <1>0, <2>3, <4>2 DEF Shape
        <4> QED BY <4>1, <4>2
      <3>2. row' = [b \in Accounts |-> [stored |-> row'[b].stored, quota |-> row'[b].quota,
                                         used |-> row'[b].used, ok |-> row'[b].ok,
                                         age |-> row'[b].age]]
        BY <2>3, <3>1
      <3>3. real' = real /\ pending' = Idle
        BY <1>8 DEF RefreshAfterWrite
      <3> QED BY <1>0, <3>2, <3>3, IdleDoesNothing DEF Shape
    <2>5. Marked'
      BY <1>0, <1>8, <2>2, <2>3 DEF RefreshAfterWrite, Marked
    <2> QED BY <2>4, <2>5 DEF ReadingsInv
  <1>9. CASE RefreshFails
    <2> DEFINE a == pending.to
    <2>1. a \in Accounts
      BY <1>0, <1>9 DEF RefreshFails, Shape
    <2>2. row' = [row EXCEPT ![a].ok = FALSE]
      BY <1>9 DEF RefreshFails, MarkAccountUnobserved
    <2>3. /\ row' = [b \in Accounts |-> row'[b]]
          /\ row'[a] = [stored |-> row[a].stored, quota |-> row[a].quota, used |-> row[a].used,
                        ok |-> FALSE, age |-> row[a].age]
          /\ \A b \in Accounts \ {a} : row'[b] = row[b]
      BY <1>0, <2>1, <2>2, MarkingKeepsShape
    <2>4. Shape'
      BY <1>0, <1>9, <2>3 DEF RefreshFails, Shape
    <2>5. Marked'
      BY <1>0, <1>9, <2>1, <2>3 DEF RefreshFails, Marked
    <2> QED BY <2>4, <2>5 DEF ReadingsInv
  <1>10. CASE Killed
    BY <1>0, <1>10 DEF Killed, ReadingsInv, Shape, Marked
  <1>11. ASSUME NEW answer, ProbeReads(answer) PROVE ReadingsInv'
    BY <1>0, <1>11 DEF ProbeReads, ReadingsInv, Shape, Marked
  <1>12. CASE ProbeUnread
    BY <1>0, <1>12 DEF ProbeUnread, ReadingsInv, Shape, Marked
  <1>13. CASE Tick
    <2>1. \A b \in Accounts :
            /\ row'[b] = [stored |-> row'[b].stored, quota |-> row'[b].quota,
                          used |-> row'[b].used, ok |-> row'[b].ok, age |-> row'[b].age]
            /\ row'[b].stored = row[b].stored /\ row'[b].ok = row[b].ok
      BY <1>0, <1>13 DEF Tick, Shape
    <2>2. row' = [b \in Accounts |-> row'[b]]
      BY <1>13 DEF Tick
    <2>5. row' = [b \in Accounts |-> [stored |-> row'[b].stored, quota |-> row'[b].quota,
                                       used |-> row'[b].used, ok |-> row'[b].ok,
                                       age |-> row'[b].age]]
      BY <2>1, <2>2
    <2>6. real' = real /\ pending' = pending /\ wrote' = wrote
      BY <1>13 DEF Tick
    <2>3. Shape'
      BY <1>0, <2>5, <2>6 DEF Shape
    <2>4. Marked'
      BY <1>0, <2>1, <2>6 DEF Marked
    <2> QED BY <2>3, <2>4 DEF ReadingsInv
  <1>14. CASE PolicyChanges
    BY <1>0, <1>14 DEF PolicyChanges, ReadingsInv, Shape, Marked
  <1> QED
    BY <1>1, <1>2, <1>3, <1>4, <1>5, <1>6, <1>7, <1>8, <1>9, <1>10, <1>11, <1>12, <1>13, <1>14
    DEF Next, AnswerComes

\* Only a write of a run and a write of the probe leave something pending.
LEMMA WhoWrites ==
  ASSUME Next
  PROVE  \/ pending' \in {pending, Idle}
         \/ \E p \in Providers : ProbeWrites(p)
         \/ \E a \in Accounts, q \in CeilingsOver(Bytes) : Apply(a, q)
  <1>1. ASSUME NEW p \in Providers, Observe(p) \/ ObserveHalfStored(p) \/ ObserveFails(p) \/ ProbeRefused(p)
        PROVE  pending' = pending
    BY <1>1 DEF Observe, ObserveHalfStored, ObserveFails, ProbeRefused
  <1>2. ASSUME NEW a \in Accounts, Drift(a) PROVE pending' = pending
    BY <1>2 DEF Drift
  <1>3. ASSUME NEW answer, RefreshAfterWrite(answer) \/ ProbeReads(answer) PROVE pending' = Idle
    BY <1>3 DEF RefreshAfterWrite, ProbeReads
  <1>4. CASE RefreshFails \/ ProbeUnread \/ Killed
    BY <1>4 DEF RefreshFails, ProbeUnread, Killed
  <1>5. CASE Tick \/ PolicyChanges
    BY <1>5 DEF Tick, PolicyChanges
  <1> QED BY <1>1, <1>2, <1>3, <1>4, <1>5 DEF Next, AnswerComes

\* The rows and the marks, for any run of the system.
THEOREM ReadingsHold == Spec => []ReadingsInv
  BY InitReads, StepReads, PTL DEF Spec

\* A ceiling Nuno changed and has not read back is shown as unavailable
\* (MarkAccountUnobserved), whatever else fails.
THEOREM WritesShown == Spec => []WritesAreShown
  <1>1. ReadingsInv => WritesAreShown
    BY DEF ReadingsInv, Marked, WritesAreShown, Status
  <1> QED BY <1>1, ReadingsHold, PTL

\* A probe that writes what the account holds leaves it as it is.
THEOREM ProbeIsHarmless == Spec => ProbeAltersNothing
  <1> DEFINE Harmless ==
        pending'.doing = "probe" /\ pending = Idle =>
          \A a \in Accounts : row[a].quota = real[a].quota => real'[a] = real[a]
  <1>1. ReadingsInv /\ [Next]_vars => [Harmless]_vars
    <2> SUFFICES ASSUME ReadingsInv, Next, pending'.doing = "probe", pending = Idle,
                        NEW b \in Accounts, row[b].quota = real[b].quota
                 PROVE  real'[b] = real[b]
      OBVIOUS
    <2>1. PICK p \in Providers : ProbeWrites(p)
      BY WhoWrites, IdleDoesNothing DEF Apply
    <2>2. PICK a \in Of(p) : ProbeTarget(p, a) /\ SetQuota(a, row[a].quota)
      BY <2>1 DEF ProbeWrites
    <2>3. a \in Accounts /\ NormalizeQuota(a[2], row[a].quota) = row[a].quota
      BY <2>2 DEF Of, ProbeTarget, Candidates, FixedPoint
    <2>4. Kept(a[2], row[a].quota) = row[a].quota
      BY <2>3 DEF Kept, NormalizeQuota
    <2>5. /\ real'[a] = [there |-> real[a].there, quota |-> row[a].quota, used |-> real[a].used]
          /\ \A c \in Accounts \ {a} : real'[c] = real[c]
      BY <2>2, <2>3, <2>4, SettingKeepsShape DEF ReadingsInv
    <2>6. real[a] = [there |-> real[a].there, quota |-> real[a].quota, used |-> real[a].used]
      BY <2>3 DEF ReadingsInv, Shape
    <2> QED BY <2>5, <2>6
  <1>2. ProbeAltersNothing <=> [][Harmless]_vars
    BY DEF ProbeAltersNothing
  <1> QED BY <1>1, <1>2, ReadingsHold, PTL DEF Spec

\* At the scale of the program, a planned ceiling is what the service keeps.
THEOREM PlannedIsKept == ASSUME Kilo = 1024, D = 10 PROVE Spec => PlannedIsStored
  <1> DEFINE Same == pending = Idle /\ pending'.doing = "apply" =>
                       real'[pending'.to].quota = pending'.sent
  <1>1. ASSUME NEW p, NEW q \in CeilingsOver(Bytes)
        PROVE  Kept(p, NormalizeQuota(p, q)) = NormalizeQuota(p, q)
    <2>1. q = Unlimited \/ \E n \in Nat : q = [kind |-> "bytes", bytes |-> n]
      BY SizesAssumption DEF CeilingsOver, BytesQuota
    <2>2. CASE q = Unlimited
      BY <2>2 DEF Kept, NormalizeQuota, Unlimited, IsBytes
    <2>3. ASSUME NEW n \in Nat, q = [kind |-> "bytes", bytes |-> n]
          PROVE  Kept(p, NormalizeQuota(p, q)) = NormalizeQuota(p, q)
      <3> DEFINE s == NormalizeBytes(n)
      <3>1. s \in Nat /\ NormalizeBytes(s) = s
        BY RoundingIsStable
      <3> HIDE DEF s
      <3>2. BytesQuota(s) = [kind |-> "bytes", bytes |-> s]
        BY <3>1, SMT DEF BytesQuota
      <3>3. IsBytes(q) /\ q.bytes = n
        BY <2>3 DEF IsBytes
      <3>4. NormalizeQuota(p, q) = IF p \in Lossy THEN BytesQuota(s) ELSE q
        BY <3>3 DEF NormalizeQuota, s
      <3>5. p \in Lossy => Kept(p, BytesQuota(s)) = BytesQuota(s)
        BY <3>1, <3>2 DEF Kept, IsBytes
      <3>6. p \notin Lossy => Kept(p, q) = q
        BY DEF Kept
      <3> QED BY <3>4, <3>5, <3>6
    <2> QED BY <2>1, <2>2, <2>3
  <1>2. ReadingsInv /\ [Next]_vars => [Same]_vars
    <2> SUFFICES ASSUME ReadingsInv, Next, pending'.doing = "apply", pending = Idle
                 PROVE  real'[pending'.to].quota = pending'.sent
      OBVIOUS
    <2>1. PICK a \in Accounts, q \in CeilingsOver(Bytes) : Apply(a, q)
      BY WhoWrites, IdleDoesNothing DEF ProbeWrites
    <2>2. /\ pending'.to = a /\ pending'.sent = NormalizeQuota(a[2], q)
          /\ SetQuota(a, NormalizeQuota(a[2], q))
      BY <2>1 DEF Apply
    <2>3. real'[a].quota = Kept(a[2], NormalizeQuota(a[2], q))
      <3>1. real'[a] = [there |-> real[a].there, quota |-> Kept(a[2], NormalizeQuota(a[2], q)),
                        used |-> real[a].used]
        BY <2>2, SettingKeepsShape, Zenon DEF ReadingsInv
      <3> QED BY <3>1
    <2>4. Kept(a[2], NormalizeQuota(a[2], q)) = NormalizeQuota(a[2], q)
      BY <1>1
    <2>5. real'[pending'.to].quota = real'[a].quota
      BY <2>2
    <2> QED BY <2>2, <2>3, <2>4, <2>5
  <1>3. PlannedIsStored <=> [][Same]_vars
    BY DEF PlannedIsStored
  <1> QED BY <1>2, <1>3, ReadingsHold, PTL DEF Spec
-----------------------------------------------------------------------------
(* The totals: both shapes of the response take the same accounts apart,   *)
(* by person and by service.                                               *)

\* Every ceiling and every usage there is, is a number of bytes.
Numbers ==
  \A a \in Accounts : /\ real[a].quota.bytes \in Nat /\ real[a].used \in Nat
                      /\ row[a].quota.bytes \in Nat /\ row[a].used.bytes \in Nat

\* A quota made of a count, or of a ceiling that occurs, has one.
LEMMA CountsAreNumbers ==
  /\ Unknown.bytes \in Nat /\ Unlimited.bytes \in Nat
  /\ \A n \in Int : BytesQuota(n).bytes \in Nat
  /\ \A q \in CeilingsOver(Bytes) : q.bytes \in Nat
  <1>1. Unknown.bytes \in Nat /\ Unlimited.bytes \in Nat /\ \A n \in Int : BytesQuota(n).bytes \in Nat
    BY DEF Unknown, Unlimited, BytesQuota
  <1>2. ASSUME NEW q \in CeilingsOver(Bytes) PROVE q.bytes \in Nat
    <2>1. q = Unlimited \/ \E n \in Bytes : q = BytesQuota(n)
      BY DEF CeilingsOver
    <2> QED BY <1>1, <2>1, SizesAssumption
  <1> QED BY <1>1, <1>2

\* However often it is rounded.
LEMMA RoundedAreNumbers ==
  ASSUME NEW p, NEW q, q.bytes \in Nat
  PROVE  NormalizeQuota(p, q).bytes \in Nat /\ Kept(p, q).bytes \in Nat
  <1>1. ASSUME NEW a \in Int, NEW b \in Int, b > 0 PROVE RoundDiv(a, b) \in Int
    <2>1. 2 * a + b \in Int /\ 2 * b \in Int /\ 2 * b > 0
      BY <1>1
    <2> QED BY <2>1 DEF RoundDiv
  <1>2. Kilo \in Int /\ Kilo > 0 /\ D \in Int /\ D > 0
    BY ScaleAssumption
  <1>3. ASSUME NEW n \in Int PROVE NormalizeBytes(n) \in Int
    <2> DEFINE kilo == RoundDiv(n, Kilo)
               mega == RoundDiv(kilo * D, Kilo)
               giga == RoundDiv(mega, Kilo)
               tera == RoundDiv(giga, Kilo)
               peta == RoundDiv(tera, Kilo)
               size == HumanFileSize(n)
               K2 == Kilo * Kilo
               K3 == Kilo * Kilo * Kilo
               K4 == Kilo * Kilo * Kilo * Kilo
               K5 == Kilo * Kilo * Kilo * Kilo * Kilo
    <2>1. K2 \in Int /\ K3 \in Int /\ K4 \in Int /\ K5 \in Int
      BY <1>2
    <2>2. kilo \in Int
      BY <1>1, <1>2
    <2> HIDE DEF kilo
    <2>3. kilo * D \in Int
      BY <1>2, <2>2
    <2>4. mega \in Int
      BY <1>1, <1>2, <2>3
    <2> HIDE DEF mega
    <2>5. giga \in Int
      BY <1>1, <1>2, <2>4
    <2> HIDE DEF giga
    <2>6. tera \in Int
      BY <1>1, <1>2, <2>5
    <2> HIDE DEF tera
    <2>7. peta \in Int
      BY <1>1, <1>2, <2>6
    <2> HIDE DEF peta
    <2>8. size = IF n < Kilo THEN [value |-> n * D, unit |-> 1]
                 ELSE IF kilo < Kilo THEN [value |-> kilo * D, unit |-> Kilo]
                 ELSE IF mega < Kilo * D THEN [value |-> mega, unit |-> K2]
                 ELSE IF giga < Kilo * D THEN [value |-> giga, unit |-> K3]
                 ELSE IF tera < Kilo * D THEN [value |-> tera, unit |-> K4]
                 ELSE [value |-> peta, unit |-> K5]
      BY DEF HumanFileSize, kilo, mega, giga, tera, peta
    <2>9. n * D \in Int
      BY <1>2
    <2> HIDE DEF size, K2, K3, K4, K5
    <2>10. size.value \in Int /\ size.unit \in Int
      BY <1>2, <2>1, <2>2, <2>3, <2>4, <2>5, <2>6, <2>7, <2>8, <2>9
    <2>11. size.value * size.unit \in Int
      BY <2>10
    <2> QED BY <1>1, <1>2, <2>11 DEF NormalizeBytes, ComputerFileSize, size
  <1>4. q.bytes \in Int /\ NormalizeBytes(q.bytes) \in Int
    BY <1>3
  <1>5. BytesQuota(NormalizeBytes(q.bytes)).bytes \in Nat
    BY <1>4, CountsAreNumbers
  <1> QED BY <1>5 DEF NormalizeQuota, Kept

\* What an account answers, once it is there.
LEMMA AnswersAreNumbers ==
  ASSUME Numbers, NEW a \in Accounts, NEW answer \in {"whole", "storage", "partial", "new"}
  PROVE  RowFrom(a, answer).quota.bytes \in Nat /\ RowFrom(a, answer).used.bytes \in Nat
  <1>1. real[a].quota.bytes \in Nat /\ real[a].used \in Nat /\ real[a].used \in Int
    BY DEF Numbers
  <1>2. Decoded(a, answer).quota.bytes \in Nat
    BY <1>1, CountsAreNumbers DEF Decoded
  <1>3. Decoded(a, answer).used.bytes \in Nat
    BY <1>1, CountsAreNumbers DEF Decoded
  <1> QED BY <1>2, <1>3 DEF RowFrom

\* The numbers stay numbers.
LEMMA NumbersStay ==
  ASSUME ReadingsInv, Numbers, [Next]_vars
  PROVE  Numbers'
  <1> DEFINE Number(q) == q.bytes \in Nat
  <1>1. Shape
    BY DEF ReadingsInv
  <1>2. NoRow.quota.bytes \in Nat /\ NoRow.used.bytes \in Nat
    BY CountsAreNumbers DEF NoRow
  <1>3. ASSUME NEW p \in Providers, NEW answer \in [Of(p) -> Answers(p)],
               ReplaceExternalAccounts(p, answer), real' = real
        PROVE  Numbers'
    <2>1. ASSUME NEW a \in Accounts
          PROVE  row'[a] = row[a] \/ row'[a] = NoRow
                 \/ (answer[a] \in {"whole", "storage", "partial", "new"} /\ row'[a] = RowFrom(a, answer[a]))
      <3>1. a[2] = p => answer[a] \in {"whole", "storage", "partial", "new"}
        BY DEF Of, Answers
      <3> QED BY <1>3, <3>1 DEF ReplaceExternalAccounts, Stored
    <2> QED BY <1>2, <1>3, <2>1, AnswersAreNumbers DEF Numbers
  <1>4. ASSUME NEW a \in Accounts, NEW q, Number(q), SetQuota(a, q), row' = row
        PROVE  Numbers'
    <2>1. Kept(a[2], q).bytes \in Nat
      BY <1>4, RoundedAreNumbers
    <2>2. /\ real'[a] = [there |-> real[a].there, quota |-> Kept(a[2], q), used |-> real[a].used]
          /\ \A b \in Accounts \ {a} : real'[b] = real[b]
      BY <1>1, <1>4, SettingKeepsShape
    <2>3. ASSUME NEW b \in Accounts PROVE real'[b].quota.bytes \in Nat /\ real'[b].used \in Nat
      <3>1. CASE b = a
        BY <2>1, <2>2, <3>1 DEF Numbers
      <3>2. CASE b # a
        BY <2>2, <3>2 DEF Numbers
      <3> QED BY <3>1, <3>2
    <2> QED BY <1>4, <2>3 DEF Numbers
  <1>5. ASSUME NEW p \in Providers, Observe(p) PROVE Numbers'
    BY <1>3, <1>5 DEF Observe
  <1>6. ASSUME NEW p \in Providers, ObserveHalfStored(p) PROVE Numbers'
    <2>1. [a \in Of(p) |-> "whole"] \in [Of(p) -> Answers(p)]
      BY DEF Answers
    <2> QED BY <1>3, <1>6, <2>1 DEF ObserveHalfStored
  <1>7. ASSUME NEW p \in Providers, ProbeWrites(p) PROVE Numbers'
    <2>1. PICK a \in Of(p) : SetQuota(a, row[a].quota)
      BY <1>7 DEF ProbeWrites
    <2>2. a \in Accounts /\ row[a].quota.bytes \in Nat
      BY DEF Of, Numbers
    <2> QED BY <1>4, <1>7, <2>1, <2>2 DEF ProbeWrites
  <1>8. ASSUME NEW a \in Accounts, NEW q \in CeilingsOver(Bytes), Apply(a, q) PROVE Numbers'
    <2>1. Number(NormalizeQuota(a[2], q))
      BY CountsAreNumbers, RoundedAreNumbers
    <2> QED BY <1>4, <1>8, <2>1 DEF Apply
  <1>9. ASSUME NEW a \in Accounts, Drift(a) PROVE Numbers'
    <2>1. PICK q \in CeilingsOver(Bytes), n \in Uses, there \in BOOLEAN :
            real' = [real EXCEPT ![a] = [there |-> there, quota |-> q, used |-> n]]
      BY <1>9 DEF Drift
    <2>2. q.bytes \in Nat /\ n \in Nat
      BY CountsAreNumbers, SizesAssumption
    <2>3. ASSUME NEW b \in Accounts PROVE real'[b].quota.bytes \in Nat /\ real'[b].used \in Nat
      <3>1. CASE b = a
        BY <1>1, <2>1, <2>2, <3>1 DEF Shape
      <3>2. CASE b # a
        BY <1>1, <2>1, <3>2 DEF Shape, Numbers
      <3> QED BY <3>1, <3>2
    <2>4. row' = row
      BY <1>9 DEF Drift
    <2> QED BY <2>3, <2>4 DEF Numbers
  <1>10. ASSUME NEW answer \in Answers(pending.to[2]), RefreshAfterWrite(answer) PROVE Numbers'
    <2> DEFINE a == pending.to
    <2>1. a \in Accounts
      BY <1>1, <1>10, IdleDoesNothing DEF RefreshAfterWrite, Shape
    <2>2. row' = [row EXCEPT ![a] = RowFrom(a, answer)] /\ real' = real
      BY <1>10 DEF RefreshAfterWrite
    <2>3. answer \in {"whole", "storage", "partial", "new"}
      BY DEF Answers
    <2> HIDE DEF a
    <2>4. RowFrom(a, answer).quota.bytes \in Nat /\ RowFrom(a, answer).used.bytes \in Nat
      BY <2>1, <2>3, AnswersAreNumbers
    <2>5. ASSUME NEW b \in Accounts PROVE row'[b].quota.bytes \in Nat /\ row'[b].used.bytes \in Nat
      <3>1. CASE b = a
        BY <1>1, <2>2, <2>4, <3>1 DEF Shape
      <3>2. CASE b # a
        BY <1>1, <2>2, <3>2 DEF Shape, Numbers
      <3> QED BY <3>1, <3>2
    <2> QED BY <2>2, <2>5 DEF Numbers
  <1>11. CASE RefreshFails
    <2> DEFINE a == pending.to
    <2>1. a \in Accounts
      BY <1>1, <1>11, IdleDoesNothing DEF RefreshFails, Shape
    <2>2. row' = [row EXCEPT ![a].ok = FALSE] /\ real' = real
      BY <1>11 DEF RefreshFails, MarkAccountUnobserved
    <2> HIDE DEF a
    <2>3. /\ row'[a] = [stored |-> row[a].stored, quota |-> row[a].quota, used |-> row[a].used,
                        ok |-> FALSE, age |-> row[a].age]
          /\ \A b \in Accounts \ {a} : row'[b] = row[b]
      BY <1>1, <2>1, <2>2, MarkingKeepsShape
    <2>4. \A b \in Accounts : row'[b].quota = row[b].quota /\ row'[b].used = row[b].used
      BY <2>3
    <2> QED BY <2>2, <2>4 DEF Numbers
  <1>12. CASE Tick
    <2>1. \A b \in Accounts : row'[b].quota = row[b].quota /\ row'[b].used = row[b].used
      BY <1>1, <1>12 DEF Tick, Shape
    <2>2. real' = real
      BY <1>12 DEF Tick
    <2> QED BY <2>1, <2>2 DEF Numbers
  <1>13. ASSUME real' = real, row' = row PROVE Numbers'
    BY <1>13 DEF Numbers
  <1>14. CASE Killed \/ ProbeUnread \/ PolicyChanges
    BY <1>13, <1>14 DEF Killed, ProbeUnread, PolicyChanges
  <1>15. ASSUME NEW answer, ProbeReads(answer) PROVE Numbers'
    BY <1>13, <1>15 DEF ProbeReads
  <1>16. ASSUME NEW p \in Providers, ObserveFails(p) \/ ProbeRefused(p) PROVE Numbers'
    BY <1>13, <1>16 DEF ObserveFails, ProbeRefused
  <1>17. CASE UNCHANGED vars
    BY <1>13, <1>17 DEF vars
  <1> QED
    BY <1>5, <1>6, <1>7, <1>8, <1>9, <1>10, <1>11, <1>12, <1>14, <1>15, <1>16, <1>17 DEF Next, AnswerComes

\* The accounts of S of which key says p.
Where(S, key, p) == {a \in S : key[a] = p}

\* A sum over some accounts, taken apart by what key says of them.
LEMMA SumsByKey ==
  ASSUME NEW S, S \subseteq Accounts, NEW P, IsFiniteSet(P), NEW key, \A a \in S : key[a] \in P,
         NEW number, \A a \in Accounts : number[a] \in Int,
         NEW part, \A p \in P : part[p] = SumOf(Where(S, key, p), number)
  PROVE  SumOf(P, part) = SumOf(S, number)
  <1> DEFINE with(p) == {a \in S : key[a] = p}
             sums == [p \in P |-> Total(number, with(p))]
  <1>1. IsFiniteSet(S) /\ \A a \in S : number[a] \in Int
    BY PairsAssumption, FS_Subset
  <1>2. \A x, f : SumOf(x, f) = Total(f, x)
    BY DEF SumOf, Total
  <1>3. Total(number, S) = Total(sums, P)
    BY <1>1, TotalByKey
  <1>4. ASSUME NEW p \in P PROVE sums[p] \in Int /\ part[p] = sums[p]
    <2>1. IsFiniteSet(with(p)) /\ \A a \in with(p) : number[a] \in Int
      BY <1>1, FS_Subset
    <2>2. Total(number, with(p)) \in Int
      <3> HIDE DEF with
      <3> QED BY <2>1, TotalSteps
    <2>3. part[p] = Total(number, with(p))
      BY <1>2 DEF Where
    <2> QED BY <2>2, <2>3
  <1>5. Total(sums, P) = Total(part, P)
    <2> HIDE DEF sums
    <2> QED BY <1>4, TotalExtensional
  <1> QED BY <1>2, <1>3, <1>5

\* A sum over the rows that can be read, person by person or service by service.
LEMMA SumsOfReadings ==
  ASSUME NEW S, S \subseteq Accounts, NEW number, \A a \in Accounts : number[a] \in Int
  PROVE  /\ SumOf(Users, [u \in Users |-> SumOf({a \in S : a[1] = u}, number)]) = SumOf(S, number)
         /\ SumOf(Providers, [p \in Providers |-> SumOf({a \in S : a[2] = p}, number)])
              = SumOf(S, number)
  <1>1. \A a \in S : a[1] \in Users /\ a[2] \in Providers
    BY PairsAssumption
  <1>2. SumOf(Users, [u \in Users |-> SumOf({a \in S : a[1] = u}, number)]) = SumOf(S, number)
    <2> DEFINE key == [a \in S |-> a[1]]
               part == [u \in Users |-> SumOf({a \in S : a[1] = u}, number)]
    <2>1. \A a \in S : key[a] \in Users
      BY <1>1
    <2>2. \A u \in Users : Where(S, key, u) = {a \in S : a[1] = u}
      BY DEF Where
    <2>3. \A u \in Users : part[u] = SumOf(Where(S, key, u), number)
      BY <2>2
    <2> HIDE DEF key
    <2> SUFFICES SumOf(Users, part) = SumOf(S, number)
      OBVIOUS
    <2> HIDE DEF part
    <2>4. IsFiniteSet(Users) /\ IsFiniteSet(Providers)
      BY PeopleAssumption
    <2> QED BY <2>1, <2>3, <2>4, SumsByKey
  <1>3. SumOf(Providers, [p \in Providers |-> SumOf({a \in S : a[2] = p}, number)])
          = SumOf(S, number)
    <2> DEFINE key == [a \in S |-> a[2]]
               part == [p \in Providers |-> SumOf({a \in S : a[2] = p}, number)]
    <2>1. \A a \in S : key[a] \in Providers
      BY <1>1
    <2>2. \A p \in Providers : Where(S, key, p) = {a \in S : a[2] = p}
      BY DEF Where
    <2>3. \A p \in Providers : part[p] = SumOf(Where(S, key, p), number)
      BY <2>2
    <2> HIDE DEF key
    <2> SUFFICES SumOf(Providers, part) = SumOf(S, number)
      OBVIOUS
    <2> HIDE DEF part
    <2>4. IsFiniteSet(Users) /\ IsFiniteSet(Providers)
      BY PeopleAssumption
    <2> QED BY <2>1, <2>3, <2>4, SumsByKey
  <1> QED BY <1>2, <1>3

\* The rows a page and a service count are the same rows: those that are
\* stored and can be read, taken apart by their owner or by their service.
LEMMA WhatIsCounted ==
  /\ \A u : Readables(Shown(u)) = {a \in Readables({b \in Accounts : row[b].stored}) : a[1] = u}
  /\ \A p : {a \in {b \in Of(p) : row[b].stored} : Readable(a)}
              = {a \in Readables({b \in Accounts : row[b].stored}) : a[2] = p}
  BY DEF Readables, Shown, OwnedBy, Of

\* In any state with readings for numbers the two shapes of the response add up.
LEMMA NumbersAgree == ReadingsInv /\ Numbers => TotalsAgree
  <1> SUFFICES ASSUME ReadingsInv, Numbers PROVE TotalsAgree
    OBVIOUS
  <1> DEFINE stored == {a \in Accounts : row[a].stored}
             seen   == Readables(stored)
  <1>1. seen \subseteq Accounts /\ stored \subseteq Accounts
    BY DEF Readables
  <1>2. \A a \in Accounts : UsedBytes[a] \in Int /\ QuotaBytes[a] \in Int
    BY DEF Numbers, UsedBytes, QuotaBytes
  <1>3. \A u : Readables(Shown(u)) = {a \in seen : a[1] = u}
    BY WhatIsCounted
  <1>4. \A p : {a \in {b \in Of(p) : row[b].stored} : Readable(a)} = {a \in seen : a[2] = p}
    BY WhatIsCounted
  <1>5. \A u : Usage(u).used = SumOf({a \in seen : a[1] = u}, UsedBytes)
    BY <1>3 DEF Usage
  <1>6. \A p : Service(p).used = SumOf({a \in seen : a[2] = p}, UsedBytes)
    BY <1>4 DEF Service
  <1>7. ~HasPolicy => \A u : Usage(u).budget = SumOf({a \in seen : a[1] = u}, QuotaBytes)
    BY <1>3 DEF Usage
  <1>8. \A p : Service(p).quota = SumOf({a \in seen : a[2] = p}, QuotaBytes)
    BY <1>4 DEF Service
  <1>9. \A u : Usage(u).complete => Readables(Shown(u)) = Shown(u)
    BY DEF Usage
  <1>10. \A p : Service(p).partial <=> {a \in seen : a[2] = p} # {b \in Of(p) : row[b].stored}
    BY <1>4 DEF Service
  <1>11. SumOf(Users, [u \in Users |-> Usage(u).used]) = SumOf(seen, UsedBytes)
    <2>1. [u \in Users |-> Usage(u).used] = [u \in Users |-> SumOf({a \in seen : a[1] = u}, UsedBytes)]
      BY <1>5
    <2> HIDE DEF seen
    <2> QED BY <1>1, <1>2, <2>1, SumsOfReadings
  <1>12. SumOf(Providers, [p \in Providers |-> Service(p).used]) = SumOf(seen, UsedBytes)
    <2>1. [p \in Providers |-> Service(p).used]
            = [p \in Providers |-> SumOf({a \in seen : a[2] = p}, UsedBytes)]
      BY <1>6
    <2> HIDE DEF seen
    <2> QED BY <1>1, <1>2, <2>1, SumsOfReadings
  <1>13. ASSUME ~HasPolicy
         PROVE  SumOf(Users, [u \in Users |-> Usage(u).budget])
                  = SumOf(Providers, [p \in Providers |-> Service(p).quota])
    <2>1. [u \in Users |-> Usage(u).budget]
            = [u \in Users |-> SumOf({a \in seen : a[1] = u}, QuotaBytes)]
      BY <1>7, <1>13
    <2>2. [p \in Providers |-> Service(p).quota]
            = [p \in Providers |-> SumOf({a \in seen : a[2] = p}, QuotaBytes)]
      BY <1>8
    <2> HIDE DEF seen
    <2>3. SumOf(Users, [u \in Users |-> Usage(u).budget]) = SumOf(seen, QuotaBytes)
      BY <1>1, <1>2, <2>1, SumsOfReadings
    <2>4. SumOf(Providers, [p \in Providers |-> Service(p).quota]) = SumOf(seen, QuotaBytes)
      BY <1>1, <1>2, <2>2, SumsOfReadings
    <2> QED BY <2>3, <2>4
  <1>14. ASSUME \A u \in Users : Usage(u).complete
         PROVE  /\ \A p \in Providers : ~Service(p).partial
                /\ seen = stored
                /\ \A a \in stored : status[a[2]].ok /\ row[a].ok
    <2>1. ASSUME NEW a \in stored PROVE Readable(a)
      <3>1. a[1] \in Users /\ a \in Shown(a[1])
        BY PairsAssumption DEF Shown, OwnedBy
      <3>2. a \in Readables(Shown(a[1]))
        BY <1>9, <1>14, <3>1
      <3> QED BY <3>2 DEF Readables
    <2>2. seen = stored
      BY <2>1 DEF Readables
    <2>3. \A p \in Providers : {a \in seen : a[2] = p} = {b \in Of(p) : row[b].stored}
      BY <2>2 DEF Of
    <2>4. \A a \in stored : status[a[2]].ok /\ row[a].ok
      BY <2>1 DEF Readable, Status
    <2> QED
      <3> HIDE DEF seen, stored
      <3> QED BY <1>10, <2>2, <2>3, <2>4
  <1> HIDE DEF seen
  <1> QED BY <1>11, <1>12, <1>13, <1>14 DEF TotalsAgree

\* The two shapes of the usage response agree in every state: what the people
\* use is what the services hold, their ceilings too while there is no policy,
\* and when nobody is partial nothing that is stored was left out
\* (api/usage.go, core/usage.go).
THEOREM TotalsHold == Spec => []TotalsAgree
  <1>1. Init => Numbers
    <2>1. NoRow.quota.bytes \in Nat /\ NoRow.used.bytes \in Nat
      BY CountsAreNumbers DEF NoRow
    <2>2. (CHOOSE n \in Uses : TRUE) \in Nat
      BY SizesAssumption
    <2>3. ASSUME Init, NEW a \in Accounts
          PROVE  /\ real[a].quota = Unlimited /\ real[a].used = (CHOOSE n \in Uses : TRUE)
                 /\ row[a] = NoRow
      BY <2>3 DEF Init
    <2>4. Unlimited.bytes \in Nat
      BY CountsAreNumbers
    <2>5. ASSUME Init, NEW a \in Accounts
          PROVE  /\ real[a].quota.bytes \in Nat /\ real[a].used \in Nat
                 /\ row[a].quota.bytes \in Nat /\ row[a].used.bytes \in Nat
      BY <2>1, <2>2, <2>3, <2>4, <2>5
    <2> QED BY <2>5 DEF Numbers
  <1>2. ReadingsInv /\ Numbers /\ [Next]_vars => Numbers'
    BY NumbersStay
  <1> QED BY <1>1, <1>2, ReadingsHold, NumbersAgree, PTL DEF Spec
=============================================================================

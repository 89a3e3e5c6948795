-------------------------- MODULE ReconcileProofs --------------------------
(***************************************************************************)
(* What the checked instances of Reconcile suggest, for any number of      *)
(* people and providers, any byte counts, and any number of disturbances.  *)
(***************************************************************************)
EXTENDS ReconcileRefinement, FiniteSetTheorems, TLAPS

(***************************************************************************)
(* The operators the engine is built from.                                 *)
(***************************************************************************)
LEMMA QuotaTypes ==
  /\ Unknown \in QuotasOver(Sizes) /\ Unknown \in UsagesOver(Sizes)
  /\ Unlimited \in Ceilings
  /\ Ceilings \subseteq QuotasOver(Sizes)
  /\ UsagesOver(Sizes) \subseteq QuotasOver(Sizes)
  /\ \A n \in Sizes : /\ BytesQuota(n) \in Ceilings /\ BytesQuota(n) \in UsagesOver(Sizes)
                      /\ BytesQuota(n) = [kind |-> "bytes", bytes |-> n]
<1>1. \A n \in Sizes : BytesQuota(n) = [kind |-> "bytes", bytes |-> n]
  BY SizesAssumption DEF SizesAssumption, BytesQuota
<1> QED BY <1>1 DEF QuotasOver, UsagesOver, Ceilings, CeilingsOver

\* A quota is unknown, unlimited or a byte count that occurs.
LEMMA ShapeOfQuotas ==
  ASSUME NEW q \in QuotasOver(Sizes)
  PROVE  \/ q = Unknown /\ ~IsKnown(q) /\ ~IsBytes(q)
         \/ q = Unlimited /\ IsKnown(q) /\ ~IsBytes(q)
         \/ q.bytes \in Sizes /\ q = BytesQuota(q.bytes) /\ IsKnown(q) /\ IsBytes(q)
BY SizesAssumption DEF SizesAssumption, QuotasOver, BytesQuota, Unknown, Unlimited, IsKnown, IsBytes

\* What a provider stores is a quota, and storing it again changes nothing.
LEMMA NormalForm ==
  ASSUME NEW p \in Providers, NEW q \in QuotasOver(Sizes)
  PROVE  /\ NormalizeQuota(p, q) \in QuotasOver(Sizes)
         /\ NormalizeQuota(p, NormalizeQuota(p, q)) = NormalizeQuota(p, q)
<1>1. CASE IsBytes(q)
  BY <1>1, ShapeOfQuotas, QuotaTypes, KeepsAssumption DEF KeepsAssumption, NormalizeQuota
<1>2. CASE ~IsBytes(q)
  BY <1>2 DEF NormalizeQuota
<1> QED BY <1>1, <1>2

\* What an observation stores is a row, whatever the answer left out.
LEMMA RowType ==
  ASSUME TypeOK, NEW a \in Pairs, NEW noQuota, NEW noUsed
  PROVE  RowOf(a, noQuota, noUsed) \in Rows
<1>1. account[a].quota \in Ceilings /\ account[a].used \in Sizes
  BY DEF TypeOK, Accounts
<1> QED BY <1>1, QuotaTypes DEF RowOf, Rows, NoRow

\* What a re-read returns is a known or unknown quota and usage.
LEMMA ReadType ==
  ASSUME TypeOK, NEW a \in Pairs, NEW quotaKnown, NEW usedKnown
  PROVE  Read(a, quotaKnown, usedKnown) \in Reads
<1>1. account[a].quota \in Ceilings /\ account[a].used \in Sizes
  BY DEF TypeOK, Accounts
<1> QED BY <1>1, QuotaTypes DEF Read, Reads

\* Planning gives each pair a change or none.
LEMMA PlanType ==
  ASSUME TypeOK
  PROVE  BuildPlan([a \in Pairs |-> PlanAccount(a)]) \in [Pairs -> Changes]
<1> DEFINE accounts == [a \in Pairs |-> PlanAccount(a)]
<1> SUFFICES ASSUME NEW a \in Pairs PROVE ChangeFor(accounts[a]) \in Changes
  BY Zenon DEF BuildPlan
<1>1. row[a] \in Rows /\ policy[a] \in Decisions
  BY DEF TypeOK
<1>2. accounts[a].observed \in QuotasOver(Sizes)
  BY <1>1 DEF Rows, PlanAccount
<1>3. policy[a].ceiling \in QuotasOver(Sizes)
  <2>1. CASE policy[a] = Unallocated
    BY <2>1, QuotaTypes DEF Unallocated
  <2>2. CASE policy[a] \in [present : {TRUE}, ceiling : Ceilings]
    BY <2>2, QuotaTypes
  <2> QED BY <1>1, <2>1, <2>2 DEF Decisions
<1>4. a[2] \in Providers
  BY DEF Pairs
<1>5. accounts[a].desired \in QuotasOver(Sizes)
  BY <1>3, <1>4, NormalForm, QuotaTypes DEF PlanAccount
<1>6. Classify(accounts[a]) \in Classes
  BY DEF Classify, Classes
<1> HIDE DEF accounts
<1> QED BY <1>2, <1>5, <1>6, QuotaTypes DEF ChangeFor, Changes, NoChange

\* The changes of a class can be counted.
LEMMA CountType ==
  ASSUME NEW c
  PROVE  Cardinality(OfClass(c)) \in Nat
<1>1. IsFiniteSet(Pairs)
  BY OrderAssumption, FS_Product DEF OrderAssumption, Pairs
<1>2. OfClass(c) \in SUBSET Pairs
  BY DEF OfClass
<1> QED BY <1>1, <1>2, FS_Subset, FS_CardinalityType

\* An entry that is lost is one that was handed to the log, then or before.
LEMMA LosesType ==
  ASSUME NEW kept, NEW entries, Loses(kept, entries)
  PROVE  lost' \subseteq kept \cup entries
BY DEF Loses

(***************************************************************************)
(* Type correctness.                                                       *)
(***************************************************************************)
LEMMA TypeInit == Init => TypeOK
<1> SUFFICES ASSUME Init PROVE TypeOK
  OBVIOUS
<1>1. account \in [Pairs -> Accounts] /\ policy \in [Pairs -> Decisions]
  BY StartAssumption DEF StartAssumption, Init
<1>2. row \in [Pairs -> Rows]
  BY QuotaTypes DEF Init, NoRow, Rows
<1>3. run \in Runs /\ report \in Reports /\ fresh \in Reads
  BY QuotaTypes DEF Init, NoRun, Runs, Actors, NoReport, Reports, NoRead, Reads
<1>4. plan \in [Pairs -> Changes]
  BY QuotaTypes DEF Init, NoChange, Changes
<1> QED
  BY <1>1, <1>2, <1>3, <1>4, BudgetAssumption, BoundAssumption
  DEF BudgetAssumption, BoundAssumption, Init, TypeOK, Results

\* One change is in hand at a time.
LEMMA OneInHand ==
  ASSUME NEW a \in Pairs, NEW b \in Pairs, InHand(a), InHand(b)
  PROVE  a = b
<1>1. PICK u \in Users, p \in Providers : a = <<u, p>>
  BY DEF Pairs
<1>2. PICK v \in Users, q \in Providers : b = <<v, q>>
  BY DEF Pairs
<1>3. u \in Nat /\ p \in Nat /\ v \in Nat /\ q \in Nat
  BY OrderAssumption DEF OrderAssumption
<1> SUFFICES ASSUME a # b PROVE FALSE
  OBVIOUS
<1>4. Before(a, b) /\ Before(b, a)
  BY DEF InHand
<1> QED BY <1>1, <1>2, <1>3, <1>4 DEF Before

\* What SetQuota leaves behind is the ceiling of the plan.
LEMMA WrittenValue ==
  ASSUME Inductive, NEW a \in Pairs, Write(a)
  PROVE  /\ NormalizeQuota(a[2], plan[a].to) = plan[a].to
         /\ plan[a].to \in Ceilings
<1>1. a \in todo /\ Applying
  BY DEF Write, InHand, Applying
<1>2. IsKnown(plan[a].to) /\ NormalizeQuota(a[2], plan[a].to) = plan[a].to
  BY <1>1 DEF Inductive, TodoIsTrusted, Trusted
<1>3. plan[a].to \in QuotasOver(Sizes)
  BY DEF Inductive, TypeOK, Changes
<1> QED BY <1>2, <1>3, ShapeOfQuotas, QuotaTypes

\* Every step keeps the types.
LEMMA TypeNext == Inductive /\ [Next]_vars => TypeOK'
<1> SUFFICES ASSUME Inductive, TypeOK, [Next]_vars PROVE TypeOK'
  BY DEF Inductive
<1> USE DEF TypeOK, provider, admin, engine, history
<1>1. ASSUME NEW a \in Pairs, NEW n \in Sizes, UseStorage(a, n) PROVE TypeOK'
  BY <1>1 DEF UseStorage, Disturb, Accounts
<1>2. ASSUME NEW a \in Pairs, NEW q \in Ceilings, OthersSetQuota(a, q) PROVE TypeOK'
  BY <1>2 DEF OthersSetQuota, Disturb, Accounts
<1>3. ASSUME NEW a \in Pairs, NEW s \in Statuses, ChangeStatus(a, s) PROVE TypeOK'
  BY <1>3 DEF ChangeStatus, Disturb, Accounts
<1>4. ASSUME NEW a \in Pairs, NEW d \in Decisions, EditPolicy(a, d) PROVE TypeOK'
  BY <1>4 DEF EditPolicy, Disturb
<1>5. ASSUME NEW a \in Pairs, Unlink(a) \/ LinkByHand(a) PROVE TypeOK'
  BY <1>5 DEF Unlink, LinkByHand, Disturb
<1>6. ASSUME Trigger PROVE TypeOK'
  <2>1. ASSUME NEW r \in Runs, Begin(r), left' \in Nat PROVE TypeOK'
    <3>1. settled' \in BOOLEAN
      BY <2>1 DEF Begin
    <3>2. plan' \in [Pairs -> Changes]
      BY <2>1, QuotaTypes DEF Begin, NoChange, Changes
    <3> QED BY <2>1, <3>1, <3>2 DEF Begin
  <2>2. Scopes \subseteq SUBSET Pairs
    BY DEF Scopes, Pairs, Of
  <2>3. CASE BeginScheduled
    BY <2>1, <2>3 DEF BeginScheduled, Runs, Actors
  <2>4. CASE BeginRefresh
    <3> DEFINE r == [actor |-> "refresh", consent |-> FALSE, dryRun |-> FALSE, scope |-> Pairs]
    <3>1. r \in Runs
      BY DEF Runs, Actors
    <3>2. left' \in Nat /\ Begin(r)
      BY <2>4 DEF BeginRefresh, Disturb
    <3> QED BY <2>1, <3>1, <3>2
  <2>5. ASSUME NEW consent \in BOOLEAN, NEW dryRun \in BOOLEAN, NEW scope \in Scopes,
               BeginByOperator(consent, dryRun, scope)
        PROVE  TypeOK'
    BY <2>1, <2>2, <2>5 DEF BeginByOperator, Runs, Actors, Disturb
  <2> QED BY <1>6, <2>3, <2>4, <2>5 DEF Trigger
<1>7. ASSUME Observing PROVE TypeOK'
  BY <1>7, RowType DEF Observing, ObserveProvider, ObserveFails, NextPhase, Disturb
<1>8. ASSUME LinkAccounts PROVE TypeOK'
  BY <1>8 DEF LinkAccounts
<1>9. ASSUME MakePlan PROVE TypeOK'
  BY <1>9, PlanType DEF MakePlan
<1>10. ASSUME RefuseExpired PROVE TypeOK'
  BY <1>10 DEF RefuseExpired, Disturb
<1>11. ASSUME StartApply PROVE TypeOK'
  <2>1. report' \in Reports
    BY <1>11, CountType DEF StartApply, NoReport, Reports
  <2>2. todo' \subseteq Pairs
    BY <1>11 DEF StartApply, Applicable, Changed
  <2>3. lost' \subseteq Pairs
    <3> DEFINE refused == OfClass(Blind) \cup (IF run.consent THEN {} ELSE OfClass(Shrink))
    <3>1. Loses({}, refused)
      BY <1>11 DEF StartApply
    <3>2. lost' \subseteq refused
      BY <3>1, LosesType
    <3> QED BY <3>2 DEF OfClass
  <2> QED BY <1>11, <2>1, <2>2, <2>3, BudgetAssumption DEF BudgetAssumption, StartApply, Results
<1>12. ASSUME NEW a \in Pairs, Handle(a) PROVE TypeOK'
  <2>1. a[2] \in Providers
    BY DEF Pairs
  <2>2. ASSUME NEW result \in Results, Settle(a, result)
        PROVE  /\ todo' \subseteq Pairs /\ outcome' \in [Pairs -> Results] /\ pc' = "apply"
               /\ lost' \subseteq Pairs
    <3>1. lost' \subseteq Pairs
      BY <2>2, LosesType DEF Settle
    <3> QED BY <2>2, <3>1 DEF Settle
  <2>3. NoRead \in Reads
    BY QuotaTypes DEF NoRead, Reads
  <2>4. ASSUME Fail(a)
        PROVE  /\ report' \in Reports /\ stopped' \subseteq Providers /\ fresh' \in Reads
               /\ todo' \subseteq Pairs /\ outcome' \in [Pairs -> Results] /\ pc' = "apply"
               /\ lost' \subseteq Pairs
    BY <2>1, <2>2, <2>3, <2>4 DEF Fail, Reports, Results
  <2>5. ASSUME Write(a)
        PROVE  account' \in [Pairs -> Accounts] /\ landed' \subseteq Pairs
    <3>1. NormalizeQuota(a[2], plan[a].to) \in Ceilings
      BY <2>5, WrittenValue DEF Inductive
    <3> QED BY <2>5, <3>1 DEF Write, Accounts
  <2>6. CASE SkipChange(a)
    BY <2>2, <2>6 DEF SkipChange, Reports, Results
  <2>7. CASE RecheckFails(a)
    BY <2>4, <2>7 DEF RecheckFails, Disturb
  <2>8. ASSUME NEW quotaKnown \in BOOLEAN, NEW usedKnown \in BOOLEAN,
               Recheck(a, quotaKnown, usedKnown)
        PROVE  TypeOK'
    <3> DEFINE read == Read(a, quotaKnown, usedKnown)
    <3>1. left' \in Nat
      BY <2>8 DEF Recheck, Disturb
    <3>2. CASE Refuse(a)
      BY <2>2, <2>8, <3>1, <3>2 DEF Recheck, Refuse, Reports, Results
    <3>3. CASE LeaveAlone(a)
      BY <2>2, <2>8, <3>1, <3>3 DEF Recheck, LeaveAlone, Results
    <3>4. CASE Announce(a)
      BY <2>2, <2>8, <3>1, <3>4 DEF Recheck, Announce, Reports, Results
    <3>5. CASE HoldBack(a) /\ UNCHANGED fresh
      BY <2>1, <2>2, <2>8, <3>1, <3>5 DEF Recheck, HoldBack, Reports, Results
    <3>6. CASE Allowed(a[2]) /\ Proceed(a, read)
      <4>1. budget' \in [Providers -> Nat]
        BY <2>1, <3>6 DEF Proceed, Allowed
      <4> QED BY <2>8, <3>1, <3>6, <4>1, ReadType DEF Recheck, Proceed
    <3> QED BY <2>8, <3>2, <3>3, <3>4, <3>5, <3>6 DEF Recheck
  <2>9. CASE WriteLands(a)
    BY <2>3, <2>5, <2>9 DEF WriteLands, Reports
  <2>10. CASE WriteAnswerLost(a)
    BY <2>4, <2>5, <2>10 DEF WriteAnswerLost, Disturb
  <2>11. CASE WriteFails(a)
    BY <2>4, <2>11 DEF WriteFails, Disturb
  <2>12. CASE WriteThrottled(a)
    <3>1. left' \in Nat /\ fresh' \in Reads
      BY <2>3, <2>12 DEF WriteThrottled, Disturb
    <3>2. report' \in Reports /\ stopped' \subseteq Providers /\ budget' = budget
      BY <2>1, <2>12 DEF WriteThrottled, HoldBack, Reports
    <3>3. /\ todo' \subseteq Pairs /\ outcome' \in [Pairs -> Results] /\ pc' = "apply"
          /\ lost' \subseteq Pairs
      BY <2>2, <2>12 DEF WriteThrottled, HoldBack, Results
    <3> QED BY <2>12, <3>1, <3>2, <3>3 DEF WriteThrottled
  <2>13. CASE RecordApplied(a)
    <3>1. lost' \subseteq Pairs
      BY <2>13, LosesType DEF RecordApplied
    <3> QED BY <2>13, <3>1 DEF RecordApplied, Results
  <2>14. ASSUME NEW noQuota, NEW noUsed, RefreshRow(a, noQuota, noUsed) PROVE TypeOK'
    BY <2>2, <2>14, RowType DEF RefreshRow, Disturb, Results
  <2>15. CASE RefreshFails(a)
    <3>1. left' \in Nat
      BY <2>15 DEF RefreshFails, Disturb
    <3>2. [row[a] EXCEPT !.observeOK = FALSE] \in Rows
      BY DEF Rows
    <3>3. row' = [row EXCEPT ![a] = [row[a] EXCEPT !.observeOK = FALSE]]
      BY <2>15 DEF RefreshFails
    <3>4. row' \in [Pairs -> Rows]
      BY <3>2, <3>3
    <3> QED BY <2>2, <2>15, <3>1, <3>4 DEF RefreshFails, Results
  <2>16. CASE RowNotStored(a)
    BY <2>2, <2>16 DEF RowNotStored, Disturb, Results
  <2> QED
    BY <1>12, <2>6, <2>7, <2>8, <2>9, <2>10, <2>11, <2>12, <2>13, <2>14, <2>15, <2>16 DEF Handle
<1>13. ASSUME Finish \/ FinishUnrecorded PROVE TypeOK'
  <2>1. CASE Finish
    BY <2>1 DEF Finish, Reports
  <2>2. CASE FinishUnrecorded
    BY <2>2 DEF FinishUnrecorded, Disturb
  <2> QED BY <1>13, <2>1, <2>2
<1>14. ASSUME Interrupt PROVE TypeOK'
  BY <1>14, QuotaTypes DEF Interrupt, Disturb, NoRead, Reads
<1>15. ASSUME UNCHANGED vars PROVE TypeOK'
  BY <1>15 DEF vars
<1> QED
  BY <1>1, <1>2, <1>3, <1>4, <1>5, <1>6, <1>7, <1>8, <1>9, <1>10, <1>11, <1>12, <1>13, <1>14,
     <1>15 DEF Next, Environment, Engine

(***************************************************************************)
(* The rest of the invariant.                                              *)
(***************************************************************************)
Control == ConsentIsGiven /\ PlanIsTrusted /\ TodoIsTrusted /\ TodoIsUnwritten /\ LookIsGood

\* None of it can be disturbed from outside: no step of the environment
\* touches what the engine holds.
LEMMA ControlFrame ==
  ASSUME Control, UNCHANGED <<row, pc, run, plan, todo, fresh, landed>>
  PROVE  Control'
BY DEF Control, ConsentIsGiven, PlanIsTrusted, TodoIsTrusted, TodoIsUnwritten, LookIsGood,
       Applying, Trusted, InHand

\* Nor does it ask anything of a run that has no plan yet.
LEMMA ControlBeforePlan ==
  ASSUME pc' \in {"idle", "observe", "link", "plan"}, run'.consent => run'.actor = "operator"
  PROVE  Control'
BY DEF Control, ConsentIsGiven, PlanIsTrusted, TodoIsTrusted, TodoIsUnwritten, LookIsGood,
       Applying

\* Putting a change aside, whatever became of it, leaves the others as they
\* were.
LEMMA ControlSettle ==
  ASSUME Inductive, NEW a \in Pairs, NEW result, Applying, InHand(a), Settle(a, result),
         UNCHANGED <<run, plan>>,
         \A b \in Pairs \ {a} : row'[b] = row[b],
         landed' \subseteq landed \cup {a}
  PROVE  Control'
<1>1. pc' = "apply" /\ todo' = todo \ {a}
  BY DEF Settle
<1>2. ConsentIsGiven' /\ PlanIsTrusted' /\ LookIsGood'
  BY <1>1 DEF Inductive, ConsentIsGiven, PlanIsTrusted, LookIsGood
<1>3. TodoIsTrusted'
  BY <1>1 DEF Inductive, TypeOK, TodoIsTrusted, Trusted
<1>4. TodoIsUnwritten'
  <2> SUFFICES ASSUME NEW b \in todo', b \in landed' PROVE FALSE
    BY DEF TodoIsUnwritten
  <2>1. b \in todo \cap landed /\ b # a /\ b \in Pairs
    BY <1>1 DEF Inductive, TypeOK
  <2>2. InHand(b)
    BY <2>1 DEF Inductive, TodoIsUnwritten
  <2> QED BY <2>1, <2>2, OneInHand
<1> QED BY <1>2, <1>3, <1>4 DEF Control

\* The plan is only made of rows that were read and ceilings that are kept.
LEMMA PlanIsMadeOfTrustedRows ==
  ASSUME TypeOK, NEW a \in Pairs,
         ChangeFor(PlanAccount(a)).class \in {Safe, Shrink}
  PROVE  /\ row[a].observeOK /\ IsKnown(row[a].quota) /\ IsKnown(row[a].used)
         /\ IsKnown(ChangeFor(PlanAccount(a)).to)
         /\ LET to == ChangeFor(PlanAccount(a)).to IN NormalizeQuota(a[2], to) = to
<1>1. NeedsChange(PlanAccount(a)) /\ Classify(PlanAccount(a)) \in {Safe, Shrink}
  BY DEF ChangeFor, NoChange, Safe, Shrink
<1>2. Readable(PlanAccount(a)) /\ PlanAccount(a).present
  BY <1>1 DEF NeedsChange, Classify, Safe, Shrink, Blind
<1>3. ChangeFor(PlanAccount(a)).to = PlanAccount(a).desired
  BY <1>1 DEF ChangeFor
<1>4. policy[a].present /\ PlanAccount(a).desired = NormalizeQuota(a[2], policy[a].ceiling)
  BY <1>2 DEF PlanAccount
<1>5. policy[a].ceiling \in QuotasOver(Sizes)
  <2>1. CASE policy[a] = Unallocated
    BY <2>1, QuotaTypes DEF Unallocated
  <2>2. CASE policy[a] \in [present : {TRUE}, ceiling : Ceilings]
    BY <2>2, QuotaTypes
  <2> QED BY <2>1, <2>2 DEF TypeOK, Decisions
<1>6. a[2] \in Providers
  BY DEF Pairs
<1>7. row[a].observeOK /\ IsKnown(row[a].quota) /\ IsKnown(row[a].used)
  BY <1>2 DEF Readable, PlanAccount
<1>8. IsKnown(PlanAccount(a).desired)
  BY <1>2 DEF Readable
<1> QED BY <1>3, <1>4, <1>5, <1>6, <1>7, <1>8, NormalForm

\* A change that passes the re-check with something left to do has both values
\* read, and is a shrink if it lands at or below what was read.
LEMMA RecheckLicenses ==
  ASSUME TypeOK, NEW a \in Pairs, NEW quotaKnown, NEW usedKnown,
         plan[a].class \in {Safe, Shrink},
         RecheckClass(a, Read(a, quotaKnown, usedKnown)) = plan[a].class,
         ~Equal(Read(a, quotaKnown, usedKnown).quota, plan[a].to)
  PROVE  LET read == Read(a, quotaKnown, usedKnown) IN
         /\ IsKnown(read.quota) /\ read.used = BytesQuota(account[a].used)
         /\ AtOrBelow(plan[a].to, read.used) => plan[a].class = Shrink
<1> DEFINE read == Read(a, quotaKnown, usedKnown)
<1> DEFINE again == [present |-> TRUE, desired |-> plan[a].to, observed |-> read.quota,
                     used |-> read.used, neverUsed |-> account[a].used = 0, observeOK |-> TRUE]
<1>1. NeedsChange(again)
  BY DEF NeedsChange, Equal, IsBytes
<1>2. Classify(again) = plan[a].class
  <2>1. ChangeFor(again).class = Classify(again)
    BY <1>1 DEF ChangeFor
  <2>2. Classify(again) # "none"
    BY DEF Classify, Safe, Shrink, Blind
  <2> QED BY <2>1, <2>2 DEF RecheckClass
<1>3. Readable(again)
  BY <1>2 DEF Classify, Safe, Shrink, Blind
<1>4. IsKnown(read.quota) /\ IsKnown(read.used)
  BY <1>3 DEF Readable
<1>5. read.used = BytesQuota(account[a].used)
  BY <1>4 DEF Read, IsKnown, Unknown
<1>6. ASSUME AtOrBelow(plan[a].to, read.used) PROVE plan[a].class = Shrink
  <2>1. account[a].used \in Sizes /\ plan[a].to \in QuotasOver(Sizes)
    BY DEF TypeOK, Accounts, Changes
  <2>2. read.used.bytes = account[a].used
    BY <1>5, <2>1, QuotaTypes
  <2>3. plan[a].to.bytes \in Sizes
    BY <1>6, <2>1, ShapeOfQuotas DEF AtOrBelow
  <2>4. plan[a].to.bytes <= account[a].used
    BY <1>6, <2>2 DEF AtOrBelow
  <2>5. again.neverUsed = (account[a].used = 0) /\ again.desired = plan[a].to
    BY Zenon
  <2>6. ~(account[a].used = 0 /\ plan[a].to.bytes > 0)
    <3> HIDE DEF again, read
    <3>1. account[a].used \in Nat /\ plan[a].to.bytes \in Nat
      BY <2>1, <2>3, SizesAssumption DEF SizesAssumption
    <3> QED BY <2>4, <3>1
  <2>7. ~(again.neverUsed /\ again.desired.bytes > 0)
    BY <2>5, <2>6, Zenon
  <2>8. AtOrBelow(again.desired, again.used)
    BY <1>6
  <2> HIDE DEF again
  <2> QED BY <1>2, <1>3, <2>7, <2>8 DEF Classify
<1> QED BY <1>4, <1>5, <1>6
\* Every step keeps what is known of the plan, the change in hand and the look.
LEMMA ControlNext == Inductive /\ [Next]_vars => Control'
<1> SUFFICES ASSUME Inductive, [Next]_vars PROVE Control'
  OBVIOUS
<1> USE DEF provider, admin, engine, history
<1>0. Control /\ TypeOK
  BY DEF Inductive, Control
<1>1. CASE Environment
  <2>1. UNCHANGED <<row, pc, run, plan, todo, fresh, landed>>
    BY <1>1 DEF Environment, UseStorage, OthersSetQuota, ChangeStatus, EditPolicy, Unlink,
                LinkByHand
  <2> QED BY <1>0, <2>1, ControlFrame
<1>2. CASE Trigger
  <2>1. pc' = "observe" /\ (run'.consent => run'.actor = "operator")
    BY <1>2 DEF Trigger, BeginScheduled, BeginRefresh, BeginByOperator, Begin
  <2> QED BY <2>1, ControlBeforePlan
<1>3. CASE Observing \/ LinkAccounts
  <2>1. pc' \in {"observe", "link", "idle", "plan"} /\ run' = run
    BY <1>3 DEF Observing, ObserveProvider, ObserveFails, NextPhase, LinkAccounts
  <2> QED BY <1>0, <2>1, ControlBeforePlan DEF Control, ConsentIsGiven
<1>4. CASE RefuseExpired \/ Finish \/ FinishUnrecorded \/ Interrupt
  <2>1. pc' = "idle" /\ run' = run
    BY <1>4 DEF RefuseExpired, Finish, FinishUnrecorded, Interrupt
  <2> QED BY <1>0, <2>1, ControlBeforePlan DEF Control, ConsentIsGiven
<1>5. CASE MakePlan
  <2>1. \A a \in Pairs : plan'[a] = ChangeFor(PlanAccount(a))
    BY <1>5 DEF MakePlan, BuildPlan
  <2>2. pc' \in {"idle", "start"} /\ run' = run /\ row' = row
    BY <1>5 DEF MakePlan
  <2>3. PlanIsTrusted'
    BY <1>0, <2>1, <2>2, PlanIsMadeOfTrustedRows DEF PlanIsTrusted, Trusted
  <2> QED
    BY <1>0, <2>2, <2>3 DEF Control, ConsentIsGiven, TodoIsTrusted, TodoIsUnwritten, LookIsGood,
                            Applying
<1>6. CASE StartApply
  <2>1. pc = "start" /\ pc' = "apply" /\ UNCHANGED <<run, row, plan>>
    BY <1>6 DEF StartApply
  <2>2. landed' = {} /\ todo' = Applicable(plan, run.consent)
    BY <1>6 DEF StartApply
  <2>3. \A a \in todo' : a \in Pairs /\ (plan[a].class = Safe \/ (plan[a].class = Shrink /\ run.consent))
    BY <1>0, <2>2 DEF Applicable, Changed, TypeOK
  <2>4. TodoIsTrusted'
    BY <1>0, <2>1, <2>3 DEF Control, PlanIsTrusted, TodoIsTrusted, Trusted
  <2> QED
    BY <1>0, <2>1, <2>2, <2>4 DEF Control, ConsentIsGiven, PlanIsTrusted, TodoIsUnwritten,
                                  LookIsGood
<1>7. ASSUME NEW a \in Pairs, Handle(a) PROVE Control'
  <2>1. ASSUME NEW result, Settle(a, result), InHand(a), Applying,
               UNCHANGED <<run, plan>>, \A b \in Pairs \ {a} : row'[b] = row[b],
               landed' \subseteq landed \cup {a}
        PROVE  Control'
    BY <2>1, ControlSettle
  <2>2. CASE SkipChange(a)
    BY <2>1, <2>2 DEF SkipChange, Applying
  <2>3. CASE RecheckFails(a)
    BY <2>1, <2>3 DEF RecheckFails, Attempted, Fail, Applying
  <2>4. ASSUME NEW quotaKnown \in BOOLEAN, NEW usedKnown \in BOOLEAN,
               Recheck(a, quotaKnown, usedKnown)
        PROVE  Control'
    <3> DEFINE read == Read(a, quotaKnown, usedKnown)
    <3>1. /\ pc = "apply" /\ InHand(a) /\ Applying
          /\ UNCHANGED <<run, plan, row, landed>>
      BY <2>4 DEF Recheck, Attempted, Applying
    <3>2. CASE Refuse(a)
      BY <2>1, <3>1, <3>2 DEF Refuse
    <3>3. CASE LeaveAlone(a)
      BY <2>1, <3>1, <3>3 DEF LeaveAlone
    <3>4. CASE Announce(a)
      BY <2>1, <3>1, <3>4 DEF Announce
    <3>5. CASE HoldBack(a)
      BY <2>1, <3>1, <3>5 DEF HoldBack
    <3>6. CASE /\ RecheckClass(a, read) = plan[a].class
               /\ ~Equal(read.quota, plan[a].to)
               /\ Proceed(a, read)
      <4>1. pc' = "write" /\ fresh' = read /\ todo' = todo
        BY <3>6 DEF Proceed
      <4>2. a \in todo /\ (plan[a].class = Safe \/ (plan[a].class = Shrink /\ run.consent))
        BY <1>0, <3>1 DEF InHand, Control, TodoIsTrusted
      <4>3. /\ IsKnown(read.quota) /\ read.used = BytesQuota(account[a].used)
            /\ AtOrBelow(plan[a].to, read.used) => plan[a].class = Shrink
        BY <1>0, <3>6, <4>2, RecheckLicenses
      <4>4. IsKnown(read.used)
        <5>1. account[a].used \in Sizes
          BY <1>0 DEF TypeOK, Accounts
        <5> QED BY <4>3, <5>1, QuotaTypes DEF IsKnown
      <4>5. AtOrBelow(plan[a].to, read.used) => run.consent
        BY <4>2, <4>3 DEF Safe, Shrink
      <4>6. LookIsGood'
        <5> SUFFICES ASSUME NEW b \in Pairs, InHand(b)'
                     PROVE  (/\ IsKnown(fresh.quota) /\ IsKnown(fresh.used)
                             /\ AtOrBelow(plan[b].to, fresh.used) => run.consent)'
          BY DEF LookIsGood
        <5>1. InHand(b)
          BY <4>1 DEF InHand
        <5>2. b = a
          BY <3>1, <5>1, OneInHand
        <5> QED BY <3>1, <4>1, <4>3, <4>4, <4>5, <5>2
      <4>7. TodoIsTrusted' /\ PlanIsTrusted' /\ ConsentIsGiven'
        BY <1>0, <3>1, <4>1 DEF Control, TodoIsTrusted, PlanIsTrusted, ConsentIsGiven, Trusted,
                                Applying
      <4>8. TodoIsUnwritten'
        BY <1>0, <3>1, <4>1 DEF Control, TodoIsUnwritten, Applying
      <4> QED BY <4>6, <4>7, <4>8 DEF Control
    <3> QED BY <2>4, <3>2, <3>3, <3>4, <3>5, <3>6 DEF Recheck
  <2>5. CASE WriteLands(a)
    <3>1. /\ pc = "write" /\ pc' = "record" /\ InHand(a)
          /\ landed' = landed \cup {a} /\ UNCHANGED <<run, plan, row, todo>>
      BY <2>5 DEF WriteLands, Write
    <3>2. TodoIsUnwritten'
      BY <1>0, <3>1 DEF Control, TodoIsUnwritten, Applying, InHand
    <3> QED
      BY <1>0, <3>1, <3>2 DEF Control, ConsentIsGiven, PlanIsTrusted, TodoIsTrusted, Trusted,
                              LookIsGood, Applying
  <2>6. CASE WriteAnswerLost(a)
    BY <2>1, <2>6 DEF WriteAnswerLost, Write, Fail, Applying
  <2>7. CASE WriteFails(a)
    BY <2>1, <2>7 DEF WriteFails, Fail, Applying
  <2>8. CASE WriteThrottled(a)
    BY <2>1, <2>8 DEF WriteThrottled, HoldBack, Applying
  <2>9. CASE RecordApplied(a)
    BY <1>0, <2>9 DEF RecordApplied, Control, ConsentIsGiven, PlanIsTrusted, TodoIsTrusted,
                      TodoIsUnwritten, LookIsGood, Trusted, InHand, Applying
  <2>10. ASSUME NEW noQuota, NEW noUsed, RefreshRow(a, noQuota, noUsed) PROVE Control'
    BY <1>0, <2>1, <2>10 DEF RefreshRow, Applying, TypeOK
  <2>11. CASE RefreshFails(a)
    BY <1>0, <2>1, <2>11 DEF RefreshFails, Applying, TypeOK
  <2>12. CASE RowNotStored(a)
    BY <2>1, <2>12 DEF RowNotStored, Applying
  <2> QED
    BY <1>7, <2>2, <2>3, <2>4, <2>5, <2>6, <2>7, <2>8, <2>9, <2>10, <2>11, <2>12 DEF Handle
<1>8. CASE UNCHANGED vars
  BY <1>0, <1>8, ControlFrame DEF vars
<1> QED
  BY <1>1, <1>2, <1>3, <1>4, <1>5, <1>6, <1>7, <1>8 DEF Next, Engine
(***************************************************************************)
(* The theorems.                                                           *)
(***************************************************************************)
LEMMA InductiveInit == Init => Inductive
BY TypeInit DEF Inductive, Init, ConsentIsGiven, PlanIsTrusted, TodoIsTrusted, TodoIsUnwritten,
                LookIsGood, Applying, NoRun

\* Together they make the inductive step.
LEMMA InductiveNext == Inductive /\ [Next]_vars => Inductive'
BY TypeNext, ControlNext DEF Inductive, Control

\* The invariant the other theorems rest on holds in every reachable state:
\* nothing reaches the list of changes to write that was planned from state
\* nobody read, or that needs a consent nobody gave.
THEOREM InductiveHolds == Spec => []Inductive
BY InductiveInit, InductiveNext, PTL DEF Spec

\* Every variable of the engine keeps its type: no account is ever left with
\* an unknown quota, whatever a run did to it.
THEOREM TypeCorrect == Spec => []TypeOK
<1>1. Inductive => TypeOK
  BY DEF Inductive
<1> QED BY <1>1, InductiveHolds, PTL

\* A step that adds to what this run wrote is a SetQuota that landed.
LEMMA OnlyWriteWrites ==
  ASSUME Inductive, [Next]_vars, NEW a \in Pairs, NunoWrites(a)
  PROVE  Write(a) /\ UNCHANGED <<row, run, plan>>
<1> USE DEF provider, admin, engine, history, NunoWrites
<1>1. landed' # landed /\ ~(landed' \subseteq landed)
  OBVIOUS
<1>2. ~Environment /\ ~Trigger /\ ~Interrupt /\ ~UNCHANGED vars
  BY <1>1 DEF Environment, UseStorage, OthersSetQuota, ChangeStatus, EditPolicy, Unlink, LinkByHand,
              Trigger, BeginScheduled, BeginRefresh, BeginByOperator, Begin, Interrupt, vars
<1>3. ~(\/ Observing \/ LinkAccounts \/ MakePlan \/ RefuseExpired \/ StartApply
        \/ Finish \/ FinishUnrecorded)
  BY <1>1 DEF Observing, ObserveProvider, ObserveFails, LinkAccounts, MakePlan, RefuseExpired,
              StartApply, Finish, FinishUnrecorded
<1>4. PICK b \in Pairs : Handle(b)
  BY <1>2, <1>3 DEF Next, Engine
<1>5. WriteLands(b) \/ WriteAnswerLost(b)
  BY <1>1, <1>4 DEF Handle, SkipChange, RecheckFails, Recheck, WriteFails, WriteThrottled,
                    RecordApplied, RefreshRow, RefreshFails, RowNotStored
<1>6. Write(b) /\ UNCHANGED <<row, run, plan>>
  BY <1>5 DEF WriteLands, WriteAnswerLost
<1>7. landed' = landed \cup {b}
  BY <1>6 DEF Write
<1> QED BY <1>6, <1>7

\* Unknown state is never written: the row a change was planned from and the
\* re-read it was licensed by both had a known quota and a known usage.
THEOREM NeverWritesBlind == Spec => NeverBlind
<1> DEFINE Seen == \A a \in Pairs : NunoWrites(a) =>
                     /\ row[a].observeOK /\ IsKnown(row[a].quota) /\ IsKnown(row[a].used)
                     /\ IsKnown(fresh.quota) /\ IsKnown(fresh.used)
<1>1. Inductive /\ [Next]_vars => Seen
  <2> SUFFICES ASSUME Inductive, [Next]_vars, NEW a \in Pairs, NunoWrites(a)
               PROVE  /\ row[a].observeOK /\ IsKnown(row[a].quota) /\ IsKnown(row[a].used)
                      /\ IsKnown(fresh.quota) /\ IsKnown(fresh.used)
    OBVIOUS
  <2>1. pc = "write" /\ Applying /\ InHand(a) /\ a \in todo
    BY OnlyWriteWrites DEF Write, Applying, InHand
  <2> QED BY <2>1 DEF Inductive, TodoIsTrusted, Trusted, LookIsGood
<1> QED BY <1>1, InductiveHolds, PTL DEF Spec, NeverBlind

\* For any number of people and providers, a quota is brought to or below what
\* its owner stored when she was last looked at only in a run an operator
\* consented to.
THEOREM ShrinksOnlyWithConsent == Spec => ShrinkNeedsConsent
<1> DEFINE Agreed == \A a \in Pairs :
                       /\ NunoWrites(a)
                       /\ IsBytes(account'[a].quota) /\ account'[a].quota.bytes <= account[a].used
                       /\ fresh.used = BytesQuota(account[a].used)
                       => run.consent /\ run.actor = "operator"
<1>1. Inductive /\ [Next]_vars => Agreed
  <2> SUFFICES ASSUME Inductive, [Next]_vars, NEW a \in Pairs, NunoWrites(a),
                      IsBytes(account'[a].quota), account'[a].quota.bytes <= account[a].used,
                      fresh.used = BytesQuota(account[a].used)
               PROVE  run.consent /\ run.actor = "operator"
    OBVIOUS
  <2>1. Write(a) /\ pc = "write" /\ InHand(a)
    BY OnlyWriteWrites DEF Write
  <2>2. account'[a].quota = plan[a].to
    BY <2>1, WrittenValue DEF Write, Inductive, TypeOK, Accounts
  <2>3. IsBytes(fresh.used) /\ fresh.used.bytes = account[a].used
    BY QuotaTypes DEF Inductive, TypeOK, Accounts, IsBytes
  <2>4. AtOrBelow(plan[a].to, fresh.used)
    BY <2>2, <2>3 DEF AtOrBelow
  <2> QED BY <2>1, <2>4 DEF Inductive, LookIsGood, ConsentIsGiven
<1> QED BY <1>1, InductiveHolds, PTL DEF Spec, ShrinkNeedsConsent
-----------------------------------------------------------------------------
(***************************************************************************)
(* Reconcile implements GuardedWrites.                                     *)
(***************************************************************************)

Quotas == [a \in Pairs |-> account[a].quota]
Uses   == [a \in Pairs |-> account[a].used]

\* The promise speaks of the same quotas as the engine.
LEMMA SameQuotas ==
  /\ Promise!Ceilings = Ceilings
  /\ \A q : Promise!IsBytes(q) <=> IsBytes(q)
<1>1. \A n : Promise!BytesQuota(n) = BytesQuota(n)
  BY DEF Promise!BytesQuota, BytesQuota, Promise!Unknown, Unknown
<1> QED
  BY <1>1
  DEF Promise!Ceilings, Promise!CeilingsOver, Promise!Unlimited, Promise!IsBytes,
      Ceilings, CeilingsOver, Unlimited, IsBytes

\* Outside a write in progress nothing is being looked at.
LEMMA NoLookOutsideWrite == pc # "write" => LookedAt = Promise!NoLook
BY DEF LookedAt, Promise!NoLook, Promise!Nothing

\* A look stands as long as the program counter, the change in hand and what
\* was read of it.
LEMMA LookFrame ==
  ASSUME UNCHANGED <<pc, fresh, todo>>
  PROVE  LookedAt' = LookedAt
BY DEF LookedAt, InHand

\* While a write is in progress there is one look, at the change in hand.
LEMMA OneLook ==
  ASSUME pc = "write", NEW a \in Pairs, InHand(a)
  PROVE  LookedAt = [Promise!NoLook EXCEPT ![a] = fresh.used.bytes]
<1>1. \A b \in Pairs : InHand(b) <=> b = a
  BY OneInHand
<1> QED BY <1>1 DEF LookedAt, Promise!NoLook, Promise!Nothing

\* A step of the engine that neither writes nor looks is at most a decision
\* about consent.
LEMMA QuietStep ==
  ASSUME pc # "write", pc' # "write", TypeOK',
         UNCHANGED <<landed, Quotas, Uses>>
  PROVE  Promise!Decide
<1>1. LookedAt = Promise!NoLook /\ LookedAt' = Promise!NoLook
  BY NoLookOutsideWrite DEF LookedAt, Promise!NoLook, Promise!Nothing
<1>2. run'.consent \in BOOLEAN
  BY DEF TypeOK, Runs
<1> QED BY <1>1, <1>2 DEF Promise!Decide, Quotas, Uses

\* Initial states map to initial states.
LEMMA PromiseInit == Init => Promise!Init
<1> SUFFICES ASSUME Init PROVE Promise!Init
  OBVIOUS
<1>1. TypeOK
  BY TypeInit
<1>2. Quotas \in [Pairs -> Ceilings] /\ Uses \in [Pairs -> Sizes]
  BY <1>1 DEF TypeOK, Accounts, Quotas, Uses
<1>3. LookedAt = Promise!NoLook
  BY NoLookOutsideWrite DEF Init
<1>4. run.consent = FALSE /\ landed = {}
  BY DEF Init, NoRun
<1> QED BY <1>2, <1>3, <1>4, SameQuotas DEF Promise!Init, Quotas, Uses

\* Giving up the change in hand gives up the look at it.
LEMMA ForgetStep ==
  ASSUME pc = "write", NEW a \in Pairs, InHand(a), pc' # "write",
         UNCHANGED <<account, run, landed>>
  PROVE  Promise!Forget(a)
<1>1. LookedAt = [Promise!NoLook EXCEPT ![a] = fresh.used.bytes]
  BY OneLook
<1>2. LookedAt' = Promise!NoLook
  BY DEF LookedAt, Promise!NoLook, Promise!Nothing
<1> QED BY <1>1, <1>2 DEF Promise!Forget, Promise!NoLook

\* The engine's write is a write the promise allows.
LEMMA WriteStep ==
  ASSUME Inductive, NEW a \in Pairs, Write(a), pc' # "write", run' = run
  PROVE  \E q \in Promise!Ceilings : Promise!Write(a, q)
<1>1. pc = "write" /\ InHand(a) /\ a \in todo
  BY DEF Write, InHand
<1>2. LookedAt = [Promise!NoLook EXCEPT ![a] = fresh.used.bytes]
  BY <1>1, OneLook
<1>3. LookedAt' = Promise!NoLook
  BY DEF LookedAt, Promise!NoLook, Promise!Nothing
<1>4. LookedAt[a] = fresh.used.bytes /\ LookedAt' = [LookedAt EXCEPT ![a] = -1]
  BY <1>2, <1>3 DEF Promise!NoLook, Promise!Nothing
<1>5. IsKnown(fresh.used) /\ (AtOrBelow(plan[a].to, fresh.used) => run.consent)
  BY <1>1 DEF Inductive, LookIsGood
<1>6. IsBytes(fresh.used) /\ fresh.used.bytes \in Nat
  <2>1. fresh.used \in UsagesOver(Sizes)
    BY DEF Inductive, TypeOK, Reads
  <2>2. PICK n \in Sizes : fresh.used = BytesQuota(n)
    BY <1>5, <2>1 DEF UsagesOver, IsKnown, Unknown
  <2> QED BY <2>2, QuotaTypes, SizesAssumption DEF SizesAssumption, IsBytes
<1>7. IsBytes(plan[a].to) /\ plan[a].to.bytes <= LookedAt[a] => run.consent
  BY <1>4, <1>5, <1>6 DEF AtOrBelow
<1>8. a \notin landed
  BY <1>1 DEF Inductive, TodoIsUnwritten, Applying
<1>9. NormalizeQuota(a[2], plan[a].to) = plan[a].to /\ plan[a].to \in Promise!Ceilings
  BY WrittenValue, SameQuotas
<1>10. Quotas' = [Quotas EXCEPT ![a] = plan[a].to] /\ Uses' = Uses
  BY <1>9 DEF Write, Quotas, Uses, Inductive, TypeOK, Accounts
<1>11. landed' = landed \cup {a}
  BY DEF Write
<1>12. LookedAt[a] # -1
  BY <1>4, <1>6
<1>13. PICK q \in Promise!Ceilings : q = plan[a].to
  BY <1>9
<1>14. Promise!Write(a, q)
  BY <1>4, <1>7, <1>8, <1>10, <1>11, <1>12, <1>13, SameQuotas
  DEF Promise!Write, Promise!Nothing, Quotas, Uses
<1> QED BY <1>14

\* Every step of the engine and of its environment is a step of the promise or
\* changes nothing of it.
LEMMA PromiseStep ==
  Inductive /\ TypeOK' /\ [Next]_vars => [Promise!Next]_(Promise!gvars)
<1> SUFFICES ASSUME Inductive, TypeOK', [Next]_vars
             PROVE  [Promise!Next]_(Promise!gvars)
  OBVIOUS
<1> USE DEF provider, admin, engine, history
<1>0. TypeOK
  BY DEF Inductive
<1>1. CASE Environment
  <2>1. UNCHANGED <<pc, fresh, todo, run, landed>>
    BY <1>1 DEF Environment, UseStorage, OthersSetQuota, ChangeStatus, EditPolicy, Unlink,
                LinkByHand
  <2>2. LookedAt' = LookedAt
    BY <2>1, LookFrame
  <2>3. ASSUME NEW a \in Pairs, NEW n \in Sizes, UseStorage(a, n) PROVE Promise!Others
    <3>1. Quotas' = Quotas /\ Uses' = [Uses EXCEPT ![a] = n]
      <4>1. /\ DOMAIN account' = Pairs /\ account'[a].used = n
            /\ account'[a].quota = account[a].quota
            /\ \A b \in Pairs \ {a} : account'[b] = account[b]
        BY <1>0, <2>3 DEF UseStorage, TypeOK, Accounts
      <4>2. Quotas' = [b \in Pairs |-> account'[b].quota] /\ Uses' = [b \in Pairs |-> account'[b].used]
        BY DEF Quotas, Uses
      <4> QED BY <4>1, <4>2 DEF Quotas, Uses
    <3> QED BY <2>1, <2>2, <3>1 DEF Promise!Others, Quotas, Uses
  <2>4. ASSUME NEW a \in Pairs, NEW q \in Ceilings, OthersSetQuota(a, q) PROVE Promise!Others
    <3>1. Quotas' = [Quotas EXCEPT ![a] = q] /\ Uses' = Uses
      <4>1. /\ DOMAIN account' = Pairs /\ account'[a].quota = q
            /\ account'[a].used = account[a].used
            /\ \A b \in Pairs \ {a} : account'[b] = account[b]
        BY <1>0, <2>4 DEF OthersSetQuota, TypeOK, Accounts
      <4>2. Quotas' = [b \in Pairs |-> account'[b].quota] /\ Uses' = [b \in Pairs |-> account'[b].used]
        BY DEF Quotas, Uses
      <4> QED BY <4>1, <4>2 DEF Quotas, Uses
    <3> QED BY <2>1, <2>2, <3>1, SameQuotas DEF Promise!Others, Quotas, Uses
  <2>5. ASSUME NEW a \in Pairs, NEW s \in Statuses, ChangeStatus(a, s)
        PROVE  UNCHANGED Promise!gvars
    <3>1. UNCHANGED <<Quotas, Uses>>
      BY <1>0, <2>5 DEF ChangeStatus, Quotas, Uses, TypeOK, Accounts
    <3> QED BY <2>1, <2>2, <3>1 DEF Promise!gvars, Quotas, Uses
  <2>6. ASSUME NEW a \in Pairs,
               (\E d \in Decisions : EditPolicy(a, d)) \/ Unlink(a) \/ LinkByHand(a)
        PROVE  UNCHANGED Promise!gvars
    BY <2>1, <2>2, <2>6 DEF EditPolicy, Unlink, LinkByHand, Promise!gvars
  <2> QED BY <1>1, <2>3, <2>4, <2>5, <2>6 DEF Environment, Promise!Next
<1>2. CASE \/ Trigger \/ Observing \/ LinkAccounts \/ MakePlan \/ RefuseExpired
           \/ Finish \/ FinishUnrecorded
  <2>1. pc # "write" /\ pc' # "write" /\ UNCHANGED <<account, landed>>
    BY <1>2 DEF Trigger, BeginScheduled, BeginRefresh, BeginByOperator, Begin, Observing,
                ObserveProvider, ObserveFails, NextPhase, LinkAccounts, MakePlan, RefuseExpired,
                Finish, FinishUnrecorded
  <2> QED BY <2>1, QuietStep DEF Quotas, Uses, Promise!Next
<1>3. CASE StartApply
  <2>1. /\ pc # "write" /\ pc' # "write" /\ landed' = {}
        /\ UNCHANGED <<account, run>>
    BY <1>3 DEF StartApply
  <2>2. LookedAt = Promise!NoLook /\ LookedAt' = Promise!NoLook
    BY <2>1, NoLookOutsideWrite DEF LookedAt, Promise!NoLook, Promise!Nothing
  <2> QED BY <2>1, <2>2 DEF Promise!StartOver, Promise!Next
<1>4. ASSUME NEW a \in Pairs, Handle(a) PROVE [Promise!Next]_(Promise!gvars)
  <2>1. CASE /\ pc # "write" /\ pc' # "write"
             /\ UNCHANGED <<account, landed>>
    BY <2>1, QuietStep DEF Quotas, Uses, Promise!Next
  <2>2. ASSUME NEW quotaKnown \in BOOLEAN, NEW usedKnown \in BOOLEAN,
               Recheck(a, quotaKnown, usedKnown), pc' = "write"
        PROVE  Promise!Look(a)
    <3>1. /\ pc = "apply" /\ InHand(a) /\ todo' = todo
          /\ fresh' = Read(a, quotaKnown, usedKnown)
          /\ UNCHANGED <<account, run, landed>>
      BY <2>2 DEF Recheck, Attempted, Refuse, LeaveAlone, Announce, HoldBack, Proceed, Settle
    <3>2. fresh'.used = BytesQuota(account[a].used)
      <4>1. plan[a].class \in {Safe, Shrink}
        BY <1>0, <3>1 DEF Inductive, TodoIsTrusted, Applying, InHand
      <4>2. /\ RecheckClass(a, Read(a, quotaKnown, usedKnown)) = plan[a].class
            /\ ~Equal(Read(a, quotaKnown, usedKnown).quota, plan[a].to)
        BY <2>2 DEF Recheck, Refuse, LeaveAlone, Announce, HoldBack, Settle
      <4> QED BY <1>0, <3>1, <4>1, <4>2, RecheckLicenses
    <3>3. fresh'.used.bytes = account[a].used
      <4>1. account[a].used \in Sizes
        BY <1>0 DEF TypeOK, Accounts
      <4> QED BY <3>2, <4>1, QuotaTypes
    <3>4. \A b \in Pairs : InHand(b)' <=> b = a
      BY <3>1, OneInHand DEF InHand
    <3>5. LookedAt' = [Promise!NoLook EXCEPT ![a] = fresh'.used.bytes]
      BY <2>2, <3>4 DEF LookedAt, Promise!NoLook, Promise!Nothing
    <3> QED BY <3>1, <3>3, <3>5, NoLookOutsideWrite DEF Promise!Look
  <2>3. CASE Write(a) /\ pc' # "write" /\ run' = run
    <3>1. \E q \in Promise!Ceilings : Promise!Write(a, q)
      BY <2>3, WriteStep
    <3> QED BY <3>1 DEF Promise!Next
  <2>4. CASE WriteFails(a) \/ WriteThrottled(a)
    <3>1. /\ pc = "write" /\ InHand(a) /\ pc' # "write"
          /\ UNCHANGED <<account, run, landed>>
      BY <2>4 DEF WriteFails, WriteThrottled, Fail, HoldBack, Settle
    <3> QED BY <3>1, ForgetStep DEF Promise!Next
  <2>5. CASE WriteLands(a) \/ WriteAnswerLost(a)
    BY <2>3, <2>5 DEF WriteLands, WriteAnswerLost, Fail, Settle
  <2>6. CASE \/ SkipChange(a) \/ RecheckFails(a) \/ RecordApplied(a)
             \/ \E noQuota, noUsed \in SUBSET {a} : RefreshRow(a, noQuota, noUsed)
             \/ RefreshFails(a) \/ RowNotStored(a)
    BY <2>1, <2>6 DEF SkipChange, RecheckFails, Attempted, Fail, RecordApplied, RefreshRow,
                      RefreshFails, RowNotStored, Settle
  <2>7. ASSUME NEW quotaKnown \in BOOLEAN, NEW usedKnown \in BOOLEAN,
               Recheck(a, quotaKnown, usedKnown)
        PROVE  pc # "write" /\ UNCHANGED <<account, landed>>
    BY <2>7 DEF Recheck, Attempted
  <2> QED BY <1>4, <2>1, <2>2, <2>4, <2>5, <2>6, <2>7 DEF Handle, Promise!Next
<1>5. CASE Interrupt
  <2>1. pc' # "write" /\ UNCHANGED <<account, run, landed>>
    BY <1>5 DEF Interrupt
  <2>2. CASE pc # "write"
    BY <2>1, <2>2, QuietStep DEF Quotas, Uses, Promise!Next
  <2>3. ASSUME pc = "write", NEW a \in Pairs, InHand(a) PROVE Promise!Next
    BY <2>1, <2>3, ForgetStep DEF Promise!Next
  <2>4. CASE pc = "write" /\ \A a \in Pairs : ~InHand(a)
    <3>1. LookedAt = Promise!NoLook /\ LookedAt' = Promise!NoLook
      BY <2>1, <2>4 DEF LookedAt, Promise!NoLook, Promise!Nothing
    <3> QED BY <2>1, <3>1 DEF Promise!gvars
  <2> QED BY <2>2, <2>3, <2>4
<1>6. CASE UNCHANGED vars
  <2>1. LookedAt' = LookedAt
    BY <1>6, LookFrame DEF vars
  <2> QED BY <1>6, <2>1 DEF vars, Promise!gvars
<1> QED BY <1>1, <1>2, <1>3, <1>4, <1>5, <1>6 DEF Next, Engine

\* The engine implements the abstract specification, for any people, providers
\* and sizes, whatever interrupts it.
THEOREM KeepsThePromise == Spec => KeepsPromise
<1>1. Spec => []Inductive
  BY InductiveHolds
<1>2. Inductive => TypeOK
  BY DEF Inductive
<1> QED
  BY <1>1, <1>2, PromiseInit, PromiseStep, PTL DEF Spec, KeepsPromise, Promise!Spec
=============================================================================

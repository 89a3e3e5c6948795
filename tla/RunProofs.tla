----------------------------- MODULE RunProofs -----------------------------
(***************************************************************************)
(* What a run owes its audit log and its providers: the entry of every     *)
(* write, no write after an error or beyond a limit, and an honest report. *)
(* What it owes the run after it, when nothing is disturbed in between:    *)
(* nothing left to apply, or exactly what it announced.  And that it ends: *)
(* the steps it has left grow fewer, and there is always one to take.      *)
(***************************************************************************)
EXTENDS ReconcileProofs, WellFoundedInduction

(***************************************************************************)
(* The audit log.  While a write is being recorded it is the one that was  *)
(* not handed to the log yet; a killed run may lack that one for good.     *)
(* What the log was handed and could not store is another matter: those    *)
(* entries are lost without the run noticing, and only those.              *)
(***************************************************************************)
Unrecorded == {a \in landed : outcome[a] \notin {"applied", "failed"}}

AuditInv ==
  /\ pc # "record" /\ ~Unclosed => Unrecorded = {}
  /\ pc = "record" => \A a \in Unrecorded : InHand(a)
  /\ \A a, b \in Unrecorded : a = b
  /\ pc \in {"apply", "write", "record", "refresh"} => status = "running"
  /\ WithResult("applied") \subseteq landed
  /\ pc = "record" => \A a \in Pairs : InHand(a) => a \in landed

\* A step that leaves the log, the writes and the status alone, and does not
\* enter or leave the loop, or leaves it only by being killed.
LEMMA AuditFrame ==
  ASSUME AuditInv, UNCHANGED <<outcome, landed, status>>,
         \/ pc \in {"idle", "observe", "link", "plan", "start"} /\ pc' \in {"idle", "observe", "link", "plan", "start"}
         \/ pc # "idle" /\ pc' = "idle"
         \/ pc \in {"apply", "write", "refresh"} /\ pc' \in {"apply", "write", "refresh"}
         \/ UNCHANGED <<pc, todo>>
  PROVE  AuditInv'
<1>1. Unrecorded' = Unrecorded /\ WithResult("applied")' = WithResult("applied")
  BY DEF Unrecorded, WithResult
<1>2. CASE UNCHANGED <<pc, todo>>
  BY <1>1, <1>2 DEF AuditInv, Unclosed, InHand
<1>3. CASE pc' = "idle" /\ pc # "idle"
  <2>1. CASE pc \in {"apply", "write", "record", "refresh"}
    BY <1>1, <1>3, <2>1 DEF AuditInv, Unclosed
  <2>2. CASE pc \notin {"apply", "write", "record", "refresh"}
    BY <1>1, <1>3, <2>2 DEF AuditInv, Unclosed
  <2>. QED
    BY <2>1, <2>2
<1>4. CASE pc \in {"idle", "observe", "link", "plan", "start"} /\ pc' \in {"idle", "observe", "link", "plan", "start"}
  BY <1>1, <1>4 DEF AuditInv, Unclosed
<1>5. CASE pc \in {"apply", "write", "refresh"} /\ pc' \in {"apply", "write", "refresh"}
  BY <1>1, <1>5 DEF AuditInv, Unclosed
<1>. QED
  BY <1>2, <1>3, <1>4, <1>5

\* Settling a change that was not written, or whose write is recorded.
LEMMA AuditSettle ==
  ASSUME TypeOK, AuditInv, Applying, pc # "record", NEW a \in Pairs,
         NEW result \in Results, Settle(a, result),
         UNCHANGED status, landed' = landed \/ (landed' = landed \cup {a} /\ result = "failed"),
         a \notin landed \/ result \in {"none", "failed"}, result # "applied"
  PROVE  AuditInv'
<1>1. Unrecorded = {} /\ status = "running"
  BY DEF AuditInv, Unclosed, Applying
<1>2. \A b \in landed' : outcome'[b] \in {"applied", "failed"}
  <2>. SUFFICES ASSUME NEW b \in landed' PROVE outcome'[b] \in {"applied", "failed"}
    OBVIOUS
  <2>1. b \in Pairs /\ (b = a \/ b \in landed)
    BY DEF TypeOK
  <2>2. b \in landed => outcome[b] \in {"applied", "failed"}
    BY <1>1 DEF Unrecorded
  <2>3. outcome' = IF result = "none" THEN outcome ELSE [outcome EXCEPT ![a] = result]
    BY DEF Settle
  <2>4. CASE b = a /\ b \notin landed
    BY <2>1, <2>3, <2>4 DEF TypeOK
  <2>5. CASE b = a /\ b \in landed
    BY <2>1, <2>2, <2>3, <2>5 DEF TypeOK
  <2>6. CASE b # a
    BY <2>1, <2>2, <2>3, <2>6 DEF TypeOK
  <2>. QED
    BY <2>4, <2>5, <2>6
<1>3. Unrecorded' = {}
  BY <1>2 DEF Unrecorded
<1>4. (WithResult("applied") \subseteq landed)'
  BY DEF AuditInv, Settle, WithResult, TypeOK
<1>. QED
  BY <1>1, <1>3, <1>4 DEF AuditInv, Settle

\* Every step keeps the log in that shape.
LEMMA AuditNext == Inductive /\ AuditInv /\ [Next]_vars => AuditInv'
<1>. SUFFICES ASSUME Inductive, TypeOK, AuditInv, [Next]_vars PROVE AuditInv'
  BY DEF Inductive
<1>. USE DEF provider, admin, engine, history
<1>1. ASSUME NEW a \in Pairs,
             \/ \E n \in Sizes : UseStorage(a, n)
             \/ \E q \in Ceilings : OthersSetQuota(a, q)
             \/ \E s \in Statuses : ChangeStatus(a, s)
             \/ \E d \in Decisions : EditPolicy(a, d)
             \/ Unlink(a)
             \/ LinkByHand(a)
      PROVE  AuditInv'
  <2>1. UNCHANGED <<outcome, landed, status, pc, todo>>
    BY <1>1 DEF UseStorage, OthersSetQuota, ChangeStatus, EditPolicy, Unlink, LinkByHand
  <2>. QED
    BY <2>1, AuditFrame
<1>2. ASSUME Trigger PROVE AuditInv'
  <2>1. UNCHANGED <<outcome, landed, status>> /\ pc = "idle" /\ pc' = "observe"
    BY <1>2 DEF Trigger, BeginScheduled, BeginRefresh, BeginByOperator, Begin
  <2>. QED
    BY <2>1, AuditFrame
<1>3. ASSUME Observing \/ LinkAccounts \/ MakePlan \/ RefuseExpired PROVE AuditInv'
  <2>1. UNCHANGED <<outcome, landed, status>>
    BY <1>3 DEF Observing, ObserveProvider, ObserveFails, LinkAccounts, MakePlan, RefuseExpired
  <2>2. /\ pc \in {"observe", "link", "plan", "start"}
        /\ pc' \in {"idle", "observe", "link", "plan", "start"}
    BY <1>3 DEF Observing, ObserveProvider, ObserveFails, NextPhase, LinkAccounts, MakePlan, RefuseExpired
  <2>. QED
    BY <2>1, <2>2, AuditFrame
<1>4. ASSUME StartApply PROVE AuditInv'
  BY <1>4 DEF StartApply, AuditInv, Unrecorded, WithResult
<1>5. ASSUME NEW a \in Pairs, Handle(a) PROVE AuditInv'
  <2>1. Applying /\ InHand(a) /\ a \in todo
    BY <1>5 DEF Handle, SkipChange, RecheckFails, Recheck, Attempted, WriteLands, WriteAnswerLost,
                Write, WriteFails, WriteThrottled, RecordApplied, RefreshRow, RefreshFails,
                RowNotStored, Applying, InHand
  <2>2. pc \in {"apply", "write"} => a \notin landed
    BY <2>1 DEF Inductive, TodoIsUnwritten, InHand
  <2>3. ASSUME SkipChange(a) PROVE AuditInv'
    BY <2>1, <2>2, <2>3, AuditSettle DEF SkipChange, Results
  <2>4. ASSUME RecheckFails(a) PROVE AuditInv'
    BY <2>1, <2>2, <2>4, AuditSettle DEF RecheckFails, Attempted, Fail, Results
  <2>5. ASSUME NEW quotaKnown \in BOOLEAN, NEW usedKnown \in BOOLEAN,
               Recheck(a, quotaKnown, usedKnown)
        PROVE  AuditInv'
    <3>1. pc = "apply" /\ UNCHANGED <<landed, status>>
      BY <2>5 DEF Recheck, Attempted
    <3>2. \/ Refuse(a) \/ LeaveAlone(a) \/ Announce(a) \/ HoldBack(a)
          \/ Proceed(a, Read(a, quotaKnown, usedKnown))
      BY <2>5 DEF Recheck
    <3>3. \/ \E result \in {"none", "refused", "skipped"} : Settle(a, result)
          \/ pc' = "write" /\ UNCHANGED outcome
      BY <3>2 DEF Refuse, LeaveAlone, Announce, HoldBack, Proceed
    <3>4. CASE pc' = "write" /\ UNCHANGED outcome
      BY <3>1, <3>4, AuditFrame
    <3>5. ASSUME NEW result \in {"none", "refused", "skipped"}, Settle(a, result) PROVE AuditInv'
      BY <2>1, <2>2, <3>1, <3>5, AuditSettle DEF Results
    <3>. QED
      BY <3>3, <3>4, <3>5
  <2>6. ASSUME WriteLands(a) PROVE AuditInv'
    <3>1. /\ pc = "write" /\ pc' = "record" /\ landed' = landed \cup {a}
          /\ UNCHANGED <<outcome, todo, status>>
      BY <2>6 DEF WriteLands, Write
    <3>2. Unrecorded = {} /\ status = "running"
      BY <3>1 DEF AuditInv, Unclosed
    <3>3. Unrecorded' \subseteq {a}
      BY <3>1, <3>2 DEF Unrecorded
    <3>4. (WithResult("applied") \subseteq landed)'
      BY <3>1 DEF AuditInv, WithResult
    <3>5. \A b \in Pairs : InHand(b)' => b \in landed'
      BY <2>1, <3>1, OneInHand DEF InHand
    <3>. QED
      BY <2>1, <3>1, <3>2, <3>3, <3>4, <3>5 DEF AuditInv, InHand
  <2>7. ASSUME WriteAnswerLost(a) PROVE AuditInv'
    BY <2>1, <2>2, <2>7, AuditSettle DEF WriteAnswerLost, Write, Fail, Results
  <2>8. ASSUME WriteFails(a) PROVE AuditInv'
    BY <2>1, <2>2, <2>8, AuditSettle DEF WriteFails, Fail, Results
  <2>9. ASSUME WriteThrottled(a) PROVE AuditInv'
    BY <2>1, <2>2, <2>9, AuditSettle DEF WriteThrottled, HoldBack, Results
  <2>10. ASSUME RecordApplied(a) PROVE AuditInv'
    <3>1. /\ pc = "record" /\ pc' = "refresh" /\ outcome' = [outcome EXCEPT ![a] = "applied"]
          /\ UNCHANGED <<landed, status>>
      BY <2>10 DEF RecordApplied
    <3>2. \A b \in Unrecorded : b = a
      BY <2>1, <3>1, OneInHand DEF AuditInv, Unrecorded, TypeOK
    <3>3. Unrecorded' = {}
      BY <3>1, <3>2 DEF Unrecorded, TypeOK
    <3>4. (WithResult("applied") \subseteq landed)'
      BY <2>1, <3>1 DEF AuditInv, WithResult, TypeOK
    <3>. QED
      BY <3>1, <3>3, <3>4 DEF AuditInv
  <2>11. ASSUME \/ \E noQuota, noUsed \in SUBSET {a} : RefreshRow(a, noQuota, noUsed)
                \/ RefreshFails(a) \/ RowNotStored(a)
         PROVE  AuditInv'
    <3>1. pc = "refresh" /\ pc' = "apply" /\ UNCHANGED <<outcome, landed, status>>
      BY <2>11 DEF RefreshRow, RefreshFails, RowNotStored, Settle
    <3>. QED
      BY <3>1, AuditFrame
  <2>. QED
    BY <1>5, <2>3, <2>4, <2>5, <2>6, <2>7, <2>8, <2>9, <2>10, <2>11 DEF Handle
<1>6. ASSUME Finish PROVE AuditInv'
  <2>1. pc = "apply" /\ pc' = "idle" /\ status' # "running" /\ UNCHANGED <<outcome, landed>>
    BY <1>6 DEF Finish
  <2>2. Unrecorded = {} /\ Unrecorded' = {}
    BY <2>1 DEF AuditInv, Unclosed, Unrecorded
  <2>3. (WithResult("applied") \subseteq landed)'
    BY <2>1 DEF AuditInv, WithResult
  <2>. QED
    BY <2>1, <2>2, <2>3 DEF AuditInv
<1>7. ASSUME FinishUnrecorded \/ Interrupt PROVE AuditInv'
  BY <1>7, AuditFrame DEF FinishUnrecorded, Interrupt
<1>8. CASE UNCHANGED vars
  BY <1>8, AuditFrame DEF vars
<1>. QED
  BY <1>1, <1>2, <1>3, <1>4, <1>5, <1>6, <1>7, <1>8 DEF Next, Environment, Engine

\* So it is in every reachable state.
LEMMA AuditHolds == Spec => []AuditInv
<1>1. Init => AuditInv
  BY DEF Init, AuditInv, Unrecorded, WithResult
<1> QED BY <1>1, AuditNext, InductiveHolds, PTL DEF Spec

\* Whatever else goes wrong, a write lacks its entry because the log could not
\* store it, or because the run was killed right after it, which spares all
\* writes but the last.  A run that was not killed hands over every one
\* (record, internal/reconcile/apply.go, whose error path loses the entry and
\* nothing else).
THEOREM WritesAreAudited == Spec => []EveryWriteAudited
<1>1. Inductive /\ AuditInv => EveryWriteAudited
  <2>1. ASSUME TypeOK PROVE Unaudited \ lost \subseteq Unrecorded
    BY <2>1 DEF Unaudited, Unrecorded, Entries, WithResult, TypeOK
  <2> QED BY <2>1 DEF Inductive, AuditInv, EveryWriteAudited
<1> QED BY <1>1, AuditHolds, InductiveHolds, PTL

(***************************************************************************)
(* The error rule and the write limit.  What the audit log says failed or  *)
(* was held back stopped its provider, and what a run may still write to a *)
(* provider, the write in hand included, fits in the limit with what it    *)
(* already wrote.                                                          *)
(***************************************************************************)
Written(p) == Cardinality(landed \cap Of(p))

FailuresStop ==
  Applying => \A b \in Pairs : outcome[b] \in {"failed", "skipped"} => b[2] \in stopped \cup Degraded

WithinLimit ==
  Applying => \A p \in Providers : Written(p) + budget[p] <= WriteBudget[p]

\* The write in hand is on a provider still served, and its place in the limit
\* was taken when it was let through.
WriteIsReserved ==
  pc = "write" => \A a \in Pairs : InHand(a) =>
    /\ a[2] \notin stopped \cup Degraded
    /\ Written(a[2]) + budget[a[2]] + 1 <= WriteBudget[a[2]]

LimitInv == FailuresStop /\ WithinLimit /\ WriteIsReserved

\* One more write is at most one more account written.
LEMMA WrittenCount ==
  ASSUME TypeOK, NEW a \in Pairs, NEW p \in Providers
  PROVE  /\ Written(p) \in Nat
         /\ landed' = landed => Written(p)' = Written(p)
         /\ landed' = landed \cup {a} =>
              /\ a[2] # p => Written(p)' = Written(p)
              /\ Written(p)' <= Written(p) + 1
<1>1. IsFiniteSet(Pairs)
  BY OrderAssumption, FS_Product DEF OrderAssumption, Pairs
<1>2. landed \cap Of(p) \in SUBSET Pairs
  BY DEF Of
<1>3. IsFiniteSet(landed \cap Of(p))
  BY <1>1, <1>2, FS_Subset
<1>4. Cardinality(landed \cap Of(p)) \in Nat
  BY <1>3, FS_CardinalityType
<1>5. Written(p)' = Cardinality(landed' \cap Of(p))
  BY DEF Written, Of, Pairs
<1>6. Written(p) = Cardinality(landed \cap Of(p))
  BY DEF Written
<1>7. ASSUME landed' = landed \cup {a}
      PROVE  (a[2] # p => Written(p)' = Written(p)) /\ Written(p)' <= Written(p) + 1
  <2>1. CASE a[2] # p
    <3>1. landed' \cap Of(p) = landed \cap Of(p)
      BY <1>7, <2>1 DEF Of
    <3>2. Written(p)' = Written(p)
      BY <1>5, <1>6, <3>1
    <3>3. Written(p) \in Nat
      BY <1>4, <1>6
    <3>. QED
      BY <3>2, <3>3
  <2>2. CASE a[2] = p
    <3>1. landed' \cap Of(p) = (landed \cap Of(p)) \cup {a}
      BY <1>7, <2>2 DEF Of
    <3>2. Cardinality((landed \cap Of(p)) \cup {a}) <= Cardinality(landed \cap Of(p)) + 1
      BY <1>3, <1>4, FS_AddElement
    <3>. QED
      BY <1>4, <1>5, <1>6, <3>1, <3>2, <2>2
  <2>. QED
    BY <2>1, <2>2
<1>. QED
  BY <1>4, <1>5, <1>7 DEF Written

\* A write takes the place that was reserved for it.
LEMMA WriteFits ==
  ASSUME TypeOK, LimitInv, NEW a \in Pairs, Write(a), NEW p \in Providers
  PROVE  Written(p)' \in Nat /\ Written(p)' + budget[p] <= WriteBudget[p]
<1>1. Applying /\ InHand(a) /\ pc = "write" /\ landed' = landed \cup {a}
  BY DEF Write, Applying
<1>2. a[2] \in Providers
  BY DEF Pairs
<1>3. Written(a[2]) + budget[a[2]] + 1 <= WriteBudget[a[2]]
  BY <1>1 DEF LimitInv, WriteIsReserved
<1>4. Written(p) + budget[p] <= WriteBudget[p] /\ budget[p] \in Nat /\ WriteBudget[p] \in Nat
  BY <1>1, BudgetAssumption DEF LimitInv, WithinLimit, TypeOK, BudgetAssumption
<1>5. Written(p)' \in Nat
  <2>1. IsFiniteSet(Pairs)
    BY OrderAssumption, FS_Product DEF OrderAssumption, Pairs
  <2>2. landed' \cap Of(p) \in SUBSET Pairs
    BY DEF Of
  <2>3. Cardinality(landed' \cap Of(p)) \in Nat
    BY <2>1, <2>2, FS_Subset, FS_CardinalityType
  <2>4. Written(p)' = Cardinality(landed' \cap Of(p))
    BY DEF Written, Of, Pairs
  <2>. QED
    BY <2>3, <2>4
<1>6. /\ Written(p) \in Nat
      /\ a[2] # p => Written(p)' = Written(p)
      /\ Written(p)' <= Written(p) + 1
  BY <1>1, WrittenCount
<1>. QED
  BY <1>3, <1>4, <1>5, <1>6

\* A step that touches none of it, or leaves the loop.
LEMMA LimitFrame ==
  ASSUME LimitInv, UNCHANGED <<outcome, landed, stopped, budget>>,
         \/ ~Applying'
         \/ Applying /\ pc' \in {"apply", "record", "refresh"}
         \/ UNCHANGED <<pc, todo>>
  PROVE  LimitInv'
<1>1. \A p : Written(p)' = Written(p)
  BY DEF Written, Of, Pairs
<1>2. CASE ~Applying'
  BY <1>2 DEF LimitInv, FailuresStop, WithinLimit, WriteIsReserved, Applying
<1>3. CASE Applying /\ pc' \in {"apply", "record", "refresh"}
  BY <1>1, <1>3 DEF LimitInv, FailuresStop, WithinLimit, WriteIsReserved, Applying
<1>4. CASE UNCHANGED <<pc, todo>>
  BY <1>1, <1>4 DEF LimitInv, FailuresStop, WithinLimit, WriteIsReserved, Applying, InHand
<1>. QED
  BY <1>2, <1>3, <1>4

\* A change put aside as failed or skipped stopped its provider.
LEMMA LimitSettle ==
  ASSUME TypeOK, LimitInv, Applying, NEW a \in Pairs, NEW result \in Results, Settle(a, result),
         result \in {"failed", "skipped"} => a[2] \in stopped' \cup Degraded,
         stopped \subseteq stopped', budget' = budget,
         \A p \in Providers : Written(p)' + budget[p] <= WriteBudget[p]
  PROVE  LimitInv'
<1>1. pc' = "apply" /\ outcome' = IF result = "none" THEN outcome ELSE [outcome EXCEPT ![a] = result]
  BY DEF Settle
<1>2. FailuresStop'
  <2>. SUFFICES ASSUME NEW b \in Pairs, outcome'[b] \in {"failed", "skipped"}
               PROVE  b[2] \in stopped' \cup Degraded
    BY DEF FailuresStop
  <2>1. outcome[b] \in {"failed", "skipped"} => b[2] \in stopped \cup Degraded
    BY DEF LimitInv, FailuresStop
  <2>2. CASE result = "none" \/ b # a
    BY <1>1, <2>1, <2>2 DEF TypeOK
  <2>3. CASE result # "none" /\ b = a
    BY <1>1, <2>3 DEF TypeOK
  <2>. QED
    BY <2>2, <2>3
<1>3. WithinLimit'
  BY DEF WithinLimit
<1>. QED
  BY <1>1, <1>2, <1>3 DEF LimitInv, WriteIsReserved

\* Every step keeps what was written within the limit.
LEMMA LimitNext == Inductive /\ LimitInv /\ [Next]_vars => LimitInv'
<1>. SUFFICES ASSUME Inductive, TypeOK, LimitInv, [Next]_vars PROVE LimitInv'
  BY DEF Inductive
<1>. USE DEF provider, admin, engine, history
<1>1. ASSUME NEW a \in Pairs,
             \/ \E n \in Sizes : UseStorage(a, n)
             \/ \E q \in Ceilings : OthersSetQuota(a, q)
             \/ \E s \in Statuses : ChangeStatus(a, s)
             \/ \E d \in Decisions : EditPolicy(a, d)
             \/ Unlink(a)
             \/ LinkByHand(a)
      PROVE  LimitInv'
  <2>1. UNCHANGED <<outcome, landed, stopped, budget, pc, todo>>
    BY <1>1 DEF UseStorage, OthersSetQuota, ChangeStatus, EditPolicy, Unlink, LinkByHand
  <2>. QED
    BY <2>1, LimitFrame
<1>2. ASSUME Trigger PROVE LimitInv'
  <2>1. pc' = "observe"
    BY <1>2 DEF Trigger, BeginScheduled, BeginRefresh, BeginByOperator, Begin
  <2>. QED
    BY <2>1 DEF LimitInv, FailuresStop, WithinLimit, WriteIsReserved, Applying
<1>3. ASSUME \/ Observing \/ LinkAccounts \/ MakePlan \/ RefuseExpired \/ Finish
             \/ FinishUnrecorded \/ Interrupt
      PROVE  LimitInv'
  <2>1. pc' \in {"idle", "observe", "link", "plan", "start"}
    BY <1>3 DEF Observing, ObserveProvider, ObserveFails, NextPhase, LinkAccounts, MakePlan,
                RefuseExpired, Finish, FinishUnrecorded, Interrupt
  <2>. QED
    BY <2>1 DEF LimitInv, FailuresStop, WithinLimit, WriteIsReserved, Applying
<1>4. ASSUME StartApply PROVE LimitInv'
  <2>1. \A p \in Providers : Written(p)' = 0
    BY <1>4, FS_EmptySet DEF StartApply, Written
  <2>2. WithinLimit'
    BY <1>4, <2>1, BudgetAssumption DEF StartApply, WithinLimit, BudgetAssumption
  <2>. QED
    BY <1>4, <2>2 DEF StartApply, LimitInv, FailuresStop, WriteIsReserved
<1>5. ASSUME NEW a \in Pairs, Handle(a) PROVE LimitInv'
  <2>1. Applying /\ InHand(a) /\ a[2] \in Providers
    BY <1>5 DEF Handle, SkipChange, RecheckFails, Recheck, Attempted, WriteLands, WriteAnswerLost,
                Write, WriteFails, WriteThrottled, RecordApplied, RefreshRow, RefreshFails,
                RowNotStored, Applying, Pairs
  <2>2. ASSUME landed' = landed
        PROVE  \A p \in Providers : Written(p)' + budget[p] <= WriteBudget[p]
    BY <2>1, <2>2, WrittenCount DEF LimitInv, WithinLimit
  <2>3. ASSUME Write(a)
        PROVE  \A p \in Providers : Written(p)' + budget[p] <= WriteBudget[p]
    BY <2>3, WriteFits
  <2>4. ASSUME SkipChange(a) PROVE LimitInv'
    BY <2>1, <2>2, <2>4, LimitSettle DEF SkipChange, Results
  <2>5. ASSUME RecheckFails(a) \/ WriteFails(a) PROVE LimitInv'
    BY <2>1, <2>2, <2>5, LimitSettle DEF RecheckFails, WriteFails, Fail, Results
  <2>6. ASSUME WriteThrottled(a) PROVE LimitInv'
    BY <2>1, <2>2, <2>6, LimitSettle DEF WriteThrottled, HoldBack, Results
  <2>7. ASSUME NEW quotaKnown \in BOOLEAN, NEW usedKnown \in BOOLEAN,
               Recheck(a, quotaKnown, usedKnown)
        PROVE  LimitInv'
    <3>1. Attempted(a) /\ UNCHANGED landed
      BY <2>7 DEF Recheck
    <3>2. CASE Refuse(a) \/ LeaveAlone(a) \/ Announce(a)
      BY <2>1, <2>2, <3>1, <3>2, LimitSettle DEF Refuse, LeaveAlone, Announce, Results
    <3>3. CASE HoldBack(a)
      BY <2>1, <2>2, <3>1, <3>3, LimitSettle DEF HoldBack, Results
    <3>4. CASE Allowed(a[2]) /\ Proceed(a, Read(a, quotaKnown, usedKnown))
      <4>1. /\ budget' = [budget EXCEPT ![a[2]] = @ - 1] /\ budget[a[2]] > 0
            /\ UNCHANGED <<outcome, todo, stopped>> /\ pc' = "write"
        BY <3>4 DEF Allowed, Proceed
      <4>2. \A p \in Providers : Written(p)' = Written(p) /\ Written(p) \in Nat
        BY <2>1, <3>1, WrittenCount
      <4>3. budget \in [Providers -> Nat] /\ WriteBudget \in [Providers -> Nat]
        BY BudgetAssumption DEF TypeOK, BudgetAssumption
      <4>4. WithinLimit /\ FailuresStop
        BY DEF LimitInv
      <4>5. WithinLimit'
        BY <2>1, <4>1, <4>2, <4>3, <4>4 DEF WithinLimit
      <4>6. FailuresStop'
        BY <2>1, <4>1, <4>4 DEF FailuresStop
      <4>7. ASSUME NEW b \in Pairs, InHand(b)'
            PROVE  (b[2] \notin stopped \cup Degraded)' /\
                   (Written(b[2]) + budget[b[2]] + 1 <= WriteBudget[b[2]])'
        <5>1. b = a
          BY <2>1, <4>1, <4>7, OneInHand DEF InHand
        <5>2. a[2] \notin stopped' \cup Degraded
          BY <3>1, <4>1 DEF Attempted
        <5>3. Written(a[2])' + budget'[a[2]] + 1 <= WriteBudget[a[2]]
          BY <2>1, <4>1, <4>2, <4>3, <4>4 DEF WithinLimit
        <5>. QED
          BY <5>1, <5>2, <5>3
      <4>. QED
        BY <4>5, <4>6, <4>7 DEF LimitInv, WriteIsReserved
    <3>. QED
      BY <2>7, <3>2, <3>3, <3>4 DEF Recheck
  <2>8. ASSUME WriteLands(a) PROVE LimitInv'
    <3>1. pc' = "record" /\ UNCHANGED <<outcome, stopped, budget>> /\ Write(a)
      BY <2>8 DEF WriteLands
    <3>2. WithinLimit'
      BY <2>3, <3>1 DEF WithinLimit
    <3>. QED
      BY <2>1, <3>1, <3>2 DEF LimitInv, FailuresStop, WriteIsReserved
  <2>9. ASSUME WriteAnswerLost(a) PROVE LimitInv'
    BY <2>1, <2>3, <2>9, LimitSettle DEF WriteAnswerLost, Fail, Results
  <2>10. ASSUME RecordApplied(a) PROVE LimitInv'
    <3>1. /\ pc' = "refresh" /\ outcome' = [outcome EXCEPT ![a] = "applied"]
          /\ UNCHANGED <<landed, stopped, budget>>
      BY <2>10 DEF RecordApplied
    <3>2. FailuresStop'
      BY <2>1, <3>1 DEF LimitInv, FailuresStop, TypeOK
    <3>3. WithinLimit'
      BY <2>1, <2>2, <3>1 DEF WithinLimit
    <3>. QED
      BY <3>1, <3>2, <3>3 DEF LimitInv, WriteIsReserved
  <2>11. ASSUME \/ \E noQuota, noUsed \in SUBSET {a} : RefreshRow(a, noQuota, noUsed)
                \/ RefreshFails(a) \/ RowNotStored(a)
         PROVE  LimitInv'
    <3>1. pc' = "apply" /\ UNCHANGED <<outcome, landed, stopped, budget>>
      BY <2>11 DEF RefreshRow, RefreshFails, RowNotStored, Settle
    <3>. QED
      BY <2>1, <3>1, LimitFrame
  <2>. QED
    BY <1>5, <2>4, <2>5, <2>6, <2>7, <2>8, <2>9, <2>10, <2>11 DEF Handle
<1>6. CASE UNCHANGED vars
  BY <1>6, LimitFrame DEF vars
<1>. QED
  BY <1>1, <1>2, <1>3, <1>4, <1>5, <1>6 DEF Next, Environment, Engine

\* After a change of a provider failed, or was held back, the run writes
\* nothing more to it; and no run writes to a provider more often than its
\* limit allows.
THEOREM StopsAndKeepsTheLimit == Spec => StopsAtFirstError
<1>1. Init => LimitInv
  BY DEF Init, LimitInv, FailuresStop, WithinLimit, WriteIsReserved, Applying
<1>2. Inductive /\ LimitInv /\ [Next]_vars =>
        \A a \in Pairs : NunoWrites(a) =>
          /\ \A b \in Of(a[2]) : outcome[b] \notin {"failed", "skipped"}
          /\ Cardinality(landed' \cap Of(a[2])) <= WriteBudget[a[2]]
  <2>. SUFFICES ASSUME Inductive, TypeOK, LimitInv, [Next]_vars, NEW a \in Pairs, NunoWrites(a)
                PROVE  /\ \A b \in Of(a[2]) : outcome[b] \notin {"failed", "skipped"}
                       /\ Cardinality(landed' \cap Of(a[2])) <= WriteBudget[a[2]]
    BY DEF Inductive
  <2>1. Write(a)
    BY OnlyWriteWrites
  <2>2. pc = "write" /\ InHand(a) /\ Applying /\ a[2] \in Providers
    BY <2>1 DEF Write, Applying, Pairs
  <2>3. a[2] \notin stopped \cup Degraded
    BY <2>2 DEF LimitInv, WriteIsReserved
  <2>4. \A b \in Of(a[2]) : outcome[b] \notin {"failed", "skipped"}
    BY <2>2, <2>3 DEF LimitInv, FailuresStop, Of
  <2>5. /\ Written(a[2])' \in Nat /\ budget[a[2]] \in Nat /\ WriteBudget[a[2]] \in Nat
        /\ Written(a[2])' + budget[a[2]] <= WriteBudget[a[2]]
    BY <2>1, <2>2, WriteFits, BudgetAssumption DEF TypeOK, BudgetAssumption
  <2>6. Written(a[2])' = Cardinality(landed' \cap Of(a[2]))
    BY DEF Written, Of, Pairs
  <2>. QED
    BY <2>4, <2>5, <2>6
<1>. QED
  BY <1>1, <1>2, LimitNext, InductiveHolds, PTL DEF Spec, StopsAtFirstError
-----------------------------------------------------------------------------
(***************************************************************************)
(* The report: its counts are those of the audit entries that carry the    *)
(* run's id, and clean means what an operator reads in it.                 *)
(***************************************************************************)

Count(result) == Cardinality(WithResult(result))

\* The report while the run goes on, with a number of writes that landed and
\* have no entry yet.
Balanced(unrecorded) ==
  /\ ~run.dryRun => report.applied = Count("applied") + unrecorded
  /\ report.failed = Count("failed")
  /\ report.guarded + report.unknown + report.moved = Count("refused")
  /\ report.skipped <= Count("skipped")
  /\ WithResult("skipped") # {} <=> report.skipped > 0 \/ report.throttled

\* What is still to be done has no entry, but for the write just recorded.
TodoIsOpen == \A a \in todo : outcome[a] = "none" \/ (pc = "refresh" /\ InHand(a))

\* What a finished report says, of what record was called with.
Summed ==
  status \in {"clean", "failed", "incomplete"} =>
    /\ report.applied = Count("applied")
    /\ report.failed = Count("failed")
    /\ report.guarded + report.unknown + report.moved = Count("refused")
    /\ report.skipped <= Count("skipped")
    /\ WithResult("skipped") # {} => report.skipped > 0 \/ report.throttled
    /\ status = "clean" <=> WithResult("failed") \cup WithResult("refused")
                              \cup WithResult("skipped") = {}

Tally ==
  /\ Summed
  /\ Applying => /\ status = "running"
                 /\ Balanced(IF pc = "record" THEN 1 ELSE 0)
                 /\ TodoIsOpen

\* What record was called with, result by result, can be counted.
LEMMA CountIsNat ==
  ASSUME NEW result
  PROVE  /\ IsFiniteSet(WithResult(result)) /\ Count(result) \in Nat
         /\ Count(result) = 0 <=> WithResult(result) = {}
<1>1. IsFiniteSet(Pairs)
  BY OrderAssumption, FS_Product DEF OrderAssumption, Pairs
<1>2. IsFiniteSet(WithResult(result))
  BY <1>1, FS_Subset DEF WithResult
<1> QED BY <1>2, FS_CardinalityType, FS_EmptySet DEF Count

\* One more is one more of its result, and of no other.
LEMMA OneMore ==
  ASSUME TypeOK, NEW a \in Pairs, NEW result \in Results \ {"none"}, outcome[a] = "none",
         outcome' = [outcome EXCEPT ![a] = result]
  PROVE  /\ Count(result)' = Count(result) + 1
         /\ WithResult(result)' # {}
         /\ \A other \in Results \ {"none", result} :
              WithResult(other)' = WithResult(other) /\ Count(other)' = Count(other)
<1>1. outcome \in [Pairs -> Results]
  BY DEF TypeOK
<1>2. WithResult(result)' = WithResult(result) \cup {a} /\ a \notin WithResult(result)
  BY <1>1 DEF WithResult, Results
<1>3. \A other \in Results \ {"none", result} : WithResult(other)' = WithResult(other)
  BY <1>1 DEF WithResult, Results
<1>4. Cardinality(WithResult(result) \cup {a}) = Cardinality(WithResult(result)) + 1
  BY <1>2, CountIsNat, FS_AddElement
<1> QED BY <1>2, <1>3, <1>4 DEF Count

\* A report is the sum of numbers.
LEMMA ReportIsNumbers ==
  ASSUME TypeOK
  PROVE  /\ report.applied \in Nat /\ report.failed \in Nat /\ report.guarded \in Nat
         /\ report.unknown \in Nat /\ report.moved \in Nat /\ report.skipped \in Nat
         /\ report.throttled \in BOOLEAN
         /\ report = [applied |-> report.applied, failed |-> report.failed,
                      guarded |-> report.guarded, unknown |-> report.unknown,
                      moved |-> report.moved, skipped |-> report.skipped,
                      throttled |-> report.throttled]
BY DEF TypeOK, Reports

\* Nothing counted and nothing entered.
LEMMA TallyFrame ==
  ASSUME Tally, UNCHANGED <<report, outcome, status>>,
         \/ pc' \notin {"apply", "write", "record", "refresh"}
         \/ UNCHANGED <<pc, todo, run>>
         \/ /\ pc \in {"apply", "write"} /\ pc' \in {"apply", "write"}
            /\ todo' \subseteq todo /\ UNCHANGED run
  PROVE  Tally'
<1>1. Summed'
  BY DEF Tally, Summed, Count, WithResult
<1>2. ASSUME Applying'
      PROVE  status' = "running" /\ Balanced(IF pc = "record" THEN 1 ELSE 0)' /\ TodoIsOpen'
  <2>1. Applying /\ UNCHANGED run /\ (pc = "record" <=> pc' = "record")
    BY <1>2 DEF Applying
  <2>2. status' = "running" /\ Balanced(IF pc = "record" THEN 1 ELSE 0)'
    BY <2>1 DEF Tally, Balanced, Count, WithResult
  <2>3. TodoIsOpen'
    BY <1>2, <2>1 DEF Tally, TodoIsOpen, InHand, Applying
  <2> QED BY <2>2, <2>3
<1> QED BY <1>1, <1>2 DEF Tally

\* A change is settled with one entry, and the report counts it once.
LEMMA TallySettle ==
  ASSUME TypeOK, Tally, pc \in {"apply", "write"}, NEW a \in Pairs, InHand(a),
         NEW result \in {"failed", "refused", "skipped"}, Settle(a, result),
         UNCHANGED <<status, run>>,
         \/ result = "failed"  /\ report' = [report EXCEPT !.failed = @ + 1]
         \/ result = "refused" /\ report' = [report EXCEPT !.moved = @ + 1]
         \/ result = "skipped" /\ report' = [report EXCEPT !.skipped = @ + 1]
         \/ result = "skipped" /\ report' = [report EXCEPT !.throttled = TRUE]
  PROVE  Tally'
<1>1. Applying /\ status = "running" /\ Balanced(0) /\ TodoIsOpen
  BY DEF Applying, Tally
<1>2. a \in todo /\ todo' = todo \ {a} /\ pc' = "apply" /\ outcome' = [outcome EXCEPT ![a] = result]
  BY DEF Settle, InHand
<1>3. outcome[a] = "none"
  BY <1>1, <1>2 DEF TodoIsOpen
<1>4. result \in Results \ {"none"}
  BY DEF Results
<1>5. /\ Count(result)' = Count(result) + 1 /\ WithResult(result)' # {}
      /\ \A other \in Results \ {"none", result} :
           WithResult(other)' = WithResult(other) /\ Count(other)' = Count(other)
  BY <1>2, <1>3, <1>4, OneMore
<1>6. /\ result # "failed" => Count("failed")' = Count("failed")
      /\ result # "refused" => Count("refused")' = Count("refused")
      /\ result # "skipped" => /\ Count("skipped")' = Count("skipped")
                               /\ WithResult("skipped")' = WithResult("skipped")
      /\ Count("applied")' = Count("applied")
  BY <1>5 DEF Results
<1>7. Balanced(0)'
  <2>1. /\ Count("failed") \in Nat /\ Count("refused") \in Nat /\ Count("skipped") \in Nat
        /\ Count("applied") \in Nat
    BY CountIsNat
  <2>2. CASE result = "failed"
    <3>1. report' = [report EXCEPT !.failed = @ + 1]
      BY <2>2
    <3>2. /\ report'.failed = report.failed + 1 /\ report'.applied = report.applied
          /\ report'.guarded = report.guarded /\ report'.unknown = report.unknown
          /\ report'.moved = report.moved /\ report'.skipped = report.skipped
          /\ report'.throttled = report.throttled
      BY <3>1, ReportIsNumbers
    <3> QED BY <1>1, <1>5, <1>6, <2>1, <2>2, <3>2 DEF Balanced
  <2>3. CASE result = "refused"
    <3>1. report' = [report EXCEPT !.moved = @ + 1]
      BY <2>3
    <3>2. /\ report'.moved = report.moved + 1 /\ report'.applied = report.applied
          /\ report'.guarded = report.guarded /\ report'.unknown = report.unknown
          /\ report'.failed = report.failed /\ report'.skipped = report.skipped
          /\ report'.throttled = report.throttled
      BY <3>1, ReportIsNumbers
    <3>3. report.guarded + report.unknown + (report.moved + 1)
            = (report.guarded + report.unknown + report.moved) + 1
      BY ReportIsNumbers
    <3> QED BY <1>1, <1>5, <1>6, <2>1, <2>3, <3>2, <3>3 DEF Balanced
  <2>4. CASE result = "skipped" /\ report' = [report EXCEPT !.skipped = @ + 1]
    <3>1. report' = [report EXCEPT !.skipped = @ + 1]
      BY <2>4
    <3>2. /\ report'.skipped = report.skipped + 1 /\ report'.applied = report.applied
          /\ report'.guarded = report.guarded /\ report'.unknown = report.unknown
          /\ report'.failed = report.failed /\ report'.moved = report.moved
          /\ report'.throttled = report.throttled
      BY <3>1, ReportIsNumbers
    <3>3. report.skipped + 1 <= Count("skipped") + 1 /\ report.skipped + 1 > 0
      BY <1>1, <2>1, ReportIsNumbers DEF Balanced
    <3> QED BY <1>1, <1>5, <1>6, <2>4, <3>2, <3>3 DEF Balanced
  <2>5. CASE result = "skipped" /\ report' = [report EXCEPT !.throttled = TRUE]
    <3>1. report' = [report EXCEPT !.throttled = TRUE]
      BY <2>5
    <3>2. /\ report'.skipped = report.skipped /\ report'.applied = report.applied
          /\ report'.guarded = report.guarded /\ report'.unknown = report.unknown
          /\ report'.failed = report.failed /\ report'.moved = report.moved
          /\ report'.throttled = TRUE
      BY <3>1, ReportIsNumbers
    <3>3. report.skipped <= Count("skipped") + 1
      BY <1>1, <2>1, ReportIsNumbers DEF Balanced
    <3> QED BY <1>1, <1>5, <1>6, <2>5, <3>2, <3>3 DEF Balanced
  <2> QED BY <2>2, <2>3, <2>4, <2>5
<1>8. TodoIsOpen'
  <2> SUFFICES ASSUME NEW b \in todo' PROVE outcome'[b] = "none"
    BY DEF TodoIsOpen
  <2>1. b \in todo /\ b # a /\ b \in Pairs
    BY <1>2 DEF TypeOK
  <2>2. outcome[b] = "none"
    BY <1>1, <2>1 DEF TodoIsOpen
  <2> QED BY <1>2, <2>1, <2>2 DEF TypeOK
<1>9. Summed'
  BY <1>1 DEF Summed
<1> QED BY <1>1, <1>2, <1>7, <1>8, <1>9 DEF Tally

\* Nothing has been reported yet.
LEMMA TallyInit == Init => Tally
BY DEF Init, Tally, Summed, Applying

\* What is refused before anything is tried: unknown state, and shrinks nobody
\* consented to, which are not the same changes.
LEMMA TallyStart == ASSUME Inductive, Tally, StartApply PROVE Tally'
<1> DEFINE risky   == IF run.consent THEN {} ELSE OfClass(Shrink)
           refused == OfClass(Blind) \cup risky
<1>1. /\ pc' = "apply" /\ status' = "running"
      /\ outcome' = [a \in Pairs |-> IF a \in refused THEN "refused" ELSE "none"]
      /\ todo' = Applicable(plan, run.consent)
      /\ report' = [NoReport EXCEPT
                      !.unknown = Cardinality(OfClass(Blind)),
                      !.guarded = IF run.consent THEN 0 ELSE Cardinality(OfClass(Shrink))]
  BY DEF StartApply
<1>2. refused \subseteq Pairs /\ OfClass(Blind) \cap risky = {}
  BY DEF OfClass, Blind, Shrink
<1>3. /\ IsFiniteSet(OfClass(Blind)) /\ IsFiniteSet(risky)
      /\ Cardinality(OfClass(Blind)) \in Nat /\ Cardinality(risky) \in Nat
      /\ Cardinality(risky) = IF run.consent THEN 0 ELSE Cardinality(OfClass(Shrink))
  <2>1. IsFiniteSet(Pairs)
    BY OrderAssumption, FS_Product DEF OrderAssumption, Pairs
  <2>2. IsFiniteSet(OfClass(Blind)) /\ IsFiniteSet(risky)
    BY <2>1, FS_Subset, FS_EmptySet DEF OfClass
  <2> QED BY <2>2, FS_CardinalityType, FS_EmptySet
<1>4. Cardinality(refused) = Cardinality(OfClass(Blind)) + Cardinality(risky)
  <2>1. Cardinality(refused) = Cardinality(OfClass(Blind)) + Cardinality(risky)
                                 - Cardinality(OfClass(Blind) \cap risky)
    BY <1>3, FS_Union
  <2>2. Cardinality(OfClass(Blind) \cap risky) = 0
    BY <1>2, FS_EmptySet
  <2> QED BY <1>3, <2>1, <2>2
<1>5. /\ report'.applied = 0 /\ report'.failed = 0 /\ report'.moved = 0 /\ report'.skipped = 0
      /\ report'.throttled = FALSE /\ report'.unknown = Cardinality(OfClass(Blind))
      /\ report'.guarded = Cardinality(risky)
  BY <1>1, <1>3 DEF NoReport
<1> HIDE DEF risky, refused
<1>6. /\ WithResult("refused")' = refused /\ WithResult("applied")' = {}
      /\ WithResult("failed")' = {} /\ WithResult("skipped")' = {}
  BY <1>1, <1>2 DEF WithResult
<1>7. Balanced(0)'
  BY <1>3, <1>4, <1>5, <1>6, FS_EmptySet DEF Balanced, Count
<1>8. TodoIsOpen'
  <2> SUFFICES ASSUME NEW a \in Applicable(plan, run.consent) PROVE outcome'[a] = "none"
    BY <1>1 DEF TodoIsOpen
  <2>1. a \in Pairs
    BY DEF Applicable, Changed, Inductive, TypeOK
  <2>2. a \notin refused
    BY DEF refused, risky, Applicable, OfClass, Safe, Shrink, Blind
  <2> QED BY <1>1, <2>1, <2>2
<1>9. Summed'
  BY <1>1 DEF Summed
<1> QED BY <1>1, <1>7, <1>8, <1>9 DEF Tally

\* One change, from taking it in hand to putting it aside.
LEMMA TallyHandle == ASSUME Inductive, Tally, NEW a \in Pairs, Handle(a) PROVE Tally'
<1>0. TypeOK
  BY DEF Inductive
<1> USE DEF engine, history
<1>1. CASE SkipChange(a)
  BY <1>0, <1>1, TallySettle DEF SkipChange
<1>2. CASE RecheckFails(a)
  BY <1>0, <1>2, TallySettle DEF RecheckFails, Attempted, Fail
<1>3. ASSUME NEW quotaKnown \in BOOLEAN, NEW usedKnown \in BOOLEAN,
             Recheck(a, quotaKnown, usedKnown)
      PROVE  Tally'
  <2>1. pc = "apply" /\ InHand(a) /\ UNCHANGED <<status, run>>
    BY <1>3 DEF Recheck, Attempted
  <2>2. CASE Refuse(a)
    BY <1>0, <2>1, <2>2, TallySettle DEF Refuse
  <2>3. CASE LeaveAlone(a)
    <3>1. UNCHANGED <<report, outcome, status, run>> /\ pc' = "apply" /\ todo' \subseteq todo
      BY <2>1, <2>3 DEF LeaveAlone, Settle
    <3> QED BY <2>1, <3>1, TallyFrame
  <2>4. CASE run.dryRun /\ Announce(a)
    <3>1. /\ UNCHANGED <<outcome, status, run>> /\ pc' = "apply" /\ todo' \subseteq todo
          /\ report' = [report EXCEPT !.applied = @ + 1]
      BY <2>1, <2>4 DEF Announce, Settle
    <3>2. /\ report'.failed = report.failed /\ report'.guarded = report.guarded
          /\ report'.unknown = report.unknown /\ report'.moved = report.moved
          /\ report'.skipped = report.skipped /\ report'.throttled = report.throttled
      BY <1>0, <3>1, ReportIsNumbers
    <3>3. Balanced(0) /\ TodoIsOpen /\ status = "running"
      BY <2>1 DEF Tally, Applying
    <3>4. Balanced(0)'
      BY <2>4, <3>1, <3>2, <3>3 DEF Balanced, Count, WithResult
    <3>5. TodoIsOpen'
      BY <2>1, <3>1, <3>3 DEF TodoIsOpen
    <3>6. Summed'
      BY <3>1, <3>3 DEF Summed
    <3> QED BY <3>1, <3>3, <3>4, <3>5, <3>6 DEF Tally
  <2>5. CASE HoldBack(a)
    BY <1>0, <2>1, <2>5, TallySettle DEF HoldBack
  <2>6. CASE Proceed(a, Read(a, quotaKnown, usedKnown))
    <3>1. UNCHANGED <<report, outcome, status, run, todo>> /\ pc' = "write"
      BY <2>1, <2>6 DEF Proceed
    <3> QED BY <2>1, <3>1, TallyFrame
  <2> QED BY <1>3, <2>2, <2>3, <2>4, <2>5, <2>6 DEF Recheck
<1>4. CASE WriteLands(a)
  <2>1. /\ pc = "write" /\ pc' = "record" /\ UNCHANGED <<outcome, status, run, todo>>
        /\ report' = [report EXCEPT !.applied = @ + 1]
    BY <1>4 DEF WriteLands, Write
  <2>2. /\ report'.failed = report.failed /\ report'.guarded = report.guarded
        /\ report'.unknown = report.unknown /\ report'.moved = report.moved
        /\ report'.skipped = report.skipped /\ report'.throttled = report.throttled
        /\ report'.applied = report.applied + 1
    BY <1>0, <2>1, ReportIsNumbers
  <2>3. Balanced(0) /\ TodoIsOpen /\ status = "running"
    BY <2>1 DEF Tally, Applying
  <2>4. Balanced(1)'
    <3>1. Count("applied") \in Nat /\ Count("applied") + 0 + 1 = Count("applied") + 1
      BY CountIsNat
    <3> QED BY <2>1, <2>2, <2>3, <3>1 DEF Balanced, Count, WithResult
  <2>5. TodoIsOpen'
    BY <2>1, <2>3 DEF TodoIsOpen
  <2>6. Summed'
    BY <2>1, <2>3 DEF Summed
  <2> QED BY <2>1, <2>3, <2>4, <2>5, <2>6 DEF Tally
<1>5. CASE WriteAnswerLost(a)
  BY <1>0, <1>5, TallySettle DEF WriteAnswerLost, Write, Fail
<1>6. CASE WriteFails(a)
  BY <1>0, <1>6, TallySettle DEF WriteFails, Fail
<1>7. CASE WriteThrottled(a)
  BY <1>0, <1>7, TallySettle DEF WriteThrottled, HoldBack
<1>8. CASE RecordApplied(a)
  <2>1. /\ pc = "record" /\ pc' = "refresh" /\ InHand(a) /\ a \in todo
        /\ UNCHANGED <<report, status, run, todo>> /\ outcome' = [outcome EXCEPT ![a] = "applied"]
    BY <1>8 DEF RecordApplied, InHand
  <2>2. Balanced(1) /\ TodoIsOpen /\ status = "running"
    BY <2>1 DEF Tally, Applying
  <2>3. outcome[a] = "none"
    BY <2>1, <2>2 DEF TodoIsOpen
  <2>4. /\ Count("applied")' = Count("applied") + 1
        /\ Count("failed")' = Count("failed") /\ Count("refused")' = Count("refused")
        /\ Count("skipped")' = Count("skipped")
        /\ WithResult("skipped")' = WithResult("skipped")
    <3>1. "applied" \in Results \ {"none"}
      BY DEF Results
    <3>2. /\ Count("applied")' = Count("applied") + 1
          /\ \A other \in Results \ {"none", "applied"} :
               WithResult(other)' = WithResult(other) /\ Count(other)' = Count(other)
      BY <1>0, <2>1, <2>3, <3>1, OneMore
    <3>3. {"failed", "refused", "skipped"} \subseteq Results \ {"none", "applied"}
      BY DEF Results
    <3> QED BY <3>2, <3>3
  <2>5. Balanced(0)'
    <3>1. Count("applied") \in Nat /\ Count("applied") + 1 + 0 = Count("applied") + 1
      BY CountIsNat
    <3> QED BY <2>1, <2>2, <2>4, <3>1 DEF Balanced
  <2>6. TodoIsOpen'
    <3> SUFFICES ASSUME NEW b \in todo, b # a PROVE outcome'[b] = "none"
      BY <2>1 DEF TodoIsOpen, InHand
    <3>1. b \in Pairs
      BY <1>0 DEF TypeOK
    <3> QED BY <1>0, <2>1, <2>2, <3>1 DEF TodoIsOpen, TypeOK
  <2>7. Summed'
    BY <2>1, <2>2 DEF Summed
  <2> QED BY <2>1, <2>2, <2>5, <2>6, <2>7 DEF Tally
<1>9. ASSUME pc = "refresh", InHand(a), Settle(a, "none"), UNCHANGED <<status, run, report>>
      PROVE  Tally'
  <2>1. /\ pc' = "apply" /\ UNCHANGED outcome /\ todo' = todo \ {a}
        /\ Balanced(0) /\ TodoIsOpen /\ status = "running"
    BY <1>9 DEF Settle, Tally, Applying
  <2>2. Balanced(0)'
    BY <1>9, <2>1 DEF Balanced, Count, WithResult
  <2>3. TodoIsOpen'
    <3> SUFFICES ASSUME NEW b \in todo, b # a PROVE outcome[b] = "none"
      BY <2>1 DEF TodoIsOpen
    <3>1. b \in Pairs
      BY <1>0 DEF TypeOK
    <3>2. ~InHand(b)
      BY <1>9, <3>1, OneInHand
    <3> QED BY <2>1, <3>2 DEF TodoIsOpen
  <2>4. Summed'
    BY <1>9, <2>1 DEF Summed
  <2> QED BY <1>9, <2>1, <2>2, <2>3, <2>4 DEF Tally
<1>10. ASSUME NEW noQuota, NEW noUsed, RefreshRow(a, noQuota, noUsed) PROVE Tally'
  BY <1>9, <1>10 DEF RefreshRow
<1>11. CASE RefreshFails(a) \/ RowNotStored(a)
  BY <1>9, <1>11 DEF RefreshFails, RowNotStored
<1> QED BY <1>1, <1>2, <1>3, <1>4, <1>5, <1>6, <1>7, <1>8, <1>10, <1>11 DEF Handle

\* The last word on the run.
LEMMA TallyFinish == ASSUME Inductive, Tally, Finish PROVE Tally'
<1>1. /\ pc = "apply" /\ pc' = "idle" /\ UNCHANGED <<report, outcome, run>>
      /\ status' = IF run.dryRun THEN "dry-run"
                   ELSE IF report.failed > 0 THEN "failed"
                   ELSE IF Incomplete THEN "incomplete" ELSE "clean"
  BY DEF Finish, engine
<1>2. Balanced(0)
  BY <1>1 DEF Tally, Applying
<1>3. TypeOK
  BY DEF Inductive
<1> SUFFICES ASSUME ~run.dryRun PROVE Summed'
  BY <1>1 DEF Tally, Summed, Applying
<1>4. /\ report.applied = Count("applied") /\ report.failed = Count("failed")
      /\ report.guarded + report.unknown + report.moved = Count("refused")
      /\ report.skipped <= Count("skipped")
      /\ WithResult("skipped") # {} <=> report.skipped > 0 \/ report.throttled
  BY <1>2, CountIsNat DEF Balanced
<1>5. report.failed > 0 <=> WithResult("failed") # {}
  BY <1>4, CountIsNat
<1>6. report.guarded > 0 \/ report.unknown > 0 \/ report.moved > 0 <=> WithResult("refused") # {}
  <2>1. /\ report.guarded \in Nat /\ report.unknown \in Nat /\ report.moved \in Nat
    BY <1>3, ReportIsNumbers
  <2>2. report.guarded > 0 \/ report.unknown > 0 \/ report.moved > 0 <=> Count("refused") # 0
    <3>1. /\ report.guarded + report.unknown + report.moved = 0 =>
               report.guarded = 0 /\ report.unknown = 0 /\ report.moved = 0
          /\ report.guarded + report.unknown + report.moved # 0 =>
               report.guarded > 0 \/ report.unknown > 0 \/ report.moved > 0
      BY <2>1
    <3> QED BY <1>4, <2>1, <3>1
  <2> QED BY <2>2, CountIsNat
<1>7. status' = "clean" <=> WithResult("failed") \cup WithResult("refused")
                              \cup WithResult("skipped") = {}
  BY <1>1, <1>4, <1>5, <1>6 DEF Incomplete
<1> QED BY <1>1, <1>4, <1>7 DEF Summed, Count, WithResult

\* Every step keeps the tally.
LEMMA TallyNext == Inductive /\ Tally /\ [Next]_vars => Tally'
<1> SUFFICES ASSUME Inductive, Tally, [Next]_vars PROVE Tally'
  OBVIOUS
<1> USE DEF provider, admin, engine, history
<1>1. CASE Environment \/ UNCHANGED vars
  <2>1. UNCHANGED <<report, outcome, status, pc, todo, run>>
    BY <1>1
    DEF Environment, vars, UseStorage, OthersSetQuota, ChangeStatus, EditPolicy, Unlink, LinkByHand
  <2> QED BY <2>1, TallyFrame
<1>2. CASE Trigger
  <2>1. UNCHANGED <<report, outcome, status>> /\ pc' = "observe"
    BY <1>2 DEF Trigger, BeginScheduled, BeginRefresh, BeginByOperator, Begin
  <2> QED BY <2>1, TallyFrame
<1>3. CASE Observing
  <2>1. UNCHANGED <<report, outcome, status>> /\ pc' \in {"observe", "link"}
    BY <1>3 DEF Observing, ObserveProvider, ObserveFails, NextPhase
  <2> QED BY <2>1, TallyFrame
<1>4. CASE LinkAccounts \/ MakePlan \/ RefuseExpired \/ FinishUnrecorded \/ Interrupt
  <2>1. UNCHANGED <<report, outcome, status>> /\ pc' \in {"idle", "plan", "start"}
    BY <1>4 DEF LinkAccounts, MakePlan, RefuseExpired, FinishUnrecorded, Interrupt
  <2> QED BY <2>1, TallyFrame
<1>5. CASE StartApply
  BY <1>5, TallyStart
<1>6. ASSUME NEW a \in Pairs, Handle(a) PROVE Tally'
  BY <1>6, TallyHandle
<1>7. CASE Finish
  BY <1>7, TallyFinish
<1> QED BY <1>1, <1>2, <1>3, <1>4, <1>5, <1>6, <1>7 DEF Next, Engine

\* By result, what record was called with is what the log holds and what it
\* lost.
LEMMA EntriesAddUp ==
  ASSUME NEW result
  PROVE  Count(result) = Cardinality(Entries(result)) + Cardinality(Missing(result))
<1>1. IsFiniteSet(Entries(result)) /\ IsFiniteSet(Missing(result))
  BY CountIsNat, FS_Subset DEF Entries, Missing
<1>2. /\ Entries(result) \cup Missing(result) = WithResult(result)
      /\ Entries(result) \cap Missing(result) = {}
  BY DEF Entries, Missing
<1>3. Cardinality(Entries(result) \cup Missing(result))
        = Cardinality(Entries(result)) + Cardinality(Missing(result))
            - Cardinality(Entries(result) \cap Missing(result))
  BY <1>1, FS_Union
<1>4. Cardinality(Entries(result) \cap Missing(result)) = 0
  BY <1>2, FS_EmptySet
<1>5. Cardinality(Entries(result)) \in Nat /\ Cardinality(Missing(result)) \in Nat
  BY <1>1, FS_CardinalityType
<1>6. Cardinality(Entries(result) \cup Missing(result))
        = Cardinality(Entries(result)) + Cardinality(Missing(result))
  BY <1>3, <1>4, <1>5
<1>7. Count(result) = Cardinality(Entries(result) \cup Missing(result))
  BY <1>2, Zenon DEF Count
<1> QED BY <1>6, <1>7

\* The report of a finished run counts as applied the writes that landed and
\* were answered.
LEMMA AppliedLanded ==
  ASSUME AuditInv, TypeOK, status \in {"clean", "failed", "incomplete"}
  PROVE  WithResult("applied") = landed \ WithResult("failed")
<1>1. Unrecorded = {}
  BY DEF AuditInv, Unclosed
<1>2. WithResult("applied") \subseteq landed
  BY DEF AuditInv
<1> QED BY <1>1, <1>2 DEF Unrecorded, WithResult, TypeOK

\* A run that is reported clean refused, failed and skipped nothing, and any
\* finished run counts as applied the writes that landed and were answered
\* (FinishRun, internal/reconcile/apply.go), whatever interrupted the ones
\* before it and whatever the log could not store.  Its numbers are those of its
\* entries and of the lost ones together.
THEOREM ReportsAreHonest == Spec => []HonestReport
<1>1. Spec => []Tally
  BY TallyInit, TallyNext, InductiveHolds, PTL DEF Spec
<1>2. Inductive /\ AuditInv /\ Tally => HonestReport
  <2> SUFFICES ASSUME TypeOK, AuditInv, Summed, status \in {"clean", "failed", "incomplete"}
               PROVE  HonestReport
    BY DEF Inductive, Tally, HonestReport
  <2>1. report.applied = Cardinality(landed \ WithResult("failed"))
    BY AppliedLanded DEF Summed, Count
  <2>2. /\ Tells(report.applied, "applied")
        /\ Tells(report.failed, "failed")
        /\ Tells(report.guarded + report.unknown + report.moved, "refused")
    BY EntriesAddUp DEF Summed, Tells
  <2> QED BY <2>1, <2>2 DEF Summed, HonestReport, Count
<1> QED BY <1>1, <1>2, AuditHolds, InductiveHolds, PTL
-----------------------------------------------------------------------------
(***************************************************************************)
(* Undisturbed runs.  What such a run will plan can be told from the       *)
(* accounts themselves, before it reads any of them.                       *)
(***************************************************************************)

\* Nothing was disturbed since the run in progress began, or since the last
\* one did.
Calm == mark = left

\* A pair as a whole reading will show it, with everybody linked whom linking
\* adopts; and the change that calls for.
TrueAccount(a) ==
  [present   |-> /\ account[a].status # "gone" /\ policy[a].present
                 /\ a \in linked \/ account[a].status = "enabled",
   desired   |-> IF policy[a].present THEN NormalizeQuota(a[2], policy[a].ceiling) ELSE Unknown,
   observed  |-> account[a].quota,
   used      |-> BytesQuota(account[a].used),
   neverUsed |-> account[a].used = 0,
   observeOK |-> TRUE]

Due(a) == ChangeFor(TrueAccount(a))

\* What the run has read is so.
ReadingsAreTrue ==
  /\ pc \in {"observe", "link", "plan"} =>
       /\ failed = {}
       /\ \A a \in Pairs : a[2] \notin toObserve => row[a] = RowOf(a, {}, {})
  /\ pc \in {"link", "plan"} => toObserve = {}

\* From the plan on, everybody is adopted whom linking could adopt, and the
\* plan is what the accounts called for when it was made.
Planned == pc = "start" \/ Applying

PlanIsDue ==
  /\ Planned \/ pc = "plan" => \A a \in Pairs : account[a].status = "enabled" => a \in linked
  /\ Planned => /\ \A a \in Pairs \ run.scope : plan[a] = NoChange
                /\ \A a \in run.scope : plan[a] = Due(a) \/ (Applying /\ ~run.dryRun /\ Due(a) = NoChange)

\* What is no longer to be done is done, or an entry says that it is not.
Underway(a) == pc \in {"record", "refresh"} /\ InHand(a)
Unfinished == {"failed", "refused", "skipped"}

DoneOrSaid ==
  Applying /\ ~run.dryRun => \A a \in run.scope :
    /\ a \notin todo => Due(a) = NoChange \/ outcome[a] \in Unfinished
    /\ Underway(a) => Due(a) = NoChange
    /\ a \in todo /\ ~Underway(a) => plan[a] = Due(a)

\* A dry run comes as far as the write and no further.
DryRunsDoNot == Applying /\ run.dryRun => pc = "apply" /\ ~report.throttled

\* After a clean run over everybody nothing is due, and so it stays.
NothingIsDue ==
  settled => pc \in {"idle", "observe", "link", "plan"} /\ \A a \in Pairs : Due(a) = NoChange

Foreseen == ReadingsAreTrue /\ PlanIsDue /\ DoneOrSaid /\ DryRunsDoNot /\ NothingIsDue

CalmInv == mark >= left /\ (Calm => Foreseen)

\* A due change is no change, or has one of the three classes.
LEMMA DueIsAChange ==
  ASSUME NEW a
  PROVE  /\ Due(a).class = "none" <=> Due(a) = NoChange
         /\ Due(a).class # "none" =>
              /\ NeedsChange(TrueAccount(a))
              /\ Due(a).class = Classify(TrueAccount(a)) /\ Due(a).class \in Classes
              /\ Due(a).to = TrueAccount(a).desired
<1>1. Classify(TrueAccount(a)) \in Classes /\ "none" \notin Classes
  BY DEF Classify, Classes, Safe, Shrink, Blind
<1> QED BY <1>1 DEF Due, ChangeFor, NoChange

\* It depends on the accounts, the policy and the links, and on nothing else.
LEMMA DueStays == UNCHANGED <<account, policy, linked>> => \A a : Due(a)' = Due(a)
BY DEF Due, TrueAccount

\* The one in hand comes before all the others, and the order is an order.
LEMMA OrderOfPairs ==
  ASSUME NEW a \in Pairs, NEW b \in Pairs
  PROVE  /\ ~(Before(a, b) /\ Before(b, a)) /\ ~Before(a, a)
         /\ a # b => Before(a, b) \/ Before(b, a)
<1>1. PICK u \in Users, p \in Providers : a = <<u, p>>
  BY DEF Pairs
<1>2. PICK v \in Users, q \in Providers : b = <<v, q>>
  BY DEF Pairs
<1>3. u \in Nat /\ p \in Nat /\ v \in Nat /\ q \in Nat
  BY OrderAssumption DEF OrderAssumption
<1> QED BY <1>1, <1>2, <1>3 DEF Before

\* Linking makes nothing due that was not, when what was read is so.
LEMMA LinkingKeepsDue ==
  ASSUME ReadingsAreTrue, LinkAccounts
  PROVE  /\ \A a \in Pairs : Due(a)' = Due(a)
         /\ \A a \in Pairs : account[a].status = "enabled" => a \in linked'
<1>1. /\ linked' = linked \cup {a \in Pairs : a[2] \notin failed /\ row[a].stored /\ row[a].enabled}
      /\ UNCHANGED <<account, policy>> /\ pc = "link"
  BY DEF LinkAccounts, provider
<1>2. failed = {} /\ \A a \in Pairs : row[a] = RowOf(a, {}, {})
  BY <1>1 DEF ReadingsAreTrue
<1>3. ASSUME NEW a \in Pairs
      PROVE  row[a].stored /\ row[a].enabled <=> account[a].status = "enabled"
  <2>1. row[a] = RowOf(a, {}, {})
    BY <1>2
  <2>2. account[a].status = "gone" => row[a].enabled = FALSE
    BY <2>1 DEF RowOf, NoRow
  <2>3. account[a].status # "gone" =>
          row[a].stored = TRUE /\ row[a].enabled = (account[a].status = "enabled")
    BY <2>1 DEF RowOf
  <2> QED BY <2>2, <2>3
<1>4. ASSUME NEW a \in Pairs
      PROVE  a \in linked' <=> a \in linked \/ account[a].status = "enabled"
  BY <1>1, <1>2, <1>3
<1> QED BY <1>1, <1>4 DEF Due, TrueAccount

\* The plan of an undisturbed run is what is due.
LEMMA PlansWhatIsDue ==
  ASSUME ReadingsAreTrue, PlanIsDue, pc = "plan", NEW a \in Pairs
  PROVE  ChangeFor(PlanAccount(a)) = IF a \in run.scope THEN Due(a) ELSE NoChange
<1>1. row[a] = RowOf(a, {}, {}) /\ (account[a].status = "enabled" => a \in linked)
  BY DEF ReadingsAreTrue, PlanIsDue
<1>2. row[a].stored <=> account[a].status # "gone"
  BY <1>1 DEF RowOf, NoRow
<1>3. PlanAccount(a).present <=> a \in run.scope /\ TrueAccount(a).present
  BY <1>1, <1>2 DEF PlanAccount, Considered, TrueAccount
<1>4. CASE PlanAccount(a).present
  <2>1. row[a].quota = account[a].quota /\ row[a].used = BytesQuota(account[a].used)
        /\ row[a].neverUsed = (account[a].used = 0) /\ row[a].observeOK = TRUE
    BY <1>1, <1>3, <1>4 DEF RowOf, TrueAccount
  <2>2. PlanAccount(a) = TrueAccount(a)
    <3>1. PlanAccount(a).present = TRUE /\ TrueAccount(a).present = TRUE
      BY <1>3, <1>4 DEF PlanAccount, TrueAccount
    <3> QED BY <2>1, <3>1 DEF PlanAccount, TrueAccount
  <2> QED BY <1>3, <1>4, <2>2 DEF Due
<1>5. CASE ~PlanAccount(a).present
  <2>1. ChangeFor(PlanAccount(a)) = NoChange
    BY <1>5 DEF ChangeFor, NeedsChange
  <2>2. a \in run.scope => Due(a) = NoChange
    BY <1>3, <1>5 DEF Due, ChangeFor, NeedsChange
  <2> QED BY <2>1, <2>2
<1> QED BY <1>4, <1>5

\* The re-check of a change that is due neither finds it moved nor done.
LEMMA DueIsStillDue ==
  ASSUME NEW a \in Pairs, plan[a] = Due(a), plan[a].class \in {Safe, Shrink}
  PROVE  /\ RecheckClass(a, Read(a, TRUE, TRUE)) = plan[a].class
         /\ ~Equal(Read(a, TRUE, TRUE).quota, plan[a].to)
<1> DEFINE read  == Read(a, TRUE, TRUE)
           again == [present |-> TRUE, desired |-> plan[a].to, observed |-> read.quota,
                     used |-> read.used, neverUsed |-> account[a].used = 0, observeOK |-> TRUE]
<1>1. /\ plan[a].class # "none" /\ plan[a].class # Blind
  BY DEF Safe, Shrink, Blind
<1>2. /\ NeedsChange(TrueAccount(a)) /\ plan[a].class = Classify(TrueAccount(a))
      /\ plan[a].to = TrueAccount(a).desired
  BY <1>1, DueIsAChange
<1>3. read.quota = account[a].quota /\ read.used = BytesQuota(account[a].used)
  BY DEF Read
<1>4. TrueAccount(a).present = TRUE
  BY <1>2 DEF NeedsChange, TrueAccount
<1>5. again = TrueAccount(a)
  BY <1>2, <1>3, <1>4 DEF TrueAccount
<1>6. RecheckClass(a, read) = plan[a].class
  <2>1. ChangeFor(again).class = plan[a].class
    BY <1>5 DEF Due
  <2> QED BY <1>1, <2>1 DEF RecheckClass
<1>7. ~Equal(read.quota, plan[a].to)
  <2>1. ~Equal(TrueAccount(a).desired, TrueAccount(a).observed)
    BY <1>1, <1>2 DEF NeedsChange
  <2>2. TrueAccount(a).observed = read.quota
    BY <1>3 DEF TrueAccount
  <2> QED BY <1>2, <2>1, <2>2 DEF Equal, IsBytes
<1> QED BY <1>6, <1>7

\* A change that is written is no longer due.
LEMMA WrittenIsNotDue ==
  ASSUME Inductive, NEW a \in Pairs, Write(a), plan[a] = Due(a), UNCHANGED <<policy, linked>>
  PROVE  Due(a)' = NoChange /\ \A b \in Pairs \ {a} : Due(b)' = Due(b)
<1>1. plan[a].class \in {Safe, Shrink} /\ IsKnown(plan[a].to)
  BY DEF Write, InHand, Inductive, TodoIsTrusted, Trusted, Applying
<1>2. NormalizeQuota(a[2], plan[a].to) = plan[a].to
  BY WrittenValue
<1>3. account \in [Pairs -> Accounts]
  BY DEF Inductive, TypeOK
<1>4. /\ account'[a] = [quota |-> plan[a].to, used |-> account[a].used, status |-> account[a].status]
      /\ \A b \in Pairs \ {a} : account'[b] = account[b]
  BY <1>2, <1>3 DEF Write, Accounts
<1>5. /\ NeedsChange(TrueAccount(a)) /\ Classify(TrueAccount(a)) \in {Safe, Shrink}
      /\ plan[a].to = TrueAccount(a).desired
  BY <1>1, DueIsAChange DEF Safe, Shrink
<1>6. /\ TrueAccount(a)'.desired = TrueAccount(a).desired
      /\ TrueAccount(a)'.observed = TrueAccount(a).desired
      /\ TrueAccount(a)'.used = TrueAccount(a).used
      /\ TrueAccount(a)'.neverUsed = TrueAccount(a).neverUsed
      /\ TrueAccount(a)'.observeOK = TrueAccount(a).observeOK
  BY <1>4, <1>5 DEF TrueAccount
<1>7. Readable(TrueAccount(a))'
  <2>1. Readable(TrueAccount(a))
    BY <1>5 DEF Classify, Safe, Shrink, Blind
  <2> QED BY <1>1, <1>5, <1>6, <2>1 DEF Readable
<1>8. ~NeedsChange(TrueAccount(a))'
  BY <1>6, <1>7 DEF NeedsChange, Classify, Equal, Safe, Shrink, Blind
<1>9. Due(a)' = NoChange
  BY <1>8 DEF Due, ChangeFor
<1>10. \A b \in Pairs \ {a} : Due(b)' = Due(b)
  BY <1>4 DEF Due, TrueAccount
<1> QED BY <1>9, <1>10

\* What is disturbed stays disturbed until another run begins.
LEMMA DisturbedStays ==
  ASSUME TypeOK, CalmInv, mark' = mark, left' = left \/ Disturb
  PROVE  /\ mark' >= left'
         /\ Calm' => Calm /\ left' = left
BY DEF TypeOK, CalmInv, Calm, Disturb

\* Putting a change aside is foreseen when it says so, or is done.
LEMMA ForeseenSettle ==
  ASSUME TypeOK, Foreseen, Applying, NEW a \in Pairs, InHand(a),
         NEW result, Settle(a, result), UNCHANGED <<account, policy, linked, run, plan, settled>>,
         result \in Unfinished \/ run.dryRun \/ (Due(a) = NoChange /\ result = "none"),
         run.dryRun => report'.throttled = report.throttled
  PROVE  Foreseen'
<1>1. /\ pc' = "apply" /\ todo' = todo \ {a} /\ Applying' /\ Planned /\ Planned'
      /\ outcome' = IF result = "none" THEN outcome ELSE [outcome EXCEPT ![a] = result]
  BY DEF Settle, Applying, Planned
<1>2. \A b : Due(b)' = Due(b)
  BY DueStays
<1>3. ReadingsAreTrue'
  BY <1>1 DEF ReadingsAreTrue
<1>4. PlanIsDue'
  BY <1>1, <1>2 DEF Foreseen, PlanIsDue
<1>5. DoneOrSaid'
  <2> SUFFICES ASSUME ~run.dryRun, NEW b \in run.scope
               PROVE  /\ b \notin todo' => Due(b) = NoChange \/ outcome'[b] \in Unfinished
                      /\ b \in todo' => plan[b] = Due(b)
    BY <1>1, <1>2 DEF DoneOrSaid, Underway
  <2>1. b \in Pairs
    BY DEF TypeOK, Runs
  <2>2. CASE b = a
    <3>1. outcome'[a] = IF result = "none" THEN outcome[a] ELSE result
      BY <1>1 DEF TypeOK
    <3> QED BY <1>1, <2>2, <3>1 DEF Unfinished
  <2>3. CASE b # a
    <3>1. outcome'[b] = outcome[b] /\ ~Underway(b)
      BY <1>1, <2>1, <2>3, OneInHand DEF TypeOK, Underway
    <3> QED BY <1>1, <2>3, <3>1 DEF Foreseen, DoneOrSaid
  <2> QED BY <2>2, <2>3
<1>6. DryRunsDoNot'
  BY <1>1 DEF Foreseen, DryRunsDoNot
<1>7. NothingIsDue'
  BY DEF Foreseen, NothingIsDue, Applying
<1> QED BY <1>3, <1>4, <1>5, <1>6, <1>7 DEF Foreseen

\* One change of an undisturbed run, from taking it in hand to putting it aside.
LEMMA ForeseenHandle ==
  ASSUME Inductive, Foreseen, NEW a \in Pairs, Handle(a), left' = left, left \in Nat
  PROVE  Foreseen'
<1> USE DEF provider, admin, engine, history
<1>0. TypeOK
  BY DEF Inductive
<1>a. ~Disturb
  BY DEF Disturb
<1>1. CASE SkipChange(a)
  <2>1. /\ Applying /\ InHand(a) /\ Settle(a, "skipped") /\ report' = [report EXCEPT !.skipped = @ + 1]
        /\ UNCHANGED <<account, policy, linked, run, plan, settled>>
    BY <1>1 DEF SkipChange, Applying
  <2>2. report'.throttled = report.throttled
    BY <1>0, <2>1, ReportIsNumbers
  <2> QED BY <1>0, <2>1, <2>2, ForeseenSettle DEF Unfinished
<1>2. CASE RecheckFails(a)
  <2>1. /\ Applying /\ InHand(a) /\ Settle(a, "failed") /\ report' = [report EXCEPT !.failed = @ + 1]
        /\ UNCHANGED <<account, policy, linked, run, plan, settled>>
    BY <1>2 DEF RecheckFails, Fail, Attempted, Applying
  <2>2. report'.throttled = report.throttled
    BY <1>0, <2>1, ReportIsNumbers
  <2> QED BY <1>0, <2>1, <2>2, ForeseenSettle DEF Unfinished
<1>3. ASSUME NEW quotaKnown \in BOOLEAN, NEW usedKnown \in BOOLEAN,
             Recheck(a, quotaKnown, usedKnown)
      PROVE  Foreseen'
  <2>1. /\ pc = "apply" /\ Applying /\ InHand(a) /\ a \in todo
        /\ UNCHANGED <<account, policy, linked, run, plan, settled>>
    BY <1>3 DEF Recheck, Attempted, Applying, InHand
  <2>2. quotaKnown = TRUE /\ usedKnown = TRUE
    BY <1>3, <1>a DEF Recheck
  <2>3. CASE Refuse(a)
    <3>1. Settle(a, "refused") /\ report' = [report EXCEPT !.moved = @ + 1]
      BY <2>3 DEF Refuse
    <3>2. report'.throttled = report.throttled
      BY <1>0, <3>1, ReportIsNumbers
    <3> QED BY <1>0, <2>1, <3>1, <3>2, ForeseenSettle DEF Unfinished
  <2>4. CASE LeaveAlone(a) /\ Equal(Read(a, quotaKnown, usedKnown).quota, plan[a].to)
    <3>1. Settle(a, "none") /\ report' = report
      BY <2>4 DEF LeaveAlone
    <3>2. plan[a].class \in {Safe, Shrink}
      BY <2>1 DEF Inductive, TodoIsTrusted
    <3>3. a \in run.scope /\ ~Underway(a)
      BY <2>1, <3>2 DEF Foreseen, PlanIsDue, Planned, Underway, NoChange, Safe, Shrink
    <3>4. ~run.dryRun => FALSE
      <4>1. ~run.dryRun => plan[a] = Due(a)
        BY <2>1, <3>3 DEF Foreseen, DoneOrSaid
      <4> QED BY <2>2, <2>4, <3>2, <4>1, DueIsStillDue
    <3> QED BY <1>0, <2>1, <3>1, <3>4, ForeseenSettle
  <2>5. CASE run.dryRun /\ Announce(a)
    <3>1. Settle(a, "none") /\ report' = [report EXCEPT !.applied = @ + 1]
      BY <2>5 DEF Announce
    <3>2. report'.throttled = report.throttled
      BY <1>0, <3>1, ReportIsNumbers
    <3> QED BY <1>0, <2>1, <2>5, <3>1, <3>2, ForeseenSettle
  <2>6. CASE ~run.dryRun /\ HoldBack(a)
    <3>1. Settle(a, "skipped")
      BY <2>6 DEF HoldBack
    <3> QED BY <1>0, <2>1, <2>6, <3>1, ForeseenSettle DEF Unfinished
  <2>7. CASE ~run.dryRun /\ Proceed(a, Read(a, quotaKnown, usedKnown))
    <3>1. pc' = "write" /\ UNCHANGED <<outcome, todo, report>>
      BY <2>7 DEF Proceed
    <3>2. \A b : Due(b)' = Due(b)
      BY <2>1, DueStays
    <3>3. Applying' /\ Planned /\ Planned' /\ \A b : ~Underway(b) /\ ~Underway(b)'
      BY <2>1, <3>1 DEF Applying, Planned, Underway
    <3>4. ReadingsAreTrue' /\ DryRunsDoNot' /\ NothingIsDue'
      BY <2>1, <2>7, <3>1, <3>3 DEF Foreseen, ReadingsAreTrue, DryRunsDoNot, NothingIsDue
    <3>5. PlanIsDue'
      BY <2>1, <3>2, <3>3 DEF Foreseen, PlanIsDue
    <3>6. DoneOrSaid'
      BY <2>1, <3>1, <3>2, <3>3 DEF Foreseen, DoneOrSaid
    <3> QED BY <3>4, <3>5, <3>6 DEF Foreseen
  <2> QED BY <1>3, <2>3, <2>4, <2>5, <2>6, <2>7 DEF Recheck
<1>4. CASE WriteLands(a)
  <2>1. /\ pc = "write" /\ pc' = "record" /\ Write(a) /\ InHand(a) /\ a \in todo
        /\ UNCHANGED <<policy, linked, run, plan, settled, outcome, todo>>
    BY <1>4 DEF WriteLands, Write, InHand
  <2>2. /\ Applying /\ Applying' /\ Planned /\ Planned' /\ ~run.dryRun
        /\ (\A b : ~Underway(b)) /\ (\A b \in Pairs : Underway(b)' => b = a)
    BY <2>1, OneInHand DEF Applying, Planned, Underway, InHand, Foreseen, DryRunsDoNot
  <2>3. a \in run.scope /\ plan[a] = Due(a)
    <3>1. plan[a].class \in {Safe, Shrink}
      BY <2>1, <2>2 DEF Inductive, TodoIsTrusted
    <3>2. a \in run.scope
      BY <2>2, <3>1 DEF Foreseen, PlanIsDue, NoChange, Safe, Shrink
    <3> QED BY <2>1, <2>2, <3>2 DEF Foreseen, DoneOrSaid
  <2>4. Due(a)' = NoChange /\ \A b \in Pairs \ {a} : Due(b)' = Due(b)
    BY <2>1, <2>3, WrittenIsNotDue
  <2>5. run.scope \subseteq Pairs
    BY <1>0 DEF TypeOK, Runs
  <2>6. ReadingsAreTrue' /\ DryRunsDoNot' /\ NothingIsDue'
    BY <2>1, <2>2 DEF Foreseen, ReadingsAreTrue, DryRunsDoNot, NothingIsDue
  <2>7. \A b \in Pairs : account'[b].status = account[b].status
    BY <1>0, <2>1 DEF Write, TypeOK, Accounts
  <2>8. PlanIsDue'
    <3>1. \A b \in Pairs : account'[b].status = "enabled" => b \in linked'
      BY <2>1, <2>2, <2>7 DEF Foreseen, PlanIsDue
    <3>2. \A b \in Pairs \ run'.scope : plan'[b] = NoChange
      BY <2>1, <2>2 DEF Foreseen, PlanIsDue
    <3>3. ASSUME NEW b \in run.scope PROVE plan[b] = Due(b)' \/ Due(b)' = NoChange
      BY <2>2, <2>4, <2>5 DEF Foreseen, PlanIsDue
    <3> QED BY <2>1, <2>2, <3>1, <3>2, <3>3 DEF PlanIsDue
  <2>9. DoneOrSaid'
    <3> SUFFICES ASSUME NEW b \in run.scope
                 PROVE  /\ b \notin todo => Due(b)' = NoChange \/ outcome[b] \in Unfinished
                        /\ Underway(b)' => Due(b)' = NoChange
                        /\ b \in todo /\ ~Underway(b)' => plan[b] = Due(b)'
      BY <2>1 DEF DoneOrSaid
    <3>1. CASE b = a
      <4>1. Underway(a)'
        BY <2>1 DEF Underway, InHand
      <4> QED BY <2>1, <2>4, <3>1, <4>1
    <3>2. CASE b # a
      BY <2>2, <2>4, <2>5, <3>2 DEF Foreseen, DoneOrSaid
    <3> QED BY <3>1, <3>2
  <2> QED BY <2>6, <2>8, <2>9 DEF Foreseen
<1>5. CASE WriteAnswerLost(a) \/ WriteThrottled(a)
  BY <1>5, <1>a DEF WriteAnswerLost, WriteThrottled
<1>6. CASE WriteFails(a)
  <2>1. /\ Applying /\ InHand(a) /\ Settle(a, "failed") /\ report' = [report EXCEPT !.failed = @ + 1]
        /\ UNCHANGED <<account, policy, linked, run, plan, settled>>
    BY <1>6 DEF WriteFails, Fail, Applying
  <2>2. report'.throttled = report.throttled
    BY <1>0, <2>1, ReportIsNumbers
  <2> QED BY <1>0, <2>1, <2>2, ForeseenSettle DEF Unfinished
<1>7. CASE RecordApplied(a)
  <2>1. /\ pc = "record" /\ pc' = "refresh" /\ InHand(a) /\ a \in todo
        /\ outcome' = [outcome EXCEPT ![a] = "applied"]
        /\ UNCHANGED <<account, policy, linked, run, plan, settled, todo, report>>
    BY <1>7 DEF RecordApplied, InHand
  <2>2. \A b : Due(b)' = Due(b) /\ (Underway(b)' <=> Underway(b))
    BY <2>1, DueStays DEF Underway, InHand
  <2>3. Applying /\ Applying' /\ Planned /\ Planned'
    BY <2>1 DEF Applying, Planned
  <2>4. ReadingsAreTrue' /\ DryRunsDoNot' /\ NothingIsDue'
    BY <2>1, <2>3 DEF Foreseen, ReadingsAreTrue, DryRunsDoNot, NothingIsDue
  <2>5. PlanIsDue'
    BY <2>1, <2>2, <2>3 DEF Foreseen, PlanIsDue
  <2>6. DoneOrSaid'
    <3> SUFFICES ASSUME ~run.dryRun, NEW b \in run.scope
                 PROVE  /\ b \notin todo => Due(b) = NoChange \/ outcome'[b] \in Unfinished
                        /\ Underway(b) => Due(b) = NoChange
                        /\ b \in todo /\ ~Underway(b) => plan[b] = Due(b)
      BY <2>1, <2>2 DEF DoneOrSaid
    <3>1. b # a => outcome'[b] = outcome[b]
      BY <1>0, <2>1 DEF TypeOK, Runs
    <3> QED BY <2>1, <2>3, <3>1 DEF Foreseen, DoneOrSaid
  <2> QED BY <2>4, <2>5, <2>6 DEF Foreseen
<1>8. ASSUME pc = "refresh", InHand(a), Settle(a, "none"),
             UNCHANGED <<account, policy, linked, run, plan, settled, report>>
      PROVE  Foreseen'
  <2>1. Applying /\ Underway(a) /\ ~run.dryRun /\ a \in todo
    BY <1>8 DEF Applying, Underway, Foreseen, DryRunsDoNot, InHand
  <2>2. a \in run.scope
    <3>1. plan[a].class \in {Safe, Shrink}
      BY <2>1 DEF Inductive, TodoIsTrusted
    <3> QED BY <2>1, <3>1 DEF Foreseen, PlanIsDue, Planned, NoChange, Safe, Shrink
  <2>3. Due(a) = NoChange
    BY <2>1, <2>2 DEF Foreseen, DoneOrSaid
  <2> QED BY <1>0, <1>8, <2>1, <2>3, ForeseenSettle
<1>9. ASSUME NEW noQuota, NEW noUsed, RefreshRow(a, noQuota, noUsed) PROVE Foreseen'
  BY <1>8, <1>9 DEF RefreshRow
<1>10. CASE RefreshFails(a)
  BY <1>8, <1>10 DEF RefreshFails
<1>11. ~RowNotStored(a)
  BY <1>a DEF RowNotStored
<1> QED BY <1>1, <1>2, <1>3, <1>4, <1>5, <1>6, <1>7, <1>9, <1>10, <1>11 DEF Handle

\* A run that starts to apply has everything still to do but what it refuses.
LEMMA ForeseenStart == ASSUME Inductive, Foreseen, StartApply PROVE Foreseen'
<1> USE DEF provider, admin, engine, history
<1> DEFINE refused == OfClass(Blind) \cup (IF run.consent THEN {} ELSE OfClass(Shrink))
<1>0. TypeOK /\ run.scope \subseteq Pairs
  BY DEF Inductive, TypeOK, Runs
<1>1. /\ pc = "start" /\ pc' = "apply" /\ UNCHANGED <<account, policy, linked, run, plan, settled>>
      /\ outcome' = [a \in Pairs |-> IF a \in refused THEN "refused" ELSE "none"]
      /\ todo' = Applicable(plan, run.consent) /\ report'.throttled = FALSE
  BY DEF StartApply, NoReport
<1>2. \A b : Due(b)' = Due(b)
  BY <1>1, DueStays
<1>3. Planned /\ ~Applying /\ Applying' /\ Planned' /\ \A b : ~Underway(b)'
  BY <1>1 DEF Planned, Applying, Underway
<1>4. ReadingsAreTrue' /\ DryRunsDoNot' /\ NothingIsDue'
  BY <1>1 DEF Foreseen, ReadingsAreTrue, DryRunsDoNot, NothingIsDue
<1>5. \A a \in run.scope : plan[a] = Due(a)
  BY <1>3 DEF Foreseen, PlanIsDue
<1>6. PlanIsDue'
  BY <1>1, <1>2, <1>3, <1>5 DEF Foreseen, PlanIsDue
<1>7. ASSUME NEW b \in run.scope, b \notin todo' PROVE Due(b) = NoChange \/ outcome'[b] \in Unfinished
  <2>1. b \in Pairs /\ plan[b] = Due(b) /\ plan \in [Pairs -> Changes]
    BY <1>0, <1>5 DEF TypeOK
  <2>2. CASE b \in refused
    BY <1>1, <2>1, <2>2 DEF Unfinished
  <2>3. CASE b \notin refused
    <3>1. plan[b].class \notin Classes
      BY <1>1, <1>7, <2>1, <2>3 DEF Applicable, Changed, OfClass, Classes, Safe, Shrink, Blind
    <3> QED BY <2>1, <3>1, DueIsAChange
  <2> QED BY <2>2, <2>3
<1>8. DoneOrSaid'
  <2> HIDE DEF refused
  <2> QED BY <1>1, <1>2, <1>3, <1>5, <1>7 DEF DoneOrSaid
<1> QED BY <1>4, <1>6, <1>8 DEF Foreseen

\* A run over everybody that ends clean leaves nothing due.
LEMMA ForeseenFinish == ASSUME Inductive, HonestReport', Foreseen, Finish PROVE Foreseen'
<1>1. /\ pc = "apply" /\ pc' = "idle" /\ todo = {} /\ UNCHANGED <<account, policy, linked, outcome, run>>
      /\ status' = "clean" => ~run.dryRun
      /\ settled' = (status' = "clean" /\ run.scope = Pairs)
  BY DEF Finish, provider, admin, engine
<1>2. \A b : Due(b)' = Due(b)
  BY <1>1, DueStays
<1>3. ReadingsAreTrue' /\ PlanIsDue' /\ DoneOrSaid' /\ DryRunsDoNot'
  BY <1>1 DEF ReadingsAreTrue, PlanIsDue, DoneOrSaid, DryRunsDoNot, Planned, Applying
<1>4. ASSUME settled', NEW a \in Pairs PROVE Due(a) = NoChange
  <2>1. status' = "clean" /\ ~run.dryRun /\ a \in run.scope
    BY <1>1, <1>4
  <2>2. outcome[a] \notin Unfinished
    BY <1>1, <2>1 DEF HonestReport, WithResult, Unfinished
  <2> QED BY <1>1, <2>1, <2>2 DEF Foreseen, DoneOrSaid, Applying
<1>5. NothingIsDue'
  BY <1>1, <1>2, <1>4 DEF NothingIsDue
<1> QED BY <1>3, <1>5 DEF Foreseen

\* Every step keeps an undisturbed run foreseen.
LEMMA CalmNext == Inductive /\ HonestReport' /\ CalmInv /\ [Next]_vars => CalmInv'
<1> SUFFICES ASSUME Inductive, HonestReport', CalmInv, [Next]_vars PROVE CalmInv'
  OBVIOUS
<1> USE DEF provider, admin, engine, history
<1>0. TypeOK /\ left \in Nat /\ mark \in Nat
  BY DEF Inductive, TypeOK
<1>1. ASSUME mark' = mark, left' = left \/ Disturb, Calm /\ Foreseen /\ left' = left => Foreseen'
      PROVE  CalmInv'
  BY <1>0, <1>1, DisturbedStays DEF CalmInv
<1>2. CASE Environment \/ RefuseExpired \/ FinishUnrecorded \/ Interrupt
  <2>1. mark' = mark /\ Disturb
    BY <1>2 DEF Environment, UseStorage, OthersSetQuota, ChangeStatus, EditPolicy, Unlink,
                LinkByHand, RefuseExpired, FinishUnrecorded, Interrupt
  <2> QED BY <1>0, <1>1, <2>1 DEF Disturb
<1>3. CASE Trigger
  <2>1. /\ pc' = "observe" /\ failed' = {} /\ toObserve' = Providers /\ mark' = left'
        /\ UNCHANGED <<account, policy, linked>> /\ settled' = (settled /\ mark = left) /\ left' \in Nat
    BY <1>0, <1>3 DEF Trigger, BeginScheduled, BeginRefresh, BeginByOperator, Begin, Disturb
  <2>2. ReadingsAreTrue' /\ PlanIsDue' /\ DoneOrSaid' /\ DryRunsDoNot'
    BY <2>1 DEF ReadingsAreTrue, PlanIsDue, DoneOrSaid, DryRunsDoNot, Planned, Applying, Pairs
  <2>3. NothingIsDue'
    BY <2>1, DueStays DEF NothingIsDue, CalmInv, Calm, Foreseen
  <2> QED BY <2>1, <2>2, <2>3 DEF CalmInv, Foreseen
<1>4. ASSUME NEW p \in Providers, NEW noQuota, NEW noUsed, ObserveProvider(p, noQuota, noUsed)
      PROVE  CalmInv'
  <2>1. /\ pc = "observe" /\ pc' \in {"observe", "link"} /\ (pc' = "link" => toObserve' = {})
        /\ row' = [a \in Pairs |-> IF a[2] = p THEN RowOf(a, noQuota, noUsed) ELSE row[a]]
        /\ toObserve' = toObserve \ {p} /\ UNCHANGED <<account, policy, linked, failed, settled, mark>>
        /\ IF noQuota = {} /\ noUsed = {} THEN left' = left ELSE Disturb
    BY <1>4 DEF ObserveProvider, NextPhase
  <2>2. ASSUME Calm, Foreseen, left' = left PROVE Foreseen'
    <3>1. noQuota = {} /\ noUsed = {}
      BY <1>0, <2>1, <2>2 DEF Disturb
    <3>2. ReadingsAreTrue'
      <4> SUFFICES ASSUME NEW a \in Pairs, a[2] \notin toObserve' PROVE row'[a] = RowOf(a, {}, {})'
        BY <2>1, <2>2 DEF Foreseen, ReadingsAreTrue
      <4>1. RowOf(a, {}, {})' = RowOf(a, {}, {})
        BY <2>1 DEF RowOf
      <4>2. CASE a[2] = p
        BY <2>1, <3>1, <4>1, <4>2
      <4>3. CASE a[2] # p
        BY <2>1, <2>2, <4>1, <4>3 DEF Foreseen, ReadingsAreTrue
      <4> QED BY <4>2, <4>3
    <3>3. PlanIsDue' /\ DoneOrSaid' /\ DryRunsDoNot'
      BY <2>1 DEF PlanIsDue, DoneOrSaid, DryRunsDoNot, Planned, Applying
    <3>4. NothingIsDue'
      BY <2>1, <2>2, DueStays DEF NothingIsDue, Foreseen
    <3> QED BY <3>2, <3>3, <3>4 DEF Foreseen
  <2> QED BY <1>1, <2>1, <2>2
<1>5. ASSUME NEW p \in Providers, ObserveFails(p) PROVE CalmInv'
  <2>1. mark' = mark /\ Disturb
    BY <1>5 DEF ObserveFails
  <2> QED BY <1>0, <1>1, <2>1 DEF Disturb
<1>6. CASE LinkAccounts
  <2>1. /\ pc = "link" /\ pc' \in {"idle", "plan"}
        /\ UNCHANGED <<account, policy, row, failed, toObserve, settled, mark, left>>
    BY <1>6 DEF LinkAccounts
  <2>2. ASSUME Calm, Foreseen, left' = left PROVE Foreseen'
    <3>1. /\ \A a \in Pairs : Due(a)' = Due(a)
          /\ \A a \in Pairs : account[a].status = "enabled" => a \in linked'
      BY <1>6, <2>2, LinkingKeepsDue DEF Foreseen
    <3>2. ReadingsAreTrue'
      BY <2>1, <2>2 DEF Foreseen, ReadingsAreTrue, RowOf
    <3>3. PlanIsDue' /\ DoneOrSaid' /\ DryRunsDoNot'
      BY <2>1, <3>1 DEF PlanIsDue, DoneOrSaid, DryRunsDoNot, Planned, Applying
    <3>4. NothingIsDue'
      BY <2>1, <2>2, <3>1 DEF NothingIsDue, Foreseen
    <3> QED BY <3>2, <3>3, <3>4 DEF Foreseen
  <2> QED BY <1>1, <2>1, <2>2
<1>7. CASE MakePlan
  <2>1. /\ pc = "plan" /\ pc' = (IF Changed(plan') = {} THEN "idle" ELSE "start")
        /\ \A a \in Pairs : plan'[a] = ChangeFor(PlanAccount(a))
        /\ DOMAIN plan' = Pairs
        /\ UNCHANGED <<account, policy, linked, run, settled, mark, left>>
    BY <1>7, Zenon DEF MakePlan, BuildPlan
  <2>2. ASSUME Calm, Foreseen, left' = left PROVE Foreseen'
    <3>1. \A a \in Pairs : plan'[a] = IF a \in run.scope THEN Due(a) ELSE NoChange
      BY <2>1, <2>2, PlansWhatIsDue DEF Foreseen
    <3>2. /\ \A b : Due(b)' = Due(b)
          /\ run.scope \subseteq Pairs
      BY <1>0, <2>1, DueStays DEF TypeOK, Runs
    <3>3. ReadingsAreTrue' /\ DoneOrSaid' /\ DryRunsDoNot'
      BY <2>1 DEF ReadingsAreTrue, DoneOrSaid, DryRunsDoNot, Applying
    <3>4. PlanIsDue'
      <4>1. \A a \in Pairs : account[a].status = "enabled" => a \in linked
        BY <2>1, <2>2 DEF Foreseen, PlanIsDue
      <4>2. \A a \in run.scope : plan'[a] = Due(a)'
        BY <3>1, <3>2
      <4> QED BY <2>1, <3>1, <4>1, <4>2 DEF PlanIsDue
    <3>5. NothingIsDue'
      <4>1. settled => Changed(plan') = {}
        BY <2>1, <2>2, <3>1 DEF Foreseen, NothingIsDue, Changed, NoChange
      <4> QED BY <2>1, <2>2, <3>2, <4>1 DEF Foreseen, NothingIsDue
    <3> QED BY <3>3, <3>4, <3>5 DEF Foreseen
  <2> QED BY <1>1, <2>1, <2>2
<1>8. CASE StartApply
  <2>1. mark' = mark /\ left' = left
    BY <1>8 DEF StartApply
  <2> QED BY <1>1, <1>8, <2>1, ForeseenStart
<1>9. ASSUME NEW a \in Pairs, Handle(a) PROVE CalmInv'
  <2>1. mark' = mark /\ (left' = left \/ Disturb)
    BY <1>9 DEF Handle, SkipChange, RecheckFails, Recheck, WriteLands, WriteAnswerLost, WriteFails,
                WriteThrottled, RecordApplied, RefreshRow, RefreshFails, RowNotStored
  <2> QED BY <1>0, <1>1, <1>9, <2>1, ForeseenHandle
<1>10. CASE Finish
  <2>1. mark' = mark /\ left' = left
    BY <1>10 DEF Finish
  <2> QED BY <1>1, <1>10, <2>1, ForeseenFinish
<1>11. CASE UNCHANGED vars
  <2>1. Foreseen => Foreseen'
    BY <1>11 DEF vars, Foreseen, ReadingsAreTrue, PlanIsDue, DoneOrSaid, DryRunsDoNot, NothingIsDue,
                 Planned, Applying, Underway, InHand, Due, TrueAccount, RowOf
  <2> QED BY <1>1, <1>11, <2>1 DEF vars
<1> QED
  BY <1>2, <1>3, <1>4, <1>5, <1>6, <1>7, <1>8, <1>9, <1>10, <1>11 DEF Next, Engine, Observing

\* Applying and planning again yields an empty plan: a run that follows a clean
\* run over everybody, with nothing disturbed in between, opens no run and
\* writes nothing, whatever providers make of the values they are sent
\* (Engine.Run, core.BuildPlan; ADR-0021).
THEOREM ASecondRunFindsNothing == Spec => []PlanAgainIsEmpty
<1>1. Init => CalmInv
  BY BoundAssumption DEF BoundAssumption, Init, CalmInv, Calm, Foreseen, ReadingsAreTrue, PlanIsDue,
     DoneOrSaid, DryRunsDoNot, NothingIsDue, Planned, Applying
<1>2. CalmInv => PlanAgainIsEmpty
  BY DEF CalmInv, Calm, Foreseen, NothingIsDue, PlanAgainIsEmpty
<1> QED BY <1>1, <1>2, CalmNext, InductiveHolds, ReportsAreHonest, PTL DEF Spec

\* What a clean run says of the accounts themselves, and what an undisturbed one
\* that was not clean says: whoever has a ceiling, and an account to put it on,
\* is at the value the provider keeps for it, or an entry of the run names her.
Owed(a) == /\ account[a].status # "gone" /\ policy[a].present
           /\ a \in linked \/ account[a].status = "enabled"

AtAim(a) == account[a].quota = Aim(a)

CleanMeansDone == settled /\ mark = left => \A a \in Pairs : Owed(a) => AtAim(a)

NobodyLeftOut ==
  pc = "apply" /\ todo = {} /\ ~run.dryRun /\ mark = left =>
    \A a \in run.scope : Owed(a) => AtAim(a) \/ outcome[a] \in Unfinished

LEMMA NotDueIsAtAim ==
  ASSUME TypeOK, NEW a \in Pairs, Owed(a), Due(a) = NoChange
  PROVE  AtAim(a)
<1>1. TrueAccount(a).present /\ TrueAccount(a).desired = Aim(a) /\ TrueAccount(a).observed = account[a].quota
  BY DEF Owed, TrueAccount, Aim
<1>2. ~NeedsChange(TrueAccount(a))
  BY DueIsAChange, <1>1 DEF Due, ChangeFor, NoChange, Classify, Safe, Shrink, Blind
<1>3. Equal(Aim(a), account[a].quota) /\ IsKnown(Aim(a)) /\ IsKnown(account[a].quota)
  BY <1>1, <1>2 DEF NeedsChange, Classify, Readable, Safe, Shrink, Blind
<1>4. policy[a] \in Decisions /\ account[a] \in Accounts /\ a[2] \in Providers
  BY DEF TypeOK, Pairs
<1>5. policy[a].ceiling \in QuotasOver(Sizes) /\ account[a].quota \in QuotasOver(Sizes)
  <2>1. policy[a].ceiling \in Ceilings
    <3>1. policy[a].present /\ ~Unallocated.present
      BY DEF Owed, Unallocated
    <3>2. policy[a] \in [present : {TRUE}, ceiling : Ceilings]
      BY <1>4, <3>1 DEF Decisions
    <3> QED BY <3>2
  <2>2. account[a].quota \in Ceilings
    BY <1>4 DEF Accounts
  <2> QED BY <2>1, <2>2, QuotaTypes
<1>6. Aim(a) \in QuotasOver(Sizes)
  BY <1>4, <1>5, NormalForm DEF Aim
<1>7. ASSUME NEW q \in QuotasOver(Sizes), NEW r \in QuotasOver(Sizes), Equal(q, r), IsKnown(q), IsKnown(r)
      PROVE  q = r
  <2>1. q = Unlimited \/ (IsBytes(q) /\ q = BytesQuota(q.bytes))
    BY <1>7, ShapeOfQuotas
  <2>2. r = Unlimited \/ (IsBytes(r) /\ r = BytesQuota(r.bytes))
    BY <1>7, ShapeOfQuotas
  <2> QED BY <1>7, <2>1, <2>2 DEF Equal, IsBytes, Unlimited
<1> QED BY <1>3, <1>5, <1>6, <1>7 DEF AtAim

\* A clean, unfiltered run leaves everybody at her ceiling until something is
\* disturbed; one that was not clean names in its log whom it could not bring
\* there (Apply, internal/reconcile/apply.go).
THEOREM CleanRunsConverge == Spec => [](CleanMeansDone /\ NobodyLeftOut)
<1>1. Init => CalmInv
  BY BoundAssumption DEF BoundAssumption, Init, CalmInv, Calm, Foreseen, ReadingsAreTrue, PlanIsDue,
     DoneOrSaid, DryRunsDoNot, NothingIsDue, Planned, Applying
<1>2. Inductive /\ CalmInv => CleanMeansDone
  BY NotDueIsAtAim DEF Inductive, CalmInv, Calm, Foreseen, NothingIsDue, CleanMeansDone
<1>3. Inductive /\ CalmInv => NobodyLeftOut
  <2> SUFFICES ASSUME Inductive, CalmInv, pc = "apply", todo = {}, ~run.dryRun, mark = left,
                      NEW a \in run.scope, Owed(a)
               PROVE  AtAim(a) \/ outcome[a] \in Unfinished
    BY DEF NobodyLeftOut
  <2>1. Due(a) = NoChange \/ outcome[a] \in Unfinished
    BY DEF CalmInv, Calm, Foreseen, DoneOrSaid, Applying
  <2>2. a \in Pairs /\ TypeOK
    BY DEF Inductive, TypeOK, Runs
  <2> QED BY <2>1, <2>2, NotDueIsAtAim
<1> QED BY <1>1, <1>2, <1>3, CalmNext, InductiveHolds, ReportsAreHonest, PTL DEF Spec
-----------------------------------------------------------------------------
(***************************************************************************)
(* Foretelling.  A run without consent makes the safe changes of a         *)
(* provider in order, up to the first account that may not be written; a   *)
(* dry run counts as many, and the accounts say beforehand how many those  *)
(* are.                                                                    *)
(***************************************************************************)
SafeOnes == OfClass(Safe)

Reached(safe) ==
  {a \in safe : /\ a[2] \notin Degraded
                /\ \A b \in safe : b[2] = a[2] /\ (b = a \/ Before(b, a)) => account[b].status = "enabled"}

Forecast == Cardinality(Reached({a \in Pairs : Due(a).class = Safe}))

\* How far the run has come.
Handled == {a \in SafeOnes : a \notin todo \/ Underway(a)}
Made    == Cardinality(Reached(SafeOnes) \cap Handled)

Halted(p) == p \notin Degraded /\ \E b \in SafeOnes \ todo : b[2] = p /\ account[b].status # "enabled"

InOrder == \A b \in SafeOnes \ todo, c \in todo : Before(b, c)
Counted == IF report.throttled THEN report.applied <= Made ELSE report.applied = Made
Stops   == /\ \A p \in Providers : Halted(p) => p \in stopped
           /\ ~report.throttled => \A p \in stopped : Halted(p)
InReach == pc # "apply" => \A a \in todo : InHand(a) => a \in Reached(SafeOnes)

Progress == Applying /\ ~run.consent => InOrder /\ Counted /\ Stops /\ InReach

\* What the last dry run announced is what is due, and then what is planned.
AnnouncedIsDue ==
  announced # Nothing =>
    /\ pc \in {"idle", "observe", "link", "plan"} => announced = Forecast
    /\ Planned /\ run.actor = "schedule" => announced = Cardinality(Reached(SafeOnes))

ScheduleIsPlain == run.actor = "schedule" => ~run.dryRun /\ ~run.consent /\ run.scope = Pairs

ForecastInv == ScheduleIsPlain /\ (Calm => Progress /\ AnnouncedIsDue)

\* What can be reached can be counted, and it does not change while accounts
\* keep their status.
LEMMA ReachedIsFinite ==
  ASSUME NEW safe \in SUBSET Pairs
  PROVE  IsFiniteSet(Reached(safe)) /\ Cardinality(Reached(safe)) \in Nat
<1>1. IsFiniteSet(Pairs)
  BY OrderAssumption, FS_Product DEF OrderAssumption, Pairs
<1>2. Reached(safe) \subseteq Pairs
  BY DEF Reached
<1> QED BY <1>1, <1>2, FS_Subset, FS_CardinalityType

\* The same accounts are reached while none changes its status.
LEMMA ReachedStays ==
  ASSUME NEW safe \in SUBSET Pairs, \A a \in Pairs : account'[a].status = account[a].status
  PROVE  Reached(safe)' = Reached(safe)
<1>1. ASSUME NEW a \in safe
      PROVE  a \in Reached(safe)' <=> a \in Reached(safe)
  BY DEF Reached
<1> QED BY <1>1 DEF Reached

\* So the forecast stands while what is due does.
LEMMA ForecastStays ==
  ASSUME UNCHANGED account, \A a \in Pairs : Due(a)' = Due(a)
  PROVE  Forecast' = Forecast
<1> DEFINE safe == {a \in Pairs : Due(a).class = Safe}
<1>1. safe' = safe
  OBVIOUS
<1>2. Forecast = Cardinality(Reached(safe))
  BY DEF Forecast
<1>3. Reached(safe)' = Reached(safe)
  BY <1>1 DEF Reached
<1> QED BY <1>2, <1>3 DEF Forecast

\* One more is handled: it counts if it was within reach.
LEMMA OneMoreMade ==
  ASSUME NEW a \in SafeOnes, a \notin Handled, Handled' = Handled \cup {a},
         Reached(SafeOnes)' = Reached(SafeOnes)
  PROVE  /\ Made \in Nat
         /\ Made' = IF a \in Reached(SafeOnes) THEN Made + 1 ELSE Made
<1> DEFINE made == Reached(SafeOnes) \cap Handled
<1>1. IsFiniteSet(made)
  BY ReachedIsFinite, FS_Subset DEF SafeOnes, OfClass
<1>2. made' = IF a \in Reached(SafeOnes) THEN made \cup {a} ELSE made
  OBVIOUS
<1>3. Made = Cardinality(made) /\ Made' = Cardinality(made')
  BY DEF Made
<1> HIDE DEF made
<1>4. a \notin made
  BY DEF made
<1> QED BY <1>1, <1>2, <1>3, <1>4, FS_AddElement, FS_CardinalityType

\* Without consent everything to do is safe.
LEMMA TodoIsSafe ==
  ASSUME Inductive, Applying, ~run.consent, NEW a \in todo
  PROVE  a \in SafeOnes
BY DEF Inductive, TodoIsTrusted, TypeOK, SafeOnes, OfClass

\* Taking the change in hand out of the rest.
LEMMA OneLess ==
  ASSUME Inductive, Applying, ~run.consent, Progress, NEW a \in Pairs, InHand(a),
         todo' = todo \ {a}, pc' = "apply", plan' = plan,
         \A b \in Pairs : account'[b].status = account[b].status
  PROVE  /\ a \in SafeOnes /\ SafeOnes' = SafeOnes
         /\ Reached(SafeOnes)' = Reached(SafeOnes)
         /\ Handled' = Handled \cup {a}
         /\ InOrder'
         /\ \A p : Halted(p)' <=> Halted(p) \/ (p = a[2] /\ p \notin Degraded /\ account[a].status # "enabled")
<1>1. a \in todo /\ a \in SafeOnes
  BY TodoIsSafe DEF InHand
<1>2. SafeOnes' = SafeOnes /\ SafeOnes \in SUBSET Pairs
  BY DEF SafeOnes, OfClass
<1>3. Reached(SafeOnes)' = Reached(SafeOnes)
  BY <1>2, ReachedStays DEF Reached
<1>4. \A b \in SafeOnes : Underway(b) => b = a
  BY <1>2, OneInHand DEF Underway
<1>5. Handled' = Handled \cup {a}
  BY <1>1, <1>2, <1>4 DEF Handled, Underway
<1>6. InOrder'
  <2> SUFFICES ASSUME NEW b \in SafeOnes \ (todo \ {a}), NEW c \in todo \ {a} PROVE Before(b, c)
    BY <1>2 DEF InOrder
  <2>1. CASE b = a
    BY <2>1 DEF InHand
  <2>2. CASE b # a
    BY <2>2 DEF Progress, InOrder
  <2> QED BY <2>1, <2>2
<1>7. ASSUME NEW p
      PROVE  Halted(p)' <=> Halted(p) \/ (p = a[2] /\ p \notin Degraded /\ account[a].status # "enabled")
  <2>1. \A b \in SafeOnes : account'[b].status = account[b].status
    BY <1>2
  <2>2. SafeOnes \ todo' = (SafeOnes \ todo) \cup {a}
    BY <1>1
  <2> QED BY <1>1, <1>2, <2>1, <2>2 DEF Halted
<1> QED BY <1>1, <1>2, <1>3, <1>5, <1>6, <1>7

\* A change is attempted when it can be reached, and, while no limit is met,
\* only then.
LEMMA AttemptedIsReached ==
  ASSUME Inductive, Applying, ~run.consent, Progress, NEW a \in Pairs, InHand(a)
  PROVE  /\ a[2] \notin stopped \cup Degraded /\ account[a].status = "enabled" => a \in Reached(SafeOnes)
         /\ a[2] \in stopped \cup Degraded /\ ~report.throttled => a \notin Reached(SafeOnes)
<1>1. a \in todo /\ a \in SafeOnes /\ SafeOnes \subseteq Pairs /\ a[2] \in Providers
  BY TodoIsSafe DEF InHand, SafeOnes, OfClass, Pairs
<1>2. ASSUME a[2] \notin stopped \cup Degraded, account[a].status = "enabled"
      PROVE  a \in Reached(SafeOnes)
  <2>1. ~Halted(a[2])
    BY <1>1, <1>2 DEF Progress, Stops
  <2>2. ASSUME NEW b \in SafeOnes, b[2] = a[2], b = a \/ Before(b, a)
        PROVE  account[b].status = "enabled"
    <3>1. CASE b = a
      BY <1>2, <3>1
    <3>2. CASE b # a
      <4>1. Before(b, a) /\ b \in Pairs
        BY <1>1, <2>2, <3>2
      <4>2. b \notin todo
        BY <3>2, <4>1, OrderOfPairs DEF InHand
      <4> QED BY <1>2, <2>1, <2>2, <4>2 DEF Halted
    <3> QED BY <3>1, <3>2
  <2> QED BY <1>1, <1>2, <2>2 DEF Reached
<1>3. ASSUME a[2] \in stopped \cup Degraded, ~report.throttled, a \in Reached(SafeOnes)
      PROVE  FALSE
  <2>1. a[2] \notin Degraded /\ Halted(a[2])
    BY <1>3 DEF Reached, Progress, Stops
  <2>2. PICK b \in SafeOnes \ todo : b[2] = a[2] /\ account[b].status # "enabled"
    BY <2>1 DEF Halted
  <2>3. Before(b, a)
    BY <1>1 DEF Progress, InOrder
  <2> QED BY <1>3, <2>2, <2>3 DEF Reached
<1> QED BY <1>2, <1>3

\* A change put aside that was not within reach leaves the count as it is; one
\* that was held back leaves it short.
LEMMA ProgressSettle ==
  ASSUME Inductive, Progress, ~run.consent, pc = "apply", NEW a \in Pairs, InHand(a),
         NEW result, Settle(a, result), UNCHANGED <<account, run, plan>>,
         report'.applied = report.applied, report.throttled => report'.throttled,
         report'.throttled \in BOOLEAN,
         a \in Reached(SafeOnes) => report'.throttled,
         \/ stopped' = stopped /\ a[2] \in stopped \cup Degraded
         \/ stopped' = stopped \cup {a[2]} /\ report'.throttled
         \/ stopped' = stopped \cup {a[2]} /\ account[a].status # "enabled" /\ a[2] \notin Degraded
  PROVE  Progress'
<1>0. Applying /\ TypeOK /\ a \in todo /\ a[2] \in Providers
  BY DEF Applying, Inductive, InHand, Pairs
<1>1. todo' = todo \ {a} /\ pc' = "apply" /\ a \notin Handled
  BY <1>0 DEF Settle, Handled, Underway
<1>2. /\ a \in SafeOnes /\ Reached(SafeOnes)' = Reached(SafeOnes)
      /\ Handled' = Handled \cup {a} /\ InOrder'
      /\ \A p : Halted(p)' <=> Halted(p) \/ (p = a[2] /\ p \notin Degraded /\ account[a].status # "enabled")
  BY <1>0, <1>1, OneLess
<1>3. Made \in Nat /\ Made' = IF a \in Reached(SafeOnes) THEN Made + 1 ELSE Made
  BY <1>1, <1>2, OneMoreMade
<1>4. report.applied \in Nat /\ Counted /\ Stops
  BY <1>0, ReportIsNumbers DEF Progress
<1>5. Counted'
  <2>1. CASE report'.throttled
    <3>1. report.applied <= Made
      BY <1>3, <1>4 DEF Counted
    <3> QED BY <1>3, <1>4, <2>1, <3>1 DEF Counted
  <2>2. CASE ~report'.throttled
    BY <1>3, <1>4, <2>2 DEF Counted
  <2> QED BY <2>1, <2>2
<1>6. \A p \in Providers : Halted(p)' => p \in stopped'
  BY <1>0, <1>2, <1>4 DEF Stops
<1>7. ASSUME ~report'.throttled, NEW p \in stopped' PROVE Halted(p)'
  BY <1>2, <1>4, <1>7 DEF Stops
<1> QED BY <1>1, <1>2, <1>5, <1>6, <1>7 DEF Progress, Stops, InReach

\* The write in hand is made, or announced: one more of those within reach.
LEMMA ProgressMade ==
  ASSUME Inductive, Progress, ~run.consent, NEW a \in Pairs, InHand(a), a \in Reached(SafeOnes),
         UNCHANGED <<run, plan, stopped>>,
         \A b \in Pairs : account'[b].status = account[b].status,
         report' = [report EXCEPT !.applied = @ + 1],
         \/ pc = "apply" /\ pc' = "apply" /\ todo' = todo \ {a}
         \/ pc = "write" /\ pc' = "record" /\ todo' = todo
  PROVE  Progress'
<1>0. /\ Applying /\ TypeOK /\ a \in todo /\ a \in SafeOnes /\ account[a].status = "enabled"
      /\ SafeOnes \subseteq Pairs
  BY TodoIsSafe DEF Applying, Inductive, InHand, Reached, SafeOnes, OfClass
<1>1. /\ report'.applied = report.applied + 1 /\ report'.throttled = report.throttled
      /\ report.applied \in Nat /\ Counted /\ Stops /\ InOrder
  BY <1>0, ReportIsNumbers DEF Progress
<1>2. a \notin Handled
  BY <1>0 DEF Handled, Underway
<1>3. /\ SafeOnes' = SafeOnes /\ Reached(SafeOnes)' = Reached(SafeOnes)
      /\ Handled' = Handled \cup {a} /\ InOrder' /\ \A p : Halted(p)' <=> Halted(p)
  <2>1. CASE pc' = "apply"
    BY <1>0, <2>1, OneLess
  <2>2. CASE pc' = "record"
    <3>1. SafeOnes' = SafeOnes
      BY DEF SafeOnes, OfClass
    <3>2. Reached(SafeOnes)' = Reached(SafeOnes)
      BY <1>0, <3>1, ReachedStays DEF Reached
    <3>3. Handled' = Handled \cup {a}
      <4>1. \A b \in SafeOnes : Underway(b)' <=> b = a
        BY <1>0, <2>2, OneInHand DEF Underway, InHand
      <4> QED BY <1>0, <2>2, <3>1, <4>1 DEF Handled, Underway
    <3>4. InOrder' /\ \A p : Halted(p)' <=> Halted(p)
      BY <1>0, <1>1, <2>2, <3>1 DEF InOrder, Halted
    <3> QED BY <3>1, <3>2, <3>3, <3>4
  <2> QED BY <2>1, <2>2
<1>4. Made \in Nat /\ Made' = Made + 1
  BY <1>0, <1>2, <1>3, OneMoreMade
<1>5. Counted'
  BY <1>1, <1>4 DEF Counted
<1>6. Stops'
  BY <1>1, <1>3 DEF Stops
<1>7. InReach'
  <2> SUFFICES ASSUME pc' = "record", NEW b \in todo, InHand(b)' PROVE b \in Reached(SafeOnes)
    BY <1>3 DEF InReach
  <2>1. todo' = todo /\ InHand(b) /\ b \in Pairs
    BY <1>0 DEF InHand, TypeOK
  <2> QED BY <2>1, OneInHand
<1> QED BY <1>3, <1>5, <1>6, <1>7 DEF Progress

\* One change of an undisturbed run.
LEMMA ProgressHandle ==
  ASSUME Inductive, Foreseen, Progress, NEW a \in Pairs, Handle(a), left' = left, left \in Nat
  PROVE  Progress'
<1> USE DEF provider, admin, engine, history
<1>0. TypeOK /\ ~Disturb
  BY DEF Inductive, Disturb
<1>1. Applying /\ InHand(a) /\ a \in todo /\ UNCHANGED <<run, plan>>
  BY DEF Handle, SkipChange, RecheckFails, Recheck, WriteLands, WriteAnswerLost, WriteFails,
         WriteThrottled, RecordApplied, RefreshRow, RefreshFails, RowNotStored, Attempted, Applying,
         InHand, Write
<1> SUFFICES ASSUME ~run.consent PROVE Progress'
  BY <1>1 DEF Progress
<1>2. CASE SkipChange(a)
  <2>1. /\ pc = "apply" /\ Settle(a, "skipped") /\ report' = [report EXCEPT !.skipped = @ + 1]
        /\ a[2] \in stopped \cup Degraded /\ UNCHANGED <<account, stopped>>
    BY <1>2 DEF SkipChange
  <2>2. report'.applied = report.applied /\ report'.throttled = report.throttled
        /\ report.throttled \in BOOLEAN
    BY <1>0, <2>1, ReportIsNumbers
  <2>3. a \in Reached(SafeOnes) => report'.throttled
    BY <1>1, <2>1, <2>2, AttemptedIsReached
  <2> QED BY <1>1, <2>1, <2>2, <2>3, ProgressSettle
<1>3. CASE RecheckFails(a)
  <2>1. /\ pc = "apply" /\ Settle(a, "failed") /\ report' = [report EXCEPT !.failed = @ + 1]
        /\ a[2] \notin stopped \cup Degraded /\ stopped' = stopped \cup {a[2]}
        /\ account[a].status # "enabled" /\ UNCHANGED account
    BY <1>0, <1>3 DEF RecheckFails, Attempted, Fail
  <2>2. report'.applied = report.applied /\ report'.throttled = report.throttled
        /\ report.throttled \in BOOLEAN
    BY <1>0, <2>1, ReportIsNumbers
  <2>3. a \notin Reached(SafeOnes)
    BY <2>1 DEF Reached
  <2> QED BY <1>1, <2>1, <2>2, <2>3, ProgressSettle
<1>4. ASSUME NEW quotaKnown \in BOOLEAN, NEW usedKnown \in BOOLEAN,
             Recheck(a, quotaKnown, usedKnown)
      PROVE  Progress'
  <2>1. /\ pc = "apply" /\ account[a].status = "enabled" /\ a[2] \notin stopped \cup Degraded
        /\ UNCHANGED account /\ quotaKnown = TRUE /\ usedKnown = TRUE
    BY <1>0, <1>4 DEF Recheck, Attempted
  <2>2. a \in Reached(SafeOnes)
    BY <1>1, <2>1, AttemptedIsReached
  <2>3. plan[a] = Due(a) /\ plan[a].class = Safe
    <3>1. plan[a].class = Safe
      BY <1>1, TodoIsSafe DEF SafeOnes, OfClass
    <3>2. a \in run.scope /\ ~Underway(a)
      BY <1>1, <2>1, <3>1 DEF Foreseen, PlanIsDue, Planned, Underway, NoChange, Safe
    <3> QED BY <1>1, <3>1, <3>2 DEF Foreseen, PlanIsDue, DoneOrSaid, Planned
  <2>4. /\ RecheckClass(a, Read(a, quotaKnown, usedKnown)) = plan[a].class
        /\ ~Equal(Read(a, quotaKnown, usedKnown).quota, plan[a].to)
    BY <2>1, <2>3, DueIsStillDue
  <2>5. CASE Announce(a)
    <3>1. /\ todo' = todo \ {a} /\ pc' = "apply" /\ stopped' = stopped
          /\ report' = [report EXCEPT !.applied = @ + 1]
      BY <2>5 DEF Announce, Settle
    <3> QED BY <1>1, <2>1, <2>2, <3>1, ProgressMade
  <2>6. CASE HoldBack(a)
    <3>1. /\ Settle(a, "skipped") /\ stopped' = stopped \cup {a[2]}
          /\ report' = [report EXCEPT !.throttled = TRUE]
      BY <2>6 DEF HoldBack
    <3>2. report'.applied = report.applied /\ report'.throttled = TRUE
      BY <1>0, <3>1, ReportIsNumbers
    <3> QED BY <1>1, <2>1, <3>1, <3>2, ProgressSettle
  <2>7. CASE Proceed(a, Read(a, quotaKnown, usedKnown))
    <3>1. pc' = "write" /\ UNCHANGED <<outcome, todo, stopped, report>>
      BY <2>7 DEF Proceed
    <3>2. /\ SafeOnes' = SafeOnes /\ Reached(SafeOnes)' = Reached(SafeOnes) /\ Handled' = Handled
          /\ \A p : Halted(p)' <=> Halted(p)
      BY <1>1, <2>1, <3>1 DEF SafeOnes, OfClass, Reached, Handled, Underway, Halted
    <3>3. InOrder' /\ Counted' /\ Stops'
      BY <1>1, <3>1, <3>2 DEF Progress, InOrder, Counted, Made, Stops
    <3>4. InReach'
      <4> SUFFICES ASSUME NEW b \in todo, InHand(b) PROVE b \in Reached(SafeOnes)
        BY <3>1, <3>2 DEF InReach, InHand
      <4>1. b \in Pairs
        BY <1>0 DEF TypeOK
      <4> QED BY <1>1, <2>2, <4>1, OneInHand
    <3> QED BY <3>3, <3>4 DEF Progress
  <2> QED BY <1>4, <2>4, <2>5, <2>6, <2>7 DEF Recheck
<1>5. CASE WriteLands(a)
  <2>1. /\ pc = "write" /\ pc' = "record" /\ UNCHANGED <<todo, stopped>>
        /\ report' = [report EXCEPT !.applied = @ + 1]
    BY <1>5 DEF WriteLands, Write
  <2>2. \A b \in Pairs : account'[b].status = account[b].status
    BY <1>0, <1>5 DEF WriteLands, Write, TypeOK, Accounts
  <2>3. a \in Reached(SafeOnes)
    BY <1>1, <2>1 DEF Progress, InReach
  <2> QED BY <1>1, <2>1, <2>2, <2>3, ProgressMade
<1>6. CASE WriteAnswerLost(a) \/ WriteThrottled(a)
  BY <1>0, <1>6 DEF WriteAnswerLost, WriteThrottled
<1>7. CASE WriteFails(a)
  <2>1. pc = "write" /\ account[a].status = "gone"
    BY <1>0, <1>7 DEF WriteFails
  <2>2. a \in Reached(SafeOnes)
    BY <1>1, <2>1 DEF Progress, InReach
  <2> QED BY <2>1, <2>2 DEF Reached
<1>8. CASE RecordApplied(a)
  <2>1. pc = "record" /\ pc' = "refresh" /\ UNCHANGED <<account, todo, stopped, report>>
    BY <1>8 DEF RecordApplied
  <2>2. /\ SafeOnes' = SafeOnes /\ Reached(SafeOnes)' = Reached(SafeOnes) /\ Handled' = Handled
        /\ \A p : Halted(p)' <=> Halted(p)
    BY <1>1, <2>1 DEF SafeOnes, OfClass, Reached, Handled, Underway, InHand, Halted
  <2> QED BY <1>1, <2>1, <2>2 DEF Progress, InOrder, Counted, Made, Stops, InReach, InHand
<1>9. ASSUME pc = "refresh", Settle(a, "none"), UNCHANGED <<account, stopped, report>>
      PROVE  Progress'
  <2>1. todo' = todo \ {a} /\ pc' = "apply"
    BY <1>9 DEF Settle
  <2>2. /\ a \in SafeOnes /\ SafeOnes' = SafeOnes /\ Reached(SafeOnes)' = Reached(SafeOnes)
        /\ Handled' = Handled \cup {a} /\ InOrder'
        /\ \A p : Halted(p)' <=> Halted(p) \/ (p = a[2] /\ p \notin Degraded /\ account[a].status # "enabled")
    BY <1>1, <1>9, <2>1, OneLess
  <2>3. Handled' = Handled
    BY <1>1, <1>9, <2>2 DEF Handled, Underway
  <2>4. account[a].status = "enabled"
    BY <1>1, <1>9 DEF Progress, InReach, Reached
  <2>5. Counted' /\ Stops'
    BY <1>1, <1>9, <2>2, <2>3, <2>4 DEF Progress, Counted, Made, Stops
  <2> QED BY <2>1, <2>2, <2>5 DEF Progress, InReach
<1>10. ASSUME NEW noQuota, NEW noUsed, RefreshRow(a, noQuota, noUsed) PROVE Progress'
  BY <1>9, <1>10 DEF RefreshRow
<1>11. CASE RefreshFails(a) \/ RowNotStored(a)
  BY <1>9, <1>11 DEF RefreshFails, RowNotStored
<1> QED BY <1>2, <1>3, <1>4, <1>5, <1>6, <1>7, <1>8, <1>10, <1>11 DEF Handle

\* Every step keeps the forecast, and the announcement that was made of it.
LEMMA ForecastNext ==
  Inductive /\ CalmInv /\ ForecastInv /\ [Next]_vars => ForecastInv'
<1> SUFFICES ASSUME Inductive, CalmInv, ForecastInv, [Next]_vars PROVE ForecastInv'
  OBVIOUS
<1> USE DEF provider, admin, engine, history
<1>0. TypeOK /\ left \in Nat /\ mark \in Nat
  BY DEF Inductive, TypeOK
<1>1. ASSUME mark' = mark, left' = left \/ Disturb, run' = run,
             Calm /\ Foreseen /\ Progress /\ AnnouncedIsDue /\ left' = left
               => Progress' /\ AnnouncedIsDue'
      PROVE  ForecastInv'
  BY <1>0, <1>1, DisturbedStays DEF ForecastInv, CalmInv, ScheduleIsPlain
<1>2. CASE Environment \/ RefuseExpired \/ FinishUnrecorded \/ Interrupt
  <2>1. mark' = mark /\ Disturb /\ run' = run
    BY <1>2 DEF Environment, UseStorage, OthersSetQuota, ChangeStatus, EditPolicy, Unlink,
                LinkByHand, RefuseExpired, FinishUnrecorded, Interrupt
  <2> QED BY <1>0, <1>1, <2>1 DEF Disturb
<1>3. CASE Trigger
  <2>1. /\ pc = "idle" /\ pc' = "observe" /\ UNCHANGED <<account, policy, linked>>
        /\ announced' = IF mark = left THEN announced ELSE Nothing
        /\ ScheduleIsPlain'
    BY <1>3 DEF Trigger, BeginScheduled, BeginRefresh, BeginByOperator, Begin, ScheduleIsPlain
  <2>2. Forecast' = Forecast
    BY <2>1, DueStays, ForecastStays
  <2>3. Progress' /\ AnnouncedIsDue'
    BY <2>1, <2>2 DEF Progress, Applying, AnnouncedIsDue, Planned, ForecastInv, Calm
  <2> QED BY <2>1, <2>3 DEF ForecastInv
<1>4. CASE Observing
  <2>1. /\ pc = "observe" /\ pc' \in {"observe", "link"} /\ mark' = mark /\ (left' = left \/ Disturb)
        /\ UNCHANGED <<account, policy, linked, run, announced>>
    BY <1>4 DEF Observing, ObserveProvider, ObserveFails, NextPhase
  <2>2. Forecast' = Forecast
    BY <2>1, DueStays, ForecastStays
  <2>3. AnnouncedIsDue => Progress' /\ AnnouncedIsDue'
    BY <2>1, <2>2 DEF Progress, Applying, AnnouncedIsDue, Planned
  <2> QED BY <1>1, <2>1, <2>3
<1>5. CASE LinkAccounts
  <2>1. /\ pc = "link" /\ pc' \in {"idle", "plan"} /\ UNCHANGED <<account, run, announced, mark, left>>
    BY <1>5 DEF LinkAccounts
  <2>2. ASSUME Foreseen, AnnouncedIsDue PROVE Progress' /\ AnnouncedIsDue'
    <3>1. Forecast' = Forecast
      BY <1>5, <2>1, <2>2, LinkingKeepsDue, ForecastStays DEF Foreseen
    <3> QED BY <2>1, <2>2, <3>1 DEF Progress, Applying, AnnouncedIsDue, Planned
  <2> QED BY <1>1, <2>1, <2>2
<1>6. CASE MakePlan
  <2>1. /\ pc = "plan" /\ pc' \in {"idle", "start"} /\ DOMAIN plan' = Pairs
        /\ \A a \in Pairs : plan'[a] = ChangeFor(PlanAccount(a))
        /\ UNCHANGED <<account, policy, linked, run, announced, mark, left>>
    BY <1>6, Zenon DEF MakePlan, BuildPlan
  <2>2. ASSUME Foreseen, AnnouncedIsDue PROVE Progress' /\ AnnouncedIsDue'
    <3>1. Forecast' = Forecast
      BY <2>1, DueStays, ForecastStays
    <3>2. \A a \in Pairs : plan'[a] = IF a \in run.scope THEN Due(a) ELSE NoChange
      BY <2>1, <2>2, PlansWhatIsDue DEF Foreseen
    <3>3. ASSUME run.actor = "schedule"
          PROVE  Cardinality(Reached(SafeOnes))' = Forecast
      <4>1. run.scope = Pairs
        BY <3>3 DEF ForecastInv, ScheduleIsPlain
      <4>2. SafeOnes' = {a \in Pairs : Due(a).class = Safe}
        BY <3>2, <4>1 DEF SafeOnes, OfClass
      <4>3. Reached(SafeOnes)' = Reached({a \in Pairs : Due(a).class = Safe})
        BY <2>1, <4>2 DEF Reached
      <4> QED BY <4>3 DEF Forecast
    <3> QED BY <2>1, <2>2, <3>1, <3>3 DEF Progress, Applying, AnnouncedIsDue, Planned
  <2> QED BY <1>1, <2>1, <2>2
<1>7. CASE StartApply
  <2>1. /\ pc = "start" /\ pc' = "apply" /\ todo' = Applicable(plan, run.consent) /\ stopped' = {}
        /\ report'.applied = 0 /\ report'.throttled = FALSE
        /\ UNCHANGED <<account, run, plan, announced, mark, left>>
    BY <1>7 DEF StartApply, NoReport
  <2>2. SafeOnes' = SafeOnes /\ Reached(SafeOnes)' = Reached(SafeOnes)
    BY <2>1 DEF SafeOnes, OfClass, Reached
  <2>3. Progress'
    <3> SUFFICES ASSUME ~run.consent PROVE InOrder' /\ Counted' /\ Stops' /\ InReach'
      BY <2>1 DEF Progress
    <3>1. SafeOnes \subseteq todo'
      <4>1. plan \in [Pairs -> Changes]
        BY <1>0 DEF TypeOK
      <4> QED BY <2>1, <4>1 DEF SafeOnes, OfClass, Applicable, Changed, Safe
    <3>2. Handled' = {}
      BY <2>1, <2>2, <3>1 DEF Handled, Underway
    <3>3. Made' = 0
      <4>1. (Reached(SafeOnes) \cap Handled)' = {}
        BY <3>2
      <4> QED BY <4>1, FS_EmptySet DEF Made
    <3>4. Counted'
      BY <2>1, <3>3 DEF Counted
    <3>5. InOrder' /\ Stops' /\ InReach'
      BY <2>1, <2>2, <3>1 DEF InOrder, Stops, Halted, InReach
    <3> QED BY <3>4, <3>5
  <2>4. AnnouncedIsDue => AnnouncedIsDue'
    BY <2>1, <2>2 DEF AnnouncedIsDue, Planned
  <2> QED BY <1>1, <2>1, <2>3, <2>4
<1>8. ASSUME NEW a \in Pairs, Handle(a) PROVE ForecastInv'
  <2>1. /\ mark' = mark /\ (left' = left \/ Disturb) /\ UNCHANGED <<run, plan, announced>>
        /\ Applying /\ Applying'
    BY <1>8 DEF Handle, SkipChange, RecheckFails, Recheck, WriteLands, WriteAnswerLost, WriteFails,
                WriteThrottled, RecordApplied, RefreshRow, RefreshFails, RowNotStored, Attempted,
                Applying, Write, Settle, Fail, HoldBack, Refuse, LeaveAlone, Announce, Proceed
  <2>2. \A b \in Pairs : account'[b].status = account[b].status
    <3>1. account' = account \/ Write(a)
      BY <1>8 DEF Handle, SkipChange, RecheckFails, Recheck, WriteLands, WriteAnswerLost, WriteFails,
                  WriteThrottled, RecordApplied, RefreshRow, RefreshFails, RowNotStored
    <3> QED BY <1>0, <3>1 DEF Write, TypeOK, Accounts
  <2>3. AnnouncedIsDue => AnnouncedIsDue'
    <3>1. SafeOnes' = SafeOnes /\ SafeOnes \in SUBSET Pairs
      BY <2>1 DEF SafeOnes, OfClass
    <3>2. Reached(SafeOnes)' = Reached(SafeOnes)
      BY <2>2, <3>1, ReachedStays DEF Reached
    <3> QED BY <2>1, <3>2 DEF AnnouncedIsDue, Planned, Applying
  <2>4. Foreseen /\ Progress /\ left' = left => Progress'
    BY <1>0, <1>8, ProgressHandle
  <2> QED BY <1>1, <2>1, <2>3, <2>4
<1>9. CASE Finish
  <2>1. /\ pc = "apply" /\ pc' = "idle" /\ todo = {} /\ UNCHANGED <<account, policy, linked, plan, run, mark, left>>
        /\ announced' = IF run.dryRun /\ ~run.consent /\ run.scope = Pairs
                        THEN report.applied ELSE Nothing
    BY <1>9 DEF Finish
  <2>2. ASSUME Foreseen, Progress PROVE AnnouncedIsDue'
    <3> SUFFICES ASSUME run.dryRun, ~run.consent, run.scope = Pairs PROVE report.applied = Forecast'
      BY <2>1 DEF AnnouncedIsDue, Planned, Applying
    <3>1. Forecast' = Forecast
      BY <2>1, DueStays, ForecastStays
    <3>2. ~report.throttled /\ \A a \in Pairs : plan[a] = Due(a)
      BY <2>1, <2>2 DEF Foreseen, DryRunsDoNot, PlanIsDue, Planned, Applying
    <3>3. report.applied = Cardinality(Reached(SafeOnes) \cap Handled)
      BY <2>1, <2>2, <3>2 DEF Progress, Applying, Counted, Made
    <3>4. Reached(SafeOnes) \cap Handled = Reached(SafeOnes)
      BY <2>1 DEF Handled, Reached
    <3>5. SafeOnes = {a \in Pairs : Due(a).class = Safe}
      BY <3>2 DEF SafeOnes, OfClass
    <3> QED BY <3>1, <3>3, <3>4, <3>5 DEF Forecast
  <2>3. Progress'
    BY <2>1 DEF Progress, Applying
  <2> QED BY <1>1, <2>1, <2>2, <2>3
<1>10. CASE UNCHANGED vars
  <2>1. Progress /\ AnnouncedIsDue => Progress' /\ AnnouncedIsDue'
    BY <1>10 DEF vars, Progress, AnnouncedIsDue, Applying, Planned, InOrder, Counted, Stops, InReach,
                 Made, Handled, Halted, Underway, InHand, SafeOnes, OfClass, Reached, Forecast, Due,
                 TrueAccount
  <2> QED BY <1>1, <1>10, <2>1 DEF vars
<1> QED
  BY <1>2, <1>3, <1>4, <1>5, <1>6, <1>7, <1>8, <1>9, <1>10 DEF Next, Engine

\* What a dry run over everybody announces is what the schedule then applies,
\* whatever accounts were disabled and whatever providers have to be left
\* alone: as many changes, or fewer where it meets a write limit
\* (applyOne, internal/reconcile/apply.go).
THEOREM DryRunsTellTheTruth == Spec => DryRunForetells
<1>1. Init => CalmInv /\ ForecastInv
  <2>1. Init => CalmInv
    BY BoundAssumption DEF BoundAssumption, Init, CalmInv, Calm, Foreseen, ReadingsAreTrue, PlanIsDue,
       DoneOrSaid, DryRunsDoNot, NothingIsDue, Planned, Applying
  <2>2. Init => ForecastInv
    BY DEF Init, NoRun, ForecastInv, ScheduleIsPlain, Progress, Applying, AnnouncedIsDue
  <2> QED BY <2>1, <2>2
<1>2. Inductive /\ HonestReport' /\ CalmInv /\ ForecastInv /\ [Next]_vars => CalmInv' /\ ForecastInv'
  BY CalmNext, ForecastNext
<1> DEFINE Told == \/ ~(run.actor = "schedule" /\ pc = "apply" /\ pc' = "idle" /\ todo = {})
                   \/ announced = Nothing \/ mark # left
                   \/ report.throttled /\ report.applied <= announced
                   \/ ~report.throttled /\ report.applied = announced
<1>3. Inductive /\ ForecastInv => Told
  <2> SUFFICES ASSUME Inductive, ForecastInv, run.actor = "schedule", pc = "apply", todo = {},
                      announced # Nothing, mark = left
               PROVE  IF report.throttled THEN report.applied <= announced
                      ELSE report.applied = announced
    OBVIOUS
  <2>1. announced = Cardinality(Reached(SafeOnes)) /\ Counted
    BY DEF ForecastInv, ScheduleIsPlain, Calm, Progress, AnnouncedIsDue, Planned, Applying
  <2>2. Reached(SafeOnes) \cap Handled = Reached(SafeOnes)
    BY DEF Handled, Reached
  <2> QED BY <2>1, <2>2 DEF Counted, Made
<1>4. DryRunForetells <=> [][Told]_vars
  BY DEF DryRunForetells
<1> HIDE DEF Told
<1> QED BY <1>1, <1>2, <1>3, <1>4, InductiveHolds, ReportsAreHonest, PTL DEF Spec

(***************************************************************************)
(* How long a run lasts.  RunsEnd needs fairness; what it needs of the     *)
(* code is that every step of a run brings it nearer to its end, whoever   *)
(* acts in between, and that there is always a step to take.               *)
(***************************************************************************)
\* The steps a run has yet to take, at most: a re-read, a write, an entry and
\* a reading back for each change, and no more than a change for each pair.
Longest == 4 * Cardinality(Pairs)

StepsLeft ==
  CASE pc = "observe" -> Cardinality(toObserve) + Longest + 4
    [] pc = "link"    -> Longest + 4
    [] pc = "plan"    -> Longest + 3
    [] pc = "start"   -> Longest + 2
    [] pc = "apply"   -> 4 * Cardinality(todo) + 1
    [] pc = "write"   -> 4 * Cardinality(todo)
    [] pc = "record"  -> 4 * Cardinality(todo) - 1
    [] pc = "refresh" -> 4 * Cardinality(todo) - 2
    [] OTHER          -> 0

RunLength == Cardinality(Providers) + Longest + 4

\* A step either leaves the run where it is or brings it nearer to its end, and
\* no run begins with more than RunLength steps to take.
RunsShorten ==
  [][\/ pc = "idle" /\ StepsLeft' \in {0, RunLength}
     \/ pc # "idle" /\ StepsLeft' < StepsLeft
     \/ UNCHANGED <<pc, run, toObserve, plan, todo>>]_vars

\* A run is never stuck: a provider is left to read, or a change is in hand.
Ready ==
  /\ pc = "observe" => \E p \in Providers : NextToRead(p)
  /\ pc \in {"write", "record", "refresh"} => todo # {}
  /\ Applying => todo = {} \/ \E a \in todo : InHand(a)

HandIsFull == pc \in {"write", "record", "refresh"} => todo # {}

LEMMA HandIsFullNext == TypeOK /\ HandIsFull /\ [Next]_vars => HandIsFull'
<1> SUFFICES ASSUME TypeOK, HandIsFull, [Next]_vars PROVE HandIsFull'
  OBVIOUS
<1>1. CASE Environment
  BY <1>1 DEF Environment, UseStorage, OthersSetQuota, ChangeStatus, EditPolicy, Unlink, LinkByHand, Disturb, engine,
     HandIsFull
<1>2. CASE Trigger
  BY <1>2 DEF Trigger, BeginScheduled, BeginRefresh, BeginByOperator, Begin, HandIsFull
<1>3. CASE Observing
  BY <1>3 DEF Observing, ObserveProvider, ObserveFails, NextPhase, HandIsFull
<1>4. CASE \/ LinkAccounts \/ MakePlan \/ RefuseExpired \/ StartApply
           \/ Finish \/ FinishUnrecorded \/ Interrupt
  BY <1>4 DEF LinkAccounts, MakePlan, RefuseExpired, StartApply, Finish, FinishUnrecorded, Interrupt,
              HandIsFull
<1>5. ASSUME NEW a \in Pairs, Handle(a) PROVE HandIsFull'
  <2>1. CASE \/ SkipChange(a) \/ RecheckFails(a) \/ WriteAnswerLost(a) \/ WriteFails(a) \/ WriteThrottled(a)
             \/ RefreshFails(a) \/ RowNotStored(a)
             \/ \E noQuota, noUsed \in SUBSET {a} : RefreshRow(a, noQuota, noUsed)
    BY <2>1 DEF SkipChange, RecheckFails, WriteAnswerLost, WriteFails, WriteThrottled, RefreshFails, RefreshRow,
       RowNotStored, Fail, HoldBack, Settle, HandIsFull
  <2>2. ASSUME NEW quotaKnown \in BOOLEAN, NEW usedKnown \in BOOLEAN, Recheck(a, quotaKnown, usedKnown)
        PROVE  HandIsFull'
    BY <2>2 DEF Recheck, Attempted, InHand, Refuse, LeaveAlone, Announce, HoldBack, Proceed, Settle, HandIsFull
  <2>3. CASE WriteLands(a) \/ RecordApplied(a)
    BY <2>3 DEF WriteLands, Write, RecordApplied, InHand, engine, HandIsFull
  <2> QED BY <1>5, <2>1, <2>2, <2>3 DEF Handle
<1>6. CASE UNCHANGED vars
  BY <1>6 DEF vars, engine, HandIsFull
<1> QED BY <1>1, <1>2, <1>3, <1>4, <1>5, <1>6 DEF Next, Engine

\* What the lengths are made of.
LEMMA Lengths ==
  /\ Longest \in Nat /\ Cardinality(Providers) \in Nat
  /\ \A S \in SUBSET Providers : Cardinality(S) \in Nat /\ \A p \in S : Cardinality(S \ {p}) = Cardinality(S) - 1
  /\ \A S \in SUBSET Pairs :
       /\ Cardinality(S) \in Nat /\ 4 * Cardinality(S) <= Longest
       /\ S # {} => Cardinality(S) > 0
       /\ \A a \in S : Cardinality(S \ {a}) = Cardinality(S) - 1
<1>1. IsFiniteSet(Providers) /\ IsFiniteSet(Pairs)
  BY OrderAssumption, FS_Product DEF OrderAssumption, Pairs
<1>2. Longest \in Nat /\ Cardinality(Pairs) \in Nat /\ Cardinality(Providers) \in Nat
  BY <1>1, FS_CardinalityType DEF Longest
<1>3. ASSUME NEW S \in SUBSET Providers
      PROVE  Cardinality(S) \in Nat /\ \A p \in S : Cardinality(S \ {p}) = Cardinality(S) - 1
  BY <1>1, FS_Subset, FS_CardinalityType, FS_RemoveElement
<1>4. ASSUME NEW S \in SUBSET Pairs
      PROVE  /\ Cardinality(S) \in Nat /\ 4 * Cardinality(S) <= Longest
             /\ S # {} => Cardinality(S) > 0
             /\ \A a \in S : Cardinality(S \ {a}) = Cardinality(S) - 1
  <2>1. IsFiniteSet(S) /\ Cardinality(S) \in Nat /\ Cardinality(S) <= Cardinality(Pairs)
    BY <1>1, FS_Subset, FS_CardinalityType
  <2>2. \A a \in S : Cardinality(S \ {a}) = Cardinality(S) - 1
    BY <2>1, FS_RemoveElement
  <2>3. S # {} => Cardinality(S) # 0
    BY <2>1, FS_EmptySet
  <2> QED BY <1>2, <2>1, <2>2, <2>3 DEF Longest
<1> QED BY <1>2, <1>3, <1>4

\* A change dealt with is four steps fewer at least.
LEMMA SettlingShortens ==
  ASSUME TypeOK, Applying, NEW a \in Pairs, InHand(a), NEW result, Settle(a, result)
  PROVE  pc # "idle" /\ StepsLeft' < StepsLeft
<1>1. a \in todo /\ todo \in SUBSET Pairs /\ todo' = todo \ {a} /\ pc' = "apply"
  BY DEF InHand, TypeOK, Settle
<1>2. Cardinality(todo) \in Nat /\ Cardinality(todo') = Cardinality(todo) - 1
  BY <1>1, Lengths
<1>3. StepsLeft' = 4 * Cardinality(todo') + 1
  BY <1>1 DEF StepsLeft
<1>4. StepsLeft >= 4 * Cardinality(todo) - 2 /\ StepsLeft \in Int
  BY <1>2 DEF Applying, StepsLeft
<1> QED BY <1>2, <1>3, <1>4 DEF Applying

\* A run that is killed, or has nothing to do, has fewer steps to take than any
\* other.
LEMMA IdleIsShortest ==
  ASSUME TypeOK, HandIsFull
  PROVE  pc # "idle" => StepsLeft \in Nat \ {0}
<1>1. todo \in SUBSET Pairs /\ toObserve \in SUBSET Providers
  BY DEF TypeOK
<1>2. Cardinality(todo) \in Nat /\ Cardinality(toObserve) \in Nat /\ Longest \in Nat
      /\ (todo # {} => Cardinality(todo) > 0)
  BY <1>1, Lengths
<1> QED BY <1>2 DEF TypeOK, HandIsFull, StepsLeft

\* What one step does to the length of the run.
Nearer == \/ pc = "idle" /\ StepsLeft' \in {0, RunLength}
          \/ pc # "idle" /\ StepsLeft' < StepsLeft
          \/ UNCHANGED <<pc, run, toObserve, plan, todo>>

LEMMA StepsNear == TypeOK /\ HandIsFull /\ [Next]_vars => Nearer
<1> SUFFICES ASSUME TypeOK, HandIsFull, [Next]_vars PROVE Nearer
  OBVIOUS
<1> DEFINE Forward == pc # "idle" /\ StepsLeft' < StepsLeft
<1>0. Longest \in Nat /\ Longest' = Longest
  BY Lengths DEF Longest
<1>1. CASE Environment
  BY <1>1 DEF Environment, UseStorage, OthersSetQuota, ChangeStatus, EditPolicy, Unlink, LinkByHand, engine, Nearer
<1>2. CASE Trigger
  <2>1. pc = "idle" /\ pc' = "observe" /\ toObserve' = Providers
    BY <1>2 DEF Trigger, BeginScheduled, BeginRefresh, BeginByOperator, Begin
  <2>2. StepsLeft' = RunLength
    BY <1>0, <2>1 DEF StepsLeft, RunLength
  <2> QED BY <2>1, <2>2 DEF Nearer
<1>3. CASE Observing
  <2>1. PICK p \in Providers : NextToRead(p) /\ pc = "observe" /\ toObserve' = toObserve \ {p} /\ NextPhase
    BY <1>3 DEF Observing, ObserveProvider, ObserveFails
  <2>2. toObserve \in SUBSET Providers /\ p \in toObserve
    BY <2>1 DEF TypeOK, NextToRead
  <2>3. Cardinality(toObserve) \in Nat /\ Cardinality(toObserve') = Cardinality(toObserve) - 1
    BY <2>1, <2>2, Lengths
  <2>4. toObserve' \in SUBSET Providers
    BY <2>1, <2>2
  <2>5. Cardinality(toObserve') \in Nat
    BY <2>4, Lengths
  <2>6. StepsLeft = Cardinality(toObserve) + Longest + 4
    BY <2>1 DEF StepsLeft
  <2>7. CASE toObserve' = {}
    <3>1. StepsLeft' = Longest + 4
      BY <1>0, <2>1, <2>7 DEF NextPhase, StepsLeft
    <3> QED BY <1>0, <2>1, <2>3, <2>5, <2>6, <3>1 DEF Nearer
  <2>8. CASE toObserve' # {}
    <3>1. StepsLeft' = Cardinality(toObserve') + Longest + 4
      BY <1>0, <2>1, <2>8 DEF NextPhase, StepsLeft
    <3> QED BY <1>0, <2>1, <2>3, <2>5, <2>6, <3>1 DEF Nearer
  <2> QED BY <2>7, <2>8
<1>4. CASE LinkAccounts \/ MakePlan \/ RefuseExpired
  <2>1. \/ pc = "link" /\ pc' \in {"idle", "plan"}
        \/ pc = "plan" /\ pc' \in {"idle", "start"}
        \/ pc = "start" /\ pc' = "idle"
    BY <1>4 DEF LinkAccounts, MakePlan, RefuseExpired
  <2>2. pc' = "idle" => StepsLeft' = 0
    BY DEF StepsLeft
  <2>3. pc' = "plan" => StepsLeft' = Longest + 3
    BY <1>0 DEF StepsLeft
  <2>4. pc' = "start" => StepsLeft' = Longest + 2
    BY <1>0 DEF StepsLeft
  <2>5. (pc = "link" => StepsLeft = Longest + 4) /\ (pc = "plan" => StepsLeft = Longest + 3)
        /\ (pc = "start" => StepsLeft = Longest + 2)
    BY DEF StepsLeft
  <2> QED BY <1>0, <2>1, <2>2, <2>3, <2>4, <2>5 DEF Nearer
<1>5. CASE StartApply
  <2>1. pc = "start" /\ pc' = "apply" /\ todo' \in SUBSET Pairs
    BY <1>5 DEF StartApply, Applicable, Changed, TypeOK
  <2>2. StepsLeft = Longest + 2
    BY <2>1 DEF StepsLeft
  <2>3. StepsLeft' = 4 * Cardinality(todo') + 1
    BY <2>1 DEF StepsLeft
  <2>4. Cardinality(todo') \in Nat /\ 4 * Cardinality(todo') <= Longest
    BY <2>1, Lengths
  <2> QED BY <1>0, <2>1, <2>2, <2>3, <2>4 DEF Nearer
<1>6. CASE Finish \/ FinishUnrecorded \/ Interrupt
  <2>1. pc # "idle" /\ pc' = "idle"
    BY <1>6 DEF Finish, FinishUnrecorded, Interrupt
  <2>2. StepsLeft' = 0
    BY <2>1 DEF StepsLeft
  <2> QED BY <2>1, <2>2, IdleIsShortest DEF Nearer
<1>7. ASSUME NEW a \in Pairs, Handle(a) PROVE Nearer
  <2>1. CASE \/ SkipChange(a) \/ RecheckFails(a) \/ WriteAnswerLost(a) \/ WriteFails(a) \/ WriteThrottled(a)
             \/ RefreshFails(a) \/ RowNotStored(a)
             \/ \E noQuota, noUsed \in SUBSET {a} : RefreshRow(a, noQuota, noUsed)
    <3>1. /\ pc \in {"apply", "write", "refresh"} /\ InHand(a)
          /\ \E result \in Results : Settle(a, result)
      BY <2>1 DEF SkipChange, RecheckFails, Attempted, WriteAnswerLost, Write, WriteFails, WriteThrottled,
         RefreshFails, RefreshRow, RowNotStored, Fail, HoldBack, Results
    <3> QED BY <3>1, SettlingShortens DEF Applying, Nearer
  <2>2. ASSUME NEW quotaKnown \in BOOLEAN, NEW usedKnown \in BOOLEAN, Recheck(a, quotaKnown, usedKnown)
        PROVE  Nearer
    <3>1. pc = "apply" /\ InHand(a)
      BY <2>2 DEF Recheck, Attempted
    <3>2. (\E result \in Results : Settle(a, result)) \/ (pc' = "write" /\ todo' = todo)
      BY <2>2 DEF Recheck, Refuse, LeaveAlone, Announce, HoldBack, Proceed, Results
    <3>3. CASE pc' = "write" /\ todo' = todo
      <4>1. StepsLeft = 4 * Cardinality(todo) + 1 /\ StepsLeft' = 4 * Cardinality(todo)
        BY <3>1, <3>3 DEF StepsLeft
      <4>2. Cardinality(todo) \in Nat
        BY Lengths DEF TypeOK
      <4> QED BY <3>1, <4>1, <4>2 DEF Nearer
    <3> QED BY <3>1, <3>2, <3>3, SettlingShortens DEF Applying, Nearer
  <2>3. CASE WriteLands(a) \/ RecordApplied(a)
    <3>1. /\ todo' = todo
          /\ \/ pc = "write" /\ pc' = "record"
             \/ pc = "record" /\ pc' = "refresh"
      BY <2>3 DEF WriteLands, Write, RecordApplied, engine
    <3>2. Cardinality(todo) \in Nat
      BY Lengths DEF TypeOK
    <3>3. /\ pc = "write" => StepsLeft = 4 * Cardinality(todo)
          /\ pc = "record" => StepsLeft = 4 * Cardinality(todo) - 1
      BY DEF StepsLeft
    <3>4. /\ pc' = "record" => StepsLeft' = 4 * Cardinality(todo') - 1
          /\ pc' = "refresh" => StepsLeft' = 4 * Cardinality(todo') - 2
      BY DEF StepsLeft
    <3> QED BY <3>1, <3>2, <3>3, <3>4 DEF Nearer
  <2> QED BY <1>7, <2>1, <2>2, <2>3 DEF Handle
<1>8. CASE UNCHANGED vars
  BY <1>8 DEF vars, engine, Nearer
<1> QED BY <1>1, <1>2, <1>3, <1>4, <1>5, <1>6, <1>7, <1>8 DEF Next, Engine

\* RunsEnd asks for fairness; this is what it asks of the code: with every step
\* a run takes, it has fewer left to take, whatever providers answer, whoever
\* edits policy or links in between, and it never has more than RunLength
\* (Apply, internal/reconcile/apply.go).
THEOREM RunsTakeBoundedlyManySteps == Spec => RunsShorten
<1>1. Init => HandIsFull
  BY DEF Init, HandIsFull
<1>2. TypeOK /\ HandIsFull /\ [Next]_vars => HandIsFull' /\ Nearer
  BY HandIsFullNext, StepsNear
<1>3. RunsShorten <=> [][Nearer]_vars
  BY DEF RunsShorten, Nearer
<1> HIDE DEF Nearer
<1> QED BY <1>1, <1>2, <1>3, TypeCorrect, PTL DEF Spec

-----------------------------------------------------------------------------
LEMMA LeastNumber ==
  ASSUME NEW S \in SUBSET Nat, S # {}
  PROVE  \E m \in S : \A n \in S : m <= n
<1>1. PICK m \in S : \A n \in S : <<n, m>> \notin OpToRel(<, Nat)
  BY NatLessThanWellFounded, WFMin
<1>2. ASSUME NEW n \in S PROVE m <= n
  <2>1. ~(n < m) /\ n \in Nat /\ m \in Nat
    BY <1>1 DEF OpToRel
  <2> QED BY <2>1
<1> QED BY <1>2

\* Of changes left there is a first: the provider of least number among those
\* of the person of least number.
LEMMA FirstChange ==
  ASSUME NEW S \in SUBSET Pairs, S # {}
  PROVE  \E a \in S : \A b \in S \ {a} : Before(a, b)
<1> DEFINE People == {a[1] : a \in S}
<1>0. \A a \in Pairs : a[1] \in Nat /\ a[2] \in Nat
  BY OrderAssumption DEF OrderAssumption, Pairs
<1>1. People \in SUBSET Nat /\ People # {}
  BY <1>0
<1>2. PICK u \in People : \A v \in People : u <= v
  <2> HIDE DEF People
  <2> QED BY <1>1, LeastNumber
<1> DEFINE Hers == {a[2] : a \in {b \in S : b[1] = u}}
<1>3. Hers \in SUBSET Nat /\ Hers # {}
  <2>1. PICK b \in S : b[1] = u
    BY <1>2
  <2> QED BY <1>0, <2>1
<1>4. PICK p \in Hers : \A q \in Hers : p <= q
  <2> HIDE DEF Hers
  <2> QED BY <1>3, LeastNumber
<1>5. PICK a \in S : a[1] = u /\ a[2] = p
  BY <1>4
<1>6. ASSUME NEW b \in S \ {a} PROVE Before(a, b)
  <2>1. PICK v \in Users, q \in Providers : b = <<v, q>>
    BY DEF Pairs
  <2>2. PICK v0 \in Users, q0 \in Providers : a = <<v0, q0>>
    BY DEF Pairs
  <2>3. u = v0 /\ p = q0 /\ u <= v /\ (v = u => p <= q)
    BY <1>2, <1>4, <1>5, <2>1, <2>2
  <2>4. v \in Nat /\ q \in Nat /\ u \in Nat /\ p \in Nat
    BY <1>1, <1>3, <2>1, OrderAssumption DEF OrderAssumption
  <2> QED BY <2>1, <2>2, <2>3, <2>4 DEF Before
<1> QED BY <1>6

ToRead == pc = "observe" => toObserve # {}

LEMMA ToReadNext ==
  ASSUME Providers # {}, TypeOK, ToRead, [Next]_vars
  PROVE  ToRead'
<1>1. CASE Environment
  BY <1>1 DEF Environment, UseStorage, OthersSetQuota, ChangeStatus, EditPolicy, Unlink, LinkByHand, engine, ToRead
<1>2. CASE Trigger
  BY <1>2 DEF Trigger, BeginScheduled, BeginRefresh, BeginByOperator, Begin, ToRead
<1>3. CASE Observing
  BY <1>3 DEF Observing, ObserveProvider, ObserveFails, NextPhase, ToRead
<1>4. CASE \/ LinkAccounts \/ MakePlan \/ RefuseExpired \/ StartApply
           \/ Finish \/ FinishUnrecorded \/ Interrupt
  BY <1>4 DEF LinkAccounts, MakePlan, RefuseExpired, StartApply, Finish, FinishUnrecorded, Interrupt, ToRead
<1>5. ASSUME NEW a \in Pairs, Handle(a) PROVE ToRead'
  <2>1. pc \in {"apply", "write", "record", "refresh"} /\ pc' \in {"apply", "write", "record", "refresh"}
    BY <1>5 DEF Handle, SkipChange, RecheckFails, Recheck, Attempted, Refuse, LeaveAlone, Announce, HoldBack, Proceed,
       WriteLands, Write, WriteAnswerLost, WriteFails, WriteThrottled, RecordApplied, RefreshFails, RefreshRow,
       RowNotStored, Fail, Settle
  <2> QED BY <2>1 DEF ToRead
<1>6. CASE UNCHANGED vars
  BY <1>6 DEF vars, engine, ToRead
<1> QED BY <1>1, <1>2, <1>3, <1>4, <1>5, <1>6 DEF Next, Engine

\* And it always has one to take: the provider to read next, or the change in
\* hand.  No edit, kill or answer leaves a run with neither.
THEOREM RunsAreNeverStuck ==
  ASSUME Providers # {}
  PROVE  Spec => []Ready
<1>1. Init => HandIsFull /\ ToRead
  BY DEF Init, HandIsFull, ToRead
<1>2. TypeOK /\ HandIsFull /\ ToRead /\ [Next]_vars => HandIsFull' /\ ToRead'
  BY HandIsFullNext, ToReadNext
<1>3. TypeOK /\ HandIsFull /\ ToRead => Ready
  <2> SUFFICES ASSUME TypeOK, HandIsFull, ToRead PROVE Ready
    OBVIOUS
  <2>1. ASSUME pc = "observe" PROVE \E p \in Providers : NextToRead(p)
    <3>1. toObserve \in SUBSET Nat /\ toObserve \in SUBSET Providers /\ toObserve # {}
      BY <2>1, OrderAssumption DEF OrderAssumption, TypeOK, ToRead
    <3> QED BY <3>1, LeastNumber DEF NextToRead
  <2>2. ASSUME todo # {} PROVE \E a \in todo : InHand(a)
    BY <2>2, FirstChange DEF TypeOK, InHand
  <2> QED BY <2>1, <2>2 DEF HandIsFull, Ready
<1> QED BY <1>1, <1>2, <1>3, TypeCorrect, PTL DEF Spec
=============================================================================

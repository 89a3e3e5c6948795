------------------------------- MODULE Quota -------------------------------
(***************************************************************************)
(* internal/core/quota.go: a quota is a tagged value, never a nullable     *)
(* integer.  Unknown is the zero value and nothing is written against it.  *)
(***************************************************************************)
EXTENDS Integers

Kinds == {"unknown", "unlimited", "bytes"}

Unknown   == [kind |-> "unknown",   bytes |-> 0]
Unlimited == [kind |-> "unlimited", bytes |-> 0]

\* A negative count is refused and comes back as Unknown, together with an
\* error no caller of this model ignores.
BytesQuota(n) == IF n < 0 THEN Unknown ELSE [kind |-> "bytes", bytes |-> n]

IsKnown(q) == q.kind # "unknown"
IsBytes(q) == q.kind = "bytes"

\* Structural, with no special case for Unknown.
Equal(q, r) == q.kind = r.kind /\ (IsBytes(q) => q.bytes = r.bytes)

\* What an adapter may hand over and what the database may hold.
Valid(q) ==
  /\ q.kind \in Kinds
  /\ IF IsBytes(q) THEN q.bytes \in Nat ELSE q.bytes = 0

\* Usage reuses the type, and cannot be unlimited.
ValidAsUsage(q) == Valid(q) /\ q.kind # "unlimited"

\* Every valid quota whose byte count, if it has one, is in B.
QuotasOver(B) == {Unknown, Unlimited} \cup {BytesQuota(n) : n \in B}

\* Every quota an account can have or be given, and every usage that can be
\* read, over those byte counts.
CeilingsOver(B) == {Unlimited} \cup {BytesQuota(n) : n \in B}
UsagesOver(B)   == {Unknown} \cup {BytesQuota(n) : n \in B}
=============================================================================

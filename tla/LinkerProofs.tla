---------------------------- MODULE LinkerProofs ----------------------------
(***************************************************************************)
(* Theorems about Linker, for any people, providers and accounts: its type *)
(* invariant; two people never share an account; when no edit falls inside *)
(* a cycle, no cycle takes a link away or points it elsewhere, and a match *)
(* had no rival when it was stored; an undisturbed cycle leaves every      *)
(* account with the owner its links say; unless it matched somebody on a   *)
(* keyed provider by her subject, nobody is left to link and the cycle     *)
(* after it changes nothing; and every cycle ends in boundedly many steps. *)
(***************************************************************************)
EXTENDS Linker, FiniteSetTheorems, WellFoundedInduction, TLAPS

Rows == [stored : BOOLEAN, writable : BOOLEAN, key : Nat, subject : Nat,
         owner : Users \cup {Nobody}]

\* Only an account's link names an external id.
LEMMA LinkNamesAccount ==
  ASSUME TypeOK, NEW u \in Users, NEW p \in Providers, HasLink(u, p)
  PROVE  Account(u, p) \in Externals
<1>1. <<u, p>> \in Pairs
  BY DEF Pairs
<1>2. link[<<u, p>>] \in {NoLink} \cup [ext : Externals, origin : {"matched", "manual"}]
  BY <1>1 DEF TypeOK
<1>. QED
  BY <1>2 DEF HasLink, Account

\* The issues a pass reports name people and accounts that exist.
LEMMA IssuesTyped ==
  ASSUME TypeOK, NEW p \in Providers
  PROVE  IssuesFound(p) \subseteq Issues
<1>1. \A u \in Users : Dangling(u, p) \/ Stale(u, p) => Account(u, p) \in Externals
  BY LinkNamesAccount DEF Dangling, Stale
<1>2. Crowded(p) \subseteq Users /\ Active \subseteq Users
  BY DEF Crowded, Active
<1>3. Joinable(p) \subseteq Users \X Externals
  BY DEF Joinable
<1>. DEFINE D == {Issue("dangling", u, Account(u, p)) : u \in {v \in Users : Dangling(v, p)}}
            S == {Issue("stale", u, Account(u, p)) : u \in {v \in Users : Stale(v, p)}}
            C == {Issue("ambiguous", u, Nobody) : u \in Crowded(p)}
            J == {Issue("ambiguous", a[1], a[2]) : a \in Joinable(p) \ Joined(p)}
<1>4. D \subseteq Issues
  BY <1>1 DEF Issue, Issues
<1>5. S \subseteq Issues
  BY <1>1 DEF Issue, Issues
<1>6. C \subseteq Issues
  BY <1>2 DEF Issue, Issues
<1>7. J \subseteq Issues
  BY <1>3 DEF Issue, Issues
<1>8. ASSUME NEW u \in Active PROVE Issue("unlinked", u, Nobody) \in Issues
  BY <1>2 DEF Issue, Issues
<1>9. ASSUME NEW e \in Externals PROVE Issue("unmanaged", Nobody, e) \in Issues
  BY DEF Issue, Issues
<1>10. SUFFICES ASSUME NEW i \in IssuesFound(p) PROVE i \in Issues
  OBVIOUS
<1>11. \/ i \in D \/ i \in S \/ i \in C \/ i \in J
       \/ \E u \in Active : i = Issue("unlinked", u, Nobody)
       \/ \E e \in Externals : i = Issue("unmanaged", Nobody, e)
  BY <1>10 DEF IssuesFound
<1>. HIDE DEF D, S, C, J
<1>. QED
  BY <1>4, <1>5, <1>6, <1>7, <1>8, <1>9, <1>11

\* The owner a pass works out for an account is a person or nobody.
LEMMA OwnerTyped ==
  ASSUME NEW p \in Providers
  PROVE  Work(p).owner \in [Externals -> Users \cup {Nobody}]
<1>. DEFINE holders(e) == {u \in Users : <<u, e>> \in Owned(p) \cup Joined(p)}
            owner(e) == IF holders(e) = {} THEN Nobody ELSE CHOOSE u \in holders(e) : TRUE
<1>1. Work(p).owner = [e \in Externals |-> owner(e)]
  BY DEF Work
<1>2. ASSUME NEW e \in Externals PROVE owner(e) \in Users \cup {Nobody}
  <2>1. holders(e) # {} => (CHOOSE u \in holders(e) : TRUE) \in holders(e)
    OBVIOUS
  <2>2. holders(e) \subseteq Users
    OBVIOUS
  <2>. QED
    BY <2>1, <2>2
<1>. HIDE DEF owner
<1>. QED
  BY <1>1, <1>2

\* What a pass works out for a provider has the shape persist expects.
LEMMA WorkTyped ==
  ASSUME TypeOK, NEW p \in Providers
  PROVE  Work(p) \in Works
<1>1. Direct(p) \subseteq Users \X Externals
  BY DEF Direct, Active
<1>2. Joined(p) \subseteq Users \X Externals
  BY DEF Joined, Joinable
<1>3. Work(p) = [new |-> Work(p).new, owner |-> Work(p).owner, issues |-> Work(p).issues]
  BY DEF Work
<1>4. Work(p).new \subseteq Users \X Externals
  BY <1>1, <1>2 DEF Work
<1>5. Work(p).issues \subseteq Issues
  BY IssuesTyped DEF Work
<1>. QED
  BY <1>3, <1>4, <1>5, OwnerTyped DEF Works

\* The first state is well typed.
LEMMA TypeInit == Init => TypeOK
<1>. SUFFICES ASSUME Init PROVE TypeOK
  OBVIOUS
<1>. USE DEF Init
<1>1. directory \in [Users -> Nat \cup {Absent}]
  BY PersonAssumption
<1>2. \A s \in Slots : real[s] \in [state : {"enabled", "disabled", "gone"}, key : Nat, subject : Nat]
  BY FacesAssumption DEF Lives, Vanished, Blank
<1>3. real \in [Slots -> [state : {"enabled", "disabled", "gone"}, key : Nat, subject : Nat]]
  BY <1>2
<1>4. user \in [Users -> [status : {"none", "active", "orphaned"}, key : Nat]]
  BY DEF Blank
<1>5. acct \in [Slots -> [stored : BOOLEAN, writable : BOOLEAN, key : Nat, subject : Nat,
                          owner : Users \cup {Nobody}]]
  BY DEF NoAccount, Blank
<1>6. NoWork \in Works
  BY DEF NoWork, Works
<1>. QED
  BY <1>1, <1>3, <1>4, <1>5, <1>6, BoundAssumption DEF TypeOK

\* Every step keeps the state well typed.
LEMMA TypeStep == TypeOK /\ [Next]_vars => TypeOK'
<1>. SUFFICES ASSUME TypeOK, [Next]_vars PROVE TypeOK'
  OBVIOUS
<1>. USE DEF Disturb, world, tables, cycle, history
<1>1. ASSUME NEW u \in Users, NEW key \in PersonKeys[u] \cup {Absent}, DirectoryChanges(u, key)
      PROVE  TypeOK'
  <2>1. key \in Nat \cup {Absent}
    BY PersonAssumption
  <2>2. directory' \in [Users -> Nat \cup {Absent}]
    BY <1>1, <2>1 DEF TypeOK, DirectoryChanges
  <2>. QED
    BY <1>1, <2>2 DEF TypeOK, DirectoryChanges
<1>2. ASSUME NEW s \in Slots, NEW life \in Lives(s), AccountChanges(s, life)
      PROVE  TypeOK'
  <2>1. life \in [state : {"enabled", "disabled", "gone"}, key : Nat, subject : Nat]
    BY FacesAssumption DEF Lives, Vanished, Blank
  <2>. QED
    BY <1>2, <2>1 DEF TypeOK, AccountChanges
<1>3. ASSUME NEW u \in Manual, NEW key \in PersonKeys[u], AddManualUser(u, key)
      PROVE  TypeOK'
  <2>1. u \in Users /\ key \in Nat
    BY PersonAssumption, PeopleAssumption
  <2>2. user' \in [Users -> [status : {"none", "active", "orphaned"}, key : Nat]]
    BY <1>3, <2>1 DEF TypeOK, AddManualUser
  <2>. QED
    BY <1>3, <2>2 DEF TypeOK, AddManualUser
<1>4. ASSUME NEW u \in Users, DeleteUser(u) PROVE TypeOK'
  <2>1. user' \in [Users -> [status : {"none", "active", "orphaned"}, key : Nat]]
    BY <1>4 DEF TypeOK, DeleteUser, Blank
  <2>2. acct' \in [Slots -> [stored : BOOLEAN, writable : BOOLEAN, key : Nat, subject : Nat,
                             owner : Users \cup {Nobody}]]
    <3>1. ASSUME NEW s \in Slots
          PROVE  [acct[s] EXCEPT !.owner = IF acct[s].owner = u THEN Nobody ELSE acct[s].owner]
                   \in [stored : BOOLEAN, writable : BOOLEAN, key : Nat, subject : Nat,
                        owner : Users \cup {Nobody}]
      BY DEF TypeOK
    <3>. QED
      BY <1>4, <3>1 DEF DeleteUser
  <2>3. link' \in [Pairs -> {NoLink} \cup [ext : Externals, origin : {"matched", "manual"}]]
    BY <1>4 DEF TypeOK, DeleteUser
  <2>4. issue' \in [Providers -> SUBSET Issues]
    BY <1>4 DEF TypeOK, DeleteUser
  <2>. QED
    BY <1>4, <2>1, <2>2, <2>3, <2>4 DEF TypeOK, DeleteUser
<1>5. ASSUME NEW u \in Users, NEW p \in Providers, NEW e \in Externals, LinkByHand(u, p, e)
      PROVE  TypeOK'
  BY <1>5 DEF TypeOK, LinkByHand, UpsertLink, MayEdit, Pairs, Slots
<1>6. CASE OwnByHand
  <2>1. hand.user \in Users /\ hand.slot \in Slots
    BY <1>6 DEF TypeOK, OwnByHand
  <2>2. acct \in [Slots -> Rows] /\ acct[hand.slot] \in Rows
    BY <2>1 DEF TypeOK, Rows
  <2>3. [acct[hand.slot] EXCEPT !.owner = IF acct[hand.slot].stored THEN hand.user ELSE @] \in Rows
    BY <2>1, <2>2 DEF Rows
  <2>4. acct' \in [Slots -> Rows]
    BY <1>6, <2>1, <2>2, <2>3 DEF OwnByHand
  <2>. QED
    BY <1>6, <2>4 DEF TypeOK, OwnByHand, Rows
<1>7. ASSUME NEW u \in Users, NEW p \in Providers, UnlinkByHand(u, p) PROVE TypeOK'
  BY <1>7 DEF TypeOK, UnlinkByHand, MayEdit, Pairs
<1>8. CASE BeginCycle
  BY <1>8 DEF TypeOK, BeginCycle
<1>9. ASSUME NEW answer \in SUBSET Listed, SyncIdentity(answer) PROVE TypeOK'
  <2>1. Synced(answer) \in [Users -> [status : {"none", "active", "orphaned"}, key : Nat]]
    BY <1>9 DEF TypeOK, Synced, Listed
  <2>. QED
    BY <1>9, <2>1 DEF TypeOK, SyncIdentity
<1>10. ASSUME NEW failures \in SUBSET Providers, Observe(failures) PROVE TypeOK'
  <2>1. \A s \in Slots : Observed(s) \in [stored : BOOLEAN, writable : BOOLEAN, key : Nat,
                                          subject : Nat, owner : Users \cup {Nobody}]
    BY DEF TypeOK, Observed, NoAccount, Blank
  <2>. QED
    BY <1>10, <2>1 DEF TypeOK, Observe
<1>11. CASE LinkPass
  <2>1. NoWork \in Works
    BY DEF NoWork, Works
  <2>2. pass' \in [Providers -> Works]
    BY <1>11, <2>1, WorkTyped DEF LinkPass
  <2>. QED
    BY <1>11, <2>2 DEF TypeOK, LinkPass, EndCycle
<1>12. ASSUME NEW p \in Providers, NEW u \in Users, NEW e \in Externals, StoreLink(p, u, e)
       PROVE  TypeOK'
  <2>1. [pass[p] EXCEPT !.new = pass[p].new \ {<<u, e>>}] \in Works
    <3>1. pass[p] \in Works
      BY DEF TypeOK
    <3>. QED
      BY <3>1 DEF Works
  <2>2. pass' \in [Providers -> Works]
    BY <1>12, <2>1 DEF TypeOK, StoreLink
  <2>. QED
    BY <1>12, <2>2 DEF TypeOK, StoreLink, UpsertLink, Pairs
<1>13. ASSUME NEW p \in Providers, NEW u \in Users, NEW e \in Externals, StoreAborts(p, u, e)
       PROVE  TypeOK'
  BY <1>13 DEF TypeOK, StoreAborts, EndCycle
<1>14. ASSUME NEW p \in Providers, StoreOwners(p) PROVE TypeOK'
  <2>1. ASSUME NEW s \in Slots PROVE OwnersStored(p)[s] \in Rows
    <3>1. pass[p].owner \in [Externals -> Users \cup {Nobody}] /\ s[2] \in Externals
      BY DEF TypeOK, Works, Slots
    <3>2. pass[p].owner[s[2]] \in Users \cup {Nobody}
      BY <3>1
    <3>3. acct[s] \in Rows
      BY DEF TypeOK, Rows
    <3>4. [acct[s] EXCEPT !.owner = pass[p].owner[s[2]]] \in Rows
      BY <3>2, <3>3 DEF Rows
    <3>. QED
      BY <3>3, <3>4 DEF OwnersStored
  <2>2. OwnersStored(p) \in [Slots -> Rows]
    BY <2>1 DEF OwnersStored
  <2>3. acct' \in [Slots -> Rows] /\ pc' = "issues"
    BY <1>14, <2>2 DEF StoreOwners
  <2>. QED
    BY <1>14, <2>3 DEF TypeOK, StoreOwners, Rows
<1>15. ASSUME NEW p \in Providers, StoreIssues(p) PROVE TypeOK'
  BY <1>15 DEF TypeOK, StoreIssues, EndCycle, Works
<1>16. CASE UNCHANGED vars
  BY <1>16 DEF TypeOK, vars
<1>. QED
  BY <1>1, <1>2, <1>3, <1>4, <1>5, <1>6, <1>7, <1>8, <1>9, <1>10, <1>11, <1>12, <1>13,
     <1>14, <1>15, <1>16 DEF Next, World, Admin, Step, Store

\* The tables and the pass always hold what their types say.
THEOREM LinkerTypeCorrect == Spec => []TypeOK
<1>. QED
  BY TypeInit, TypeStep, PTL DEF Spec

\* Storing a link that conflicts with nobody's keeps people apart.
LEMMA UpsertKeepsApart ==
  ASSUME TypeOK, OnePersonPerAccount, NEW u \in Users, NEW p \in Providers, NEW e \in Externals,
         NEW origin \in {"matched", "manual"}, UpsertLink(u, p, e, origin)
  PROVE  OnePersonPerAccount'
<1>. SUFFICES ASSUME NEW v \in Users, NEW w \in Users, NEW q \in Providers,
                     v # w, HasLink(v, q)'
              PROVE  Account(v, q)' # Account(w, q)'
  BY DEF OnePersonPerAccount
<1>1. link \in [Pairs -> {NoLink} \cup [ext : Externals, origin : {"matched", "manual"}]]
  BY DEF TypeOK
<1>2. <<v, q>> \in Pairs /\ <<w, q>> \in Pairs /\ <<u, p>> \in Pairs
  BY DEF Pairs
<1>3. \A a \in Pairs : link'[a] = IF a = <<u, p>> THEN [ext |-> e, origin |-> origin] ELSE link[a]
  BY <1>1 DEF UpsertLink
<1>4. \A x \in Users \ {u} : link[<<x, p>>].ext # e
  BY DEF UpsertLink, Conflicts
<1>5. CASE <<v, q>> = <<u, p>>
  BY <1>2, <1>3, <1>4, <1>5 DEF Account
<1>6. CASE <<w, q>> = <<u, p>>
  BY <1>2, <1>3, <1>4, <1>6 DEF Account
<1>7. CASE <<v, q>> # <<u, p>> /\ <<w, q>> # <<u, p>>
  <2>1. HasLink(v, q) /\ Account(v, q)' = Account(v, q) /\ Account(w, q)' = Account(w, q)
    BY <1>2, <1>3, <1>7 DEF HasLink, Account
  <2>. QED
    BY <2>1 DEF OnePersonPerAccount
<1>. QED
  BY <1>5, <1>6, <1>7

\* Taking links away keeps people apart too.
LEMMA RemovalKeepsApart ==
  ASSUME TypeOK, OnePersonPerAccount,
         \A a \in Pairs : link'[a] = link[a] \/ link'[a] = NoLink
  PROVE  OnePersonPerAccount'
<1>. SUFFICES ASSUME NEW v \in Users, NEW w \in Users, NEW q \in Providers,
                     v # w, HasLink(v, q)'
              PROVE  Account(v, q)' # Account(w, q)'
  BY DEF OnePersonPerAccount
<1>1. <<v, q>> \in Pairs /\ <<w, q>> \in Pairs
  BY DEF Pairs
<1>2. HasLink(v, q) /\ link'[<<v, q>>] = link[<<v, q>>]
  BY <1>1 DEF HasLink
<1>3. Account(v, q) \in Externals
  BY <1>2, LinkNamesAccount
<1>4. CASE link'[<<w, q>>] = NoLink
  BY <1>2, <1>3, <1>4, SlotsAssumption DEF Account, NoLink, Nobody
<1>5. CASE link'[<<w, q>>] = link[<<w, q>>]
  BY <1>2, <1>5 DEF Account, OnePersonPerAccount
<1>. QED
  BY <1>1, <1>4, <1>5

\* Who may change the links, and how.
LEMMA LinkChanges ==
  ASSUME TypeOK, [Next]_vars
  PROVE  \/ link' = link
         \/ \E u \in Users, p \in Providers, e \in Externals :
              LinkByHand(u, p, e) \/ StoreLink(p, u, e)
         \/ \E u \in Users, p \in Providers : DeleteUser(u) \/ UnlinkByHand(u, p)
<1>. USE DEF world, tables, cycle, history
<1>1. \/ \E u \in Users : DeleteUser(u)
      \/ \E u \in Users, p \in Providers : UnlinkByHand(u, p)
      \/ \E u \in Users, p \in Providers, e \in Externals :
           LinkByHand(u, p, e) \/ StoreLink(p, u, e)
      \/ link' = link
  BY DEF Next, vars, World, DirectoryChanges, AccountChanges, Admin, AddManualUser, OwnByHand,
         BeginCycle, Step, SyncIdentity, Observe, LinkPass, Store, StoreAborts, StoreOwners,
         StoreIssues
<1>2. ASSUME NEW u \in Users, DeleteUser(u), Providers = {} PROVE link' = link
  BY <1>2 DEF DeleteUser, TypeOK, Pairs
<1>. QED
  BY <1>1, <1>2

\* A step of the specification keeps people apart.
LEMMA ApartStep ==
  ASSUME TypeOK, OnePersonPerAccount, [Next]_vars
  PROVE  OnePersonPerAccount'
<1>1. CASE link' = link
  BY <1>1 DEF OnePersonPerAccount, HasLink, Account
<1>2. ASSUME NEW u \in Users, NEW p \in Providers, NEW e \in Externals,
             LinkByHand(u, p, e) \/ StoreLink(p, u, e)
      PROVE  OnePersonPerAccount'
  BY <1>2, UpsertKeepsApart DEF LinkByHand, StoreLink
<1>3. ASSUME NEW u \in Users, NEW p \in Providers, DeleteUser(u) \/ UnlinkByHand(u, p)
      PROVE  OnePersonPerAccount'
  <2>1. \A a \in Pairs : link'[a] = link[a] \/ link'[a] = NoLink
    BY <1>3 DEF DeleteUser, UnlinkByHand, TypeOK
  <2>. QED
    BY <2>1, RemovalKeepsApart
<1>. QED
  BY <1>1, <1>2, <1>3, LinkChanges

\* No two people are ever linked to one account: whatever a pass worked out from
\* what it read, and whoever links by hand meanwhile, storing is refused instead.
THEOREM NobodySharesAnAccount == Spec => []OnePersonPerAccount
<1>1. Init => OnePersonPerAccount
  BY DEF Init, OnePersonPerAccount, HasLink, Pairs
<1>2. TypeOK /\ OnePersonPerAccount /\ [Next]_vars => OnePersonPerAccount'
  BY ApartStep
<1>. QED
  BY <1>1, <1>2, LinkerTypeCorrect, PTL DEF Spec

(***************************************************************************)
(* What a pass is about to store gives each person at most one account of  *)
(* a provider, and only people who have none.  It is worked out so, and it *)
(* stays so while nobody else writes links.                                *)
(***************************************************************************)
Fresh(p, new) ==
  \A a \in new : /\ link[<<a[1], p>>] = NoLink
                 /\ \A b \in new : a[1] = b[1] => a = b

StoresFresh == pc \in {"store", "issues"} => \A p \in toStore : Fresh(p, pass[p].new)

\* The links one pass makes for one provider, as it works them out.
LEMMA WorkFresh ==
  ASSUME TypeOK, NEW p \in Providers
  PROVE  Fresh(p, Work(p).new)
<1>1. Work(p).new = Direct(p) \cup Joined(p)
  BY DEF Work
<1>2. ASSUME NEW a \in Direct(p) PROVE ~HasLink(a[1], p) /\ a[1] \in Users /\ a[2] \in Externals
                                       /\ a = <<a[1], a[2]>>
  BY DEF Direct, Candidates, Active
<1>3. ASSUME NEW a \in Joined(p)
      PROVE  /\ ~HasLink(a[1], p) /\ a[1] \in Users /\ a[2] \in Externals
             /\ a = <<a[1], a[2]>> /\ a \in Joinable(p)
             /\ \A e \in Externals : <<a[1], e>> \notin Direct(p)
             /\ \A e \in Externals : <<a[1], e>> \in Joinable(p) => a[2] <= e
  <2>1. a \in Joinable(p) /\ ~HasLink(a[1], p)
    BY DEF Joined
  <2>2. a \in Users \X Externals
    BY <2>1 DEF Joinable
  <2>3. a[1] \in Users /\ a[2] \in Externals /\ a = <<a[1], a[2]>>
    BY <2>2
  <2>4. \A e \in Externals : <<a[1], e>> \notin Direct(p)
    BY DEF Joined
  <2>5. \A e \in Externals : <<a[1], e>> \in Joinable(p) => a[2] <= e
    BY DEF Joined
  <2>. QED
    BY <2>1, <2>3, <2>4, <2>5
<1>4. ASSUME NEW a \in Work(p).new PROVE link[<<a[1], p>>] = NoLink
  BY <1>1, <1>2, <1>3 DEF HasLink
<1>5. ASSUME NEW a \in Work(p).new, NEW b \in Work(p).new, a[1] = b[1] PROVE a = b
  <2>1. CASE a \in Direct(p) /\ b \in Direct(p)
    BY <1>5, <2>1, <1>2 DEF Direct
  <2>2. CASE a \in Direct(p) /\ b \in Joined(p)
    BY <1>5, <2>2, <1>2, <1>3
  <2>3. CASE a \in Joined(p) /\ b \in Direct(p)
    BY <1>5, <2>3, <1>2, <1>3
  <2>4. CASE a \in Joined(p) /\ b \in Joined(p)
    <3>1. <<a[1], b[2]>> \in Joinable(p) /\ <<b[1], a[2]>> \in Joinable(p)
      BY <1>5, <2>4, <1>3
    <3>2. a[2] <= b[2] /\ b[2] <= a[2] /\ a[2] \in Nat /\ b[2] \in Nat
      BY <2>4, <3>1, <1>3, SlotsAssumption
    <3>3. a[2] = b[2]
      BY <3>2
    <3>. QED
      BY <1>5, <2>4, <3>3, <1>3
  <2>. QED
    BY <1>1, <2>1, <2>2, <2>3, <2>4
<1>. QED
  BY <1>4, <1>5 DEF Fresh

\* Nobody but the pass writes links while it stores them.
LEMMA FreshStep ==
  ASSUME ~Concurrent, TypeOK, StoresFresh, [Next]_vars
  PROVE  StoresFresh'
<1>. USE DEF world, tables, cycle, history
<1>1. CASE LinkPass
  <2>1. \A p \in toStore' : p \in Providers /\ pass'[p] = Work(p)
    BY <1>1 DEF LinkPass
  <2>2. \A p \in toStore' : Fresh(p, pass'[p].new)
    BY <2>1, WorkFresh
  <2>3. link' = link
    BY <1>1 DEF LinkPass
  <2>4. ASSUME NEW p \in toStore', NEW a \in pass'[p].new
        PROVE  /\ link'[<<a[1], p>>] = NoLink
               /\ \A b \in pass'[p].new : a[1] = b[1] => a = b
    <3>1. Fresh(p, pass'[p].new)
      BY <2>2
    <3>. QED
      BY <2>3, <3>1 DEF Fresh
  <2>. QED
    BY <2>4 DEF StoresFresh, Fresh
<1>2. ASSUME NEW p \in Providers, NEW u \in Users, NEW e \in Externals, StoreLink(p, u, e)
      PROVE  StoresFresh'
  <2>1. p \in toStore /\ pc = "store" /\ toStore' = toStore /\ <<u, e>> \in pass[p].new
    BY <1>2 DEF StoreLink, Storing
  <2>2. ASSUME NEW q \in toStore, NEW a \in pass'[q].new
        PROVE  link'[<<a[1], q>>] = NoLink /\ \A b \in pass'[q].new : a[1] = b[1] => a = b
    <3>1. q \in Providers /\ pass[q].new \subseteq Users \X Externals
      BY DEF TypeOK, Works
    <3>2. pass'[q].new = IF q = p THEN pass[q].new \ {<<u, e>>} ELSE pass[q].new
      <4>1. pass' = [pass EXCEPT ![p].new = @ \ {<<u, e>>}] /\ pass \in [Providers -> Works]
        BY <1>2 DEF StoreLink, TypeOK
      <4>2. pass[q] \in Works
        BY <3>1, <4>1
      <4>3. CASE q = p
        <5>1. pass'[q] = [pass[q] EXCEPT !.new = @ \ {<<u, e>>}]
          BY <3>1, <4>1, <4>3
        <5>. QED
          BY <4>2, <4>3, <5>1 DEF Works
      <4>4. CASE q # p
        BY <3>1, <4>1, <4>4
      <4>. QED
        BY <4>3, <4>4
    <3>3. a \in pass[q].new /\ (q = p => a # <<u, e>>)
      BY <3>2, <2>2
    <3>4. /\ link[<<a[1], q>>] = NoLink
          /\ \A b \in pass[q].new : a[1] = b[1] => a = b
      BY <2>1, <3>3 DEF StoresFresh, Fresh
    <3>5. <<a[1], q>> # <<u, p>>
      <4>1. q = p => \A b \in pass[q].new : a[1] = b[1] => a = b
        BY <3>4
      <4>. QED
        BY <2>1, <3>3, <4>1
    <3>6. <<a[1], q>> \in Pairs
      BY <3>1, <3>3 DEF Pairs
    <3>7. link'[<<a[1], q>>] = link[<<a[1], q>>]
      BY <1>2, <3>5, <3>6 DEF StoreLink, UpsertLink, TypeOK
    <3>. QED
      BY <3>2, <3>4, <3>7
  <2>. QED
    BY <2>1, <2>2 DEF StoresFresh, Fresh
<1>3. ASSUME NEW p \in Providers, StoreOwners(p) \/ StoreIssues(p) PROVE StoresFresh'
  BY <1>3 DEF StoreOwners, StoreIssues, StoresFresh, Fresh
<1>4. CASE pc' \notin {"store", "issues"}
  BY <1>4 DEF StoresFresh
<1>5. CASE UNCHANGED <<pc, toStore, pass, link>>
  BY <1>5 DEF StoresFresh, Fresh
<1>6. \/ LinkPass
      \/ \E p \in Providers, u \in Users, e \in Externals : StoreLink(p, u, e)
      \/ \E p \in Providers : StoreOwners(p) \/ StoreIssues(p)
      \/ pc' \notin {"store", "issues"}
      \/ UNCHANGED <<pc, toStore, pass, link>>
  BY DEF Next, vars, World, DirectoryChanges, AccountChanges, Admin, AddManualUser, DeleteUser,
         LinkByHand, UnlinkByHand, MayEdit, OwnByHand, BeginCycle, Step, SyncIdentity, Observe,
         Store, StoreAborts, EndCycle
<1>. QED
  BY <1>1, <1>2, <1>3, <1>4, <1>5, <1>6

\* A step of a cycle stores links only for people who have none.
LEMMA KeptStep ==
  ASSUME ~Concurrent, TypeOK, StoresFresh, [Next]_vars, NEW a \in Pairs,
         pc # "idle", link[a] # NoLink
  PROVE  link'[a] = link[a]
<1>1. ASSUME NEW u \in Users, NEW p \in Providers, NEW e \in Externals, StoreLink(p, u, e)
      PROVE  link'[a] = link[a]
  <2>1. link[<<u, p>>] = NoLink
    <3>1. p \in toStore /\ pc = "store" /\ <<u, e>> \in pass[p].new
      BY <1>1 DEF StoreLink, Storing
    <3>2. \A b \in pass[p].new : link[<<b[1], p>>] = NoLink
      BY <3>1 DEF StoresFresh, Fresh
    <3>3. link[<<<<u, e>>[1], p>>] = NoLink
      BY <3>1, <3>2
    <3>. QED
      BY <3>3
  <2>. QED
    BY <1>1, <2>1 DEF StoreLink, UpsertLink, TypeOK
<1>2. ASSUME NEW u \in Users, NEW p \in Providers,
             \/ DeleteUser(u) \/ UnlinkByHand(u, p)
             \/ \E e \in Externals : LinkByHand(u, p, e)
      PROVE  FALSE
  BY <1>2 DEF DeleteUser, UnlinkByHand, LinkByHand, MayEdit
<1>. QED
  BY <1>1, <1>2, LinkChanges

\* When no edit can fall inside a cycle (every deployment that edits links on
\* the command line only), no cycle ever retargets a link.
THEOREM CyclesNeverRetarget == ASSUME ~Concurrent PROVE Spec => NeverRetargets
<1>1. Init => StoresFresh
  BY DEF Init, StoresFresh
<1>2. TypeOK /\ StoresFresh /\ [Next]_vars => StoresFresh'
  BY FreshStep
<1>3. TypeOK /\ StoresFresh /\ [Next]_vars =>
        [\A a \in Pairs : pc # "idle" /\ link[a] # NoLink => link'[a] = link[a]]_vars
  BY KeptStep
<1>. QED
  BY <1>1, <1>2, <1>3, LinkerTypeCorrect, PTL DEF Spec, NeverRetargets

\* Whatever the directory answers, and whether or not it answers, the sync never
\* leaves a household that had somebody active with nobody.
THEOREM TheSyncKeepsSomebody == Spec => SomebodyStays
<1>. DEFINE Stays == pc = "sync" /\ Active # {} => \E u \in Users : user'[u].status = "active"
<1>. USE DEF world, tables, cycle, history
<1>1. ASSUME [Next]_vars, pc = "sync", Active # {}
      PROVE  \E u \in Users : user'[u].status = "active"
  <2>1. CASE user' = user
    BY <1>1, <2>1 DEF Active
  <2>2. ASSUME NEW answer \in SUBSET Listed, SyncIdentity(answer)
        PROVE  \E u \in Users : user'[u].status = "active"
    <3>1. CASE EmptyAnswerRefused(answer)
      BY <2>1, <2>2, <3>1 DEF SyncIdentity
    <3>2. CASE ~EmptyAnswerRefused(answer)
      <4>1. PICK u \in Listed : u \in answer
        BY <1>1, <3>2 DEF EmptyAnswerRefused
      <4>2. u \in Users /\ user'[u].status = "active"
        BY <2>2, <3>2, <4>1 DEF SyncIdentity, Synced, Listed
      <4>. QED
        BY <4>2
    <3>. QED
      BY <3>1, <3>2
  <2>3. user' = user \/ \E answer \in SUBSET Listed : SyncIdentity(answer)
    BY <1>1 DEF Next, vars, World, DirectoryChanges, AccountChanges, Admin, AddManualUser,
                DeleteUser, LinkByHand, UnlinkByHand, OwnByHand, BeginCycle, Step, Observe,
                LinkPass, Store, StoreLink, StoreAborts, StoreOwners, StoreIssues
  <2>. QED
    BY <2>1, <2>2, <2>3
<1>2. [Next]_vars => [Stays]_vars
  BY <1>1
<1>. QED
  BY <1>2, PTL DEF Spec, SomebodyStays

(***************************************************************************)
(* Matches.  Whatever a pass is about to store is either the only match on *)
(* both sides or reached through a subject, and it stays so while nobody   *)
(* else writes links: a stored link can only take a rival away.            *)
(***************************************************************************)
Alone(u, p, e) ==
  /\ p \in Keyed /\ user[u].key # Blank /\ acct[<<p, e>>].key = user[u].key
  /\ \A v \in Active \ {u} : user[v].key # user[u].key \/ HasLink(v, p)
  /\ \A f \in Externals \ {e} :
       /\ Usable(p, f) /\ acct[<<p, f>>].key = user[u].key
       => \E v \in Users : Account(v, p) = f

Matched == pc \in {"store", "issues"} =>
  \A p \in toStore : \A a \in pass[p].new : Alone(a[1], p, a[2]) \/ Reached(a[1], p, a[2])

\* A direct match has no rival on either side (matchDirect).
LEMMA DirectIsAlone ==
  ASSUME TypeOK, NEW p \in Providers, NEW a \in Direct(p)
  PROVE  Alone(a[1], p, a[2])
<1>. DEFINE u == a[1]
            e == a[2]
            key == user[u].key
<1>1. u \in Active /\ e \in Externals /\ Candidates(p, key) = {u} /\ Free(p, key) = {e}
  BY DEF Direct
<1>2. u \in Candidates(p, key) /\ e \in Free(p, key)
  BY <1>1
<1>3. p \in Keyed /\ key # Blank
  BY <1>2 DEF Candidates
<1>4. acct[<<p, e>>].key = key
  BY <1>2 DEF Free
<1>5. ASSUME NEW v \in Active \ {u} PROVE user[v].key # key \/ HasLink(v, p)
  <2>1. v \notin Candidates(p, key)
    BY <1>1
  <2>. QED
    BY <1>3, <2>1 DEF Candidates
<1>6. ASSUME NEW f \in Externals \ {e}, Usable(p, f), acct[<<p, f>>].key = key
      PROVE  \E v \in Users : Account(v, p) = f
  <2>1. f \notin Free(p, key)
    BY <1>1
  <2>. QED
    BY <1>6, <2>1 DEF Free
<1>. QED
  BY <1>3, <1>4, <1>5, <1>6 DEF Alone

\* An account that is joined shares its subject with one that its person owns
\* on another provider that was read (matchBySubject).
LEMMA JoinedIsClaimed ==
  ASSUME NEW p \in Providers, NEW a \in Joined(p)
  PROVE  /\ acct[<<p, a[2]>>].subject # Blank
         /\ \E q \in (Providers \ failed) \ {p}, f \in Externals :
              <<a[1], f>> \in Owned(q) /\ acct[<<q, f>>].subject = acct[<<p, a[2]>>].subject
<1>1. a \in Joinable(p) /\ ~HasLink(a[1], p) /\ \A e \in Externals : <<a[1], e>> \notin Direct(p)
  BY DEF Joined
<1>2. acct[<<p, a[2]>>].subject # Blank /\ a[1] \in Claimants(acct[<<p, a[2]>>].subject)
  BY <1>1 DEF Joinable
<1>3. PICK q \in Providers \ failed, f \in Externals :
        <<a[1], f>> \in Owned(q) /\ acct[<<q, f>>].subject = acct[<<p, a[2]>>].subject
  BY <1>2 DEF Claimants
<1>4. <<a[1], f>> \notin Owned(p)
  BY <1>1 DEF Owned, Holds
<1>. QED
  BY <1>2, <1>3, <1>4

\* The person of an owned account has its link, or is given it by the pass.
LEMMA OwnedIsLinked ==
  ASSUME NEW q \in Providers, NEW u \in Users, NEW f \in Externals, <<u, f>> \in Owned(q)
  PROVE  (Holds(u, q) /\ Account(u, q) = f) \/ <<u, f>> \in Direct(q)
BY DEF Owned

\* So is everything a pass works out.
LEMMA PassMatches ==
  ASSUME TypeOK, LinkPass
  PROVE  Matched'
<1>1. SUFFICES ASSUME NEW p \in toStore', NEW a \in pass'[p].new
               PROVE  Alone(a[1], p, a[2])' \/ Reached(a[1], p, a[2])'
  BY DEF Matched
<1>2. \A q \in Providers \ failed : pass'[q].new = Direct(q) \cup Joined(q)
  BY DEF LinkPass, Work
<1>3. p \in Providers \ failed /\ UNCHANGED <<user, acct, link>>
  BY DEF LinkPass, tables
<1>4. CASE a \in Direct(p)
  <2>1. Alone(a[1], p, a[2])
    BY <1>3, <1>4, DirectIsAlone
  <2>. QED
    BY <1>3, <2>1 DEF Alone, Active, HasLink, Usable, Account
<1>5. CASE a \in Joined(p)
  <2>1. PICK q \in (Providers \ failed) \ {p}, f \in Externals :
          <<a[1], f>> \in Owned(q) /\ acct[<<q, f>>].subject = acct[<<p, a[2]>>].subject
    BY <1>3, <1>5, JoinedIsClaimed
  <2>2. acct[<<p, a[2]>>].subject # Blank /\ a[1] \in Users
    BY <1>3, <1>5, JoinedIsClaimed DEF Joined, Joinable
  <2>3. Account(a[1], q) = f \/ <<a[1], f>> \in pass'[q].new
    BY <1>2, <2>1, <2>2, OwnedIsLinked
  <2>. QED
    BY <1>3, <2>1, <2>2, <2>3 DEF Reached, Account
<1>. QED
  BY <1>1, <1>2, <1>3, <1>4, <1>5

\* What storing one link does to the links and to what is left to store.
LEMMA StoredLink ==
  ASSUME TypeOK, NEW p \in Providers, NEW u \in Users, NEW e \in Externals, StoreLink(p, u, e)
  PROVE  /\ \A a \in Pairs : link'[a] = IF a = <<u, p>> THEN [ext |-> e, origin |-> "matched"]
                                                        ELSE link[a]
         /\ \A q \in Providers :
              pass'[q].new = IF q = p THEN pass[q].new \ {<<u, e>>} ELSE pass[q].new
         /\ \A q \in Providers : pass'[q].owner = pass[q].owner /\ pass'[q].issues = pass[q].issues
<1>1. pass' = [pass EXCEPT ![p].new = @ \ {<<u, e>>}] /\ pass \in [Providers -> Works]
  BY DEF StoreLink, TypeOK
<1>2. ASSUME NEW q \in Providers
      PROVE  /\ pass'[q].new = IF q = p THEN pass[q].new \ {<<u, e>>} ELSE pass[q].new
             /\ pass'[q].owner = pass[q].owner /\ pass'[q].issues = pass[q].issues
  <2>1. pass[q] \in Works
    BY <1>1
  <2>2. CASE q = p
    <3>1. pass'[q] = [pass[q] EXCEPT !.new = @ \ {<<u, e>>}]
      BY <1>1, <2>2
    <3>. QED
      BY <2>1, <2>2, <3>1 DEF Works
  <2>3. CASE q # p
    BY <1>1, <2>3
  <2>. QED
    BY <2>2, <2>3
<1>3. \A a \in Pairs : link'[a] = IF a = <<u, p>> THEN [ext |-> e, origin |-> "matched"]
                                                  ELSE link[a]
  BY DEF StoreLink, UpsertLink, TypeOK
<1>. QED
  BY <1>2, <1>3

\* Storing a link leaves the other matches what they were.
LEMMA StoringKeepsMatches ==
  ASSUME TypeOK, StoresFresh, Matched,
         NEW p \in Providers, NEW u \in Users, NEW e \in Externals, StoreLink(p, u, e)
  PROVE  Matched'
<1>1. pc = "store" /\ p \in toStore /\ toStore' = toStore /\ <<u, e>> \in pass[p].new
  BY DEF StoreLink, Storing
<1>2. UNCHANGED <<user, acct>>
  BY DEF StoreLink
<1>3. link[<<u, p>>] = NoLink
  <2>1. \A a \in pass[p].new : link[<<a[1], p>>] = NoLink
    BY <1>1 DEF StoresFresh, Fresh
  <2>2. link[<<<<u, e>>[1], p>>] = NoLink
    BY <1>1, <2>1
  <2>. QED
    BY <2>2
<1>4. ASSUME NEW v \in Users, NEW q \in Providers, HasLink(v, q)
      PROVE  link'[<<v, q>>] = link[<<v, q>>] /\ HasLink(v, q)'
  <2>1. <<v, q>> \in Pairs /\ <<v, q>> # <<u, p>>
    BY <1>3, <1>4 DEF Pairs, HasLink
  <2>. QED
    BY <1>4, <2>1, StoredLink DEF HasLink
<1>5. ASSUME NEW v \in Users, NEW q \in Providers, NEW f \in Externals, Account(v, q) = f
      PROVE  Account(v, q)' = f
  <2>1. HasLink(v, q)
    BY <1>5, SlotsAssumption DEF HasLink, Account, NoLink, Nobody
  <2>. QED
    BY <1>4, <1>5, <2>1 DEF Account
<1>6. <<u, p>> \in Pairs /\ Account(u, p)' = e
  <2>1. <<u, p>> \in Pairs
    BY DEF Pairs
  <2>2. link'[<<u, p>>] = [ext |-> e, origin |-> "matched"]
    BY <2>1, StoredLink
  <2>. QED
    BY <2>1, <2>2 DEF Account
<1>7. ASSUME NEW q \in toStore, NEW a \in pass'[q].new
      PROVE  Alone(a[1], q, a[2])' \/ Reached(a[1], q, a[2])'
  <2>1. q \in Providers /\ pass[q].new \subseteq Users \X Externals
    BY DEF TypeOK, Works
  <2>2. a \in pass[q].new
    BY <2>1, StoredLink
  <2>3. a[1] \in Users /\ a[2] \in Externals
    BY <2>1, <2>2
  <2>4. CASE Alone(a[1], q, a[2])
    <3>1. \A v \in Active \ {a[1]} : user[v].key # user[a[1]].key \/ HasLink(v, q)'
      BY <1>4, <2>1, <2>4 DEF Alone, Active
    <3>2. \A f \in Externals \ {a[2]} :
            /\ Usable(q, f) /\ acct[<<q, f>>].key = user[a[1]].key
            => \E v \in Users : Account(v, q)' = f
      BY <1>5, <2>1, <2>4 DEF Alone
    <3>3. q \in Keyed /\ user[a[1]].key # Blank /\ acct[<<q, a[2]>>].key = user[a[1]].key
      BY <2>4 DEF Alone
    <3>. QED
      BY <1>2, <3>1, <3>2, <3>3 DEF Alone, Active, Usable
  <2>5. CASE Reached(a[1], q, a[2])
    <3>1. PICK r \in Providers \ {q}, f \in Externals :
            /\ Account(a[1], r) = f \/ <<a[1], f>> \in pass[r].new
            /\ acct[<<r, f>>].subject = acct[<<q, a[2]>>].subject
      BY <2>5 DEF Reached
    <3>2. Account(a[1], r)' = f \/ <<a[1], f>> \in pass'[r].new
      <4>1. CASE Account(a[1], r) = f
        BY <1>5, <2>3, <4>1
      <4>2. CASE <<a[1], f>> \in pass[r].new /\ ~(r = p /\ <<a[1], f>> = <<u, e>>)
        <5>1. pass'[r].new = IF r = p THEN pass[r].new \ {<<u, e>>} ELSE pass[r].new
          BY StoredLink
        <5>. QED
          BY <4>2, <5>1
      <4>3. CASE r = p /\ <<a[1], f>> = <<u, e>>
        BY <1>6, <4>3
      <4>. QED
        BY <3>1, <4>1, <4>2, <4>3
    <3>3. acct[<<q, a[2]>>].subject # Blank
      BY <2>5 DEF Reached
    <3>. QED
      BY <1>2, <3>1, <3>2, <3>3 DEF Reached
  <2>. QED
    BY <1>1, <2>1, <2>2, <2>4, <2>5 DEF Matched
<1>. QED
  BY <1>1, <1>7 DEF Matched

\* All but the owner column of every account.
SameAccounts == \A s \in Slots :
  /\ acct'[s].stored = acct[s].stored /\ acct'[s].writable = acct[s].writable
  /\ acct'[s].key = acct[s].key /\ acct'[s].subject = acct[s].subject

\* These statements touch the owner column and nothing else of an account.
LEMMA OwnersOnly ==
  ASSUME TypeOK, OwnByHand \/ \E p \in Providers : StoreOwners(p) \/ StoreIssues(p)
  PROVE  SameAccounts
<1>. SUFFICES ASSUME NEW s \in Slots
              PROVE  /\ acct'[s].stored = acct[s].stored /\ acct'[s].writable = acct[s].writable
                     /\ acct'[s].key = acct[s].key /\ acct'[s].subject = acct[s].subject
  BY DEF SameAccounts
<1>1. acct[s] \in Rows /\ acct \in [Slots -> Rows]
  BY DEF TypeOK, Rows
<1>2. acct'[s] = acct[s] \/ \E o : acct'[s] = [acct[s] EXCEPT !.owner = o]
  <2>1. CASE OwnByHand
    BY <1>1, <2>1 DEF OwnByHand
  <2>2. ASSUME NEW p \in Providers, StoreOwners(p)
        PROVE  acct'[s] = acct[s] \/ \E o : acct'[s] = [acct[s] EXCEPT !.owner = o]
    BY <2>2 DEF StoreOwners, OwnersStored
  <2>3. ASSUME NEW p \in Providers, StoreIssues(p) PROVE acct'[s] = acct[s]
    BY <2>3 DEF StoreIssues
  <2>. QED
    BY <2>1, <2>2, <2>3
<1>. QED
  BY <1>1, <1>2 DEF Rows

\* Setting owners and issues down leaves the matches alone too.
LEMMA OwnersKeepMatches ==
  ASSUME TypeOK, Matched, SameAccounts, UNCHANGED <<user, link, pass>>, toStore' \subseteq toStore,
         pc \in {"store", "issues"}
  PROVE  Matched'
<1>1. UNCHANGED <<user, link, pass>> /\ toStore' \subseteq toStore /\ pc \in {"store", "issues"}
  OBVIOUS
<1>2. \A s \in Slots :
        /\ acct'[s].stored = acct[s].stored /\ acct'[s].writable = acct[s].writable
        /\ acct'[s].key = acct[s].key /\ acct'[s].subject = acct[s].subject
  BY DEF SameAccounts
<1>3. \A q \in Providers, f \in Externals : <<q, f>> \in Slots
  BY DEF Slots
<1>4. SUFFICES ASSUME NEW q \in toStore, NEW a \in pass[q].new
               PROVE  Alone(a[1], q, a[2])' \/ Reached(a[1], q, a[2])'
  BY <1>1 DEF Matched
<1>5. q \in Providers /\ a[1] \in Users /\ a[2] \in Externals
  BY DEF TypeOK, Works
<1>6. CASE Alone(a[1], q, a[2])
  <2>1. \A f \in Externals : /\ Usable(q, f)' = Usable(q, f)
                             /\ acct'[<<q, f>>].key = acct[<<q, f>>].key
    BY <1>2, <1>3, <1>5 DEF Usable
  <2>2. \A v : HasLink(v, q)' = HasLink(v, q) /\ Account(v, q)' = Account(v, q)
    BY <1>1 DEF HasLink, Account
  <2>3. Active' = Active
    BY <1>1 DEF Active
  <2>. QED
    BY <1>1, <1>5, <1>6, <2>1, <2>2, <2>3 DEF Alone
<1>7. CASE Reached(a[1], q, a[2])
  <2>1. PICK r \in Providers \ {q}, f \in Externals :
          /\ Account(a[1], r) = f \/ <<a[1], f>> \in pass[r].new
          /\ acct[<<r, f>>].subject = acct[<<q, a[2]>>].subject
    BY <1>7 DEF Reached
  <2>2. /\ acct'[<<r, f>>].subject = acct[<<r, f>>].subject
        /\ acct'[<<q, a[2]>>].subject = acct[<<q, a[2]>>].subject
    BY <1>2, <1>3, <1>5
  <2>. QED
    BY <1>1, <1>7, <2>1, <2>2 DEF Reached, Account
<1>. QED
  BY <1>1, <1>4, <1>6, <1>7 DEF Matched

\* A step of the specification keeps the matches.
LEMMA MatchedStep ==
  ASSUME ~Concurrent, TypeOK, StoresFresh, Matched, [Next]_vars
  PROVE  Matched'
<1>. USE DEF world, tables, cycle, history
<1>1. CASE pc' \notin {"store", "issues"}
  BY <1>1 DEF Matched
<1>2. CASE UNCHANGED <<pc, toStore, pass, user, acct, link>>
  <2>1. SameAccounts
    BY <1>2 DEF SameAccounts
  <2>2. CASE pc \in {"store", "issues"}
    BY <1>2, <2>1, <2>2, OwnersKeepMatches
  <2>3. CASE pc \notin {"store", "issues"}
    BY <1>2, <2>3 DEF Matched
  <2>. QED
    BY <2>2, <2>3
<1>3. ASSUME OwnByHand \/ \E p \in Providers : StoreOwners(p) \/ StoreIssues(p),
             pc \in {"store", "issues"}
      PROVE  Matched'
  <2>1. UNCHANGED <<user, link, pass>> /\ toStore' \subseteq toStore
    BY <1>3 DEF OwnByHand, StoreOwners, StoreIssues
  <2>. QED
    BY <1>3, <2>1, OwnersOnly, OwnersKeepMatches
<1>4. \/ LinkPass
      \/ \E p \in Providers, u \in Users, e \in Externals : StoreLink(p, u, e)
      \/ /\ OwnByHand \/ \E p \in Providers : StoreOwners(p) \/ StoreIssues(p)
         /\ pc \in {"store", "issues"}
      \/ pc' \notin {"store", "issues"}
      \/ UNCHANGED <<pc, toStore, pass, user, acct, link>>
  BY DEF Next, vars, World, DirectoryChanges, AccountChanges, Admin, AddManualUser, DeleteUser,
         LinkByHand, UnlinkByHand, MayEdit, OwnByHand, BeginCycle, Step, SyncIdentity, Observe,
         Store, StoreAborts, StoreOwners, StoreIssues, EndCycle
<1>. QED
  BY <1>1, <1>2, <1>3, <1>4, PassMatches, StoringKeepsMatches

\* A step that makes a matched link is a step of the pass.
LEMMA MatchMade ==
  ASSUME TypeOK, [Next]_vars, NEW u \in Users, NEW p \in Providers, NEW e \in Externals,
         pc = "store", link[<<u, p>>] = NoLink,
         link'[<<u, p>>] = [ext |-> e, origin |-> "matched"]
  PROVE  p \in toStore /\ <<u, e>> \in pass[p].new
<1>1. <<u, p>> \in Pairs
  BY DEF Pairs
<1>2. link'[<<u, p>>] # link[<<u, p>>]
  BY SlotsAssumption DEF NoLink, Nobody
<1>3. ASSUME NEW v \in Users, NEW q \in Providers, NEW f \in Externals, StoreLink(q, v, f)
      PROVE  p \in toStore /\ <<u, e>> \in pass[p].new
  <2>1. link'[<<u, p>>] = IF <<u, p>> = <<v, q>> THEN [ext |-> f, origin |-> "matched"]
                                                  ELSE link[<<u, p>>]
    BY <1>1, <1>3, StoredLink
  <2>2. v = u /\ q = p /\ f = e
    BY <1>2, <2>1
  <2>. QED
    BY <1>3, <2>2 DEF StoreLink, Storing
<1>4. ASSUME NEW v \in Users, NEW q \in Providers, NEW f \in Externals, LinkByHand(v, q, f)
      PROVE  FALSE
  <2>1. link'[<<u, p>>] = IF <<u, p>> = <<v, q>> THEN [ext |-> f, origin |-> "manual"]
                                                  ELSE link[<<u, p>>]
    BY <1>1, <1>4 DEF LinkByHand, UpsertLink, TypeOK
  <2>2. link'[<<u, p>>].origin = "manual"
    BY <1>2, <2>1
  <2>. QED
    BY <2>2
<1>5. ASSUME NEW v \in Users, NEW q \in Providers, DeleteUser(v) \/ UnlinkByHand(v, q)
      PROVE  FALSE
  <2>1. link'[<<u, p>>] \in {NoLink, link[<<u, p>>]}
    BY <1>1, <1>5 DEF DeleteUser, UnlinkByHand, TypeOK
  <2>. QED
    BY <1>2, <2>1
<1>. QED
  BY <1>2, <1>3, <1>4, <1>5, LinkChanges

\* When no edit can fall inside a cycle, a link made by a match had no rival when
\* it was stored: nobody else active and without an account has that match
\* value, and no other account with it is free (matchDirect), unless it was
\* reached through its subject (matchBySubject); for any number of providers,
\* though the links are stored one by one and long after they were worked out.
THEOREM MatchesAreUnique == ASSUME ~Concurrent PROVE Spec => NeverGuesses
<1>. DEFINE Rivals(u, p, e) ==
       /\ pc = "store" /\ link[<<u, p>>] = NoLink
       /\ link'[<<u, p>>] = [ext |-> e, origin |-> "matched"]
       /\ ~Reached(u, p, e)
       => /\ p \in Keyed /\ user[u].key # Blank /\ acct[<<p, e>>].key = user[u].key
          /\ \A v \in Active \ {u} : user[v].key # user[u].key \/ HasLink(v, p)
          /\ \A f \in Externals \ {e} :
               /\ Usable(p, f) /\ acct[<<p, f>>].key = user[u].key
               => \E v \in Users : Account(v, p) = f
            None == \A u \in Users, p \in Providers, e \in Externals : Rivals(u, p, e)
<1>1. Init => StoresFresh /\ Matched
  BY DEF Init, StoresFresh, Matched
<1>2. TypeOK /\ StoresFresh /\ [Next]_vars => StoresFresh'
  BY FreshStep
<1>3. TypeOK /\ StoresFresh /\ Matched /\ [Next]_vars => Matched'
  BY MatchedStep
<1>4. ASSUME TypeOK, Matched, [Next]_vars, NEW u \in Users, NEW p \in Providers, NEW e \in Externals
      PROVE  Rivals(u, p, e)
  <2>1. SUFFICES ASSUME pc = "store", link[<<u, p>>] = NoLink,
                        link'[<<u, p>>] = [ext |-> e, origin |-> "matched"],
                        ~Reached(u, p, e)
                 PROVE  Alone(u, p, e)
    BY DEF Alone
  <2>2. p \in toStore /\ <<u, e>> \in pass[p].new
    BY <1>4, <2>1, MatchMade
  <2>3. \A a \in pass[p].new : Alone(a[1], p, a[2]) \/ Reached(a[1], p, a[2])
    BY <1>4, <2>1, <2>2 DEF Matched
  <2>. QED
    BY <2>1, <2>2, <2>3
<1>5. TypeOK /\ Matched /\ [Next]_vars => [None]_vars
  BY <1>4
<1>. QED
  BY <1>1, <1>2, <1>3, <1>5, LinkerTypeCorrect, PTL DEF Spec, NeverGuesses

(***************************************************************************)
(* Owners.  While a cycle nobody disturbs stores what it worked out, the   *)
(* links there are and those it is about to store say who will hold what,  *)
(* and the owners it worked out agree with that.                           *)
(***************************************************************************)
\* The match value does not speak against the account.
Fits(u, p, e) == p \in Keyed /\ user[u].key # Blank => user[u].key = acct[<<p, e>>].key

\* She holds the account, or will once the pass has stored her link.
Firm(u, p, e) ==
  \/ Holds(u, p) /\ Account(u, p) = e
  \/ /\ <<u, e>> \in pass[p].new
     /\ u \in Active /\ Usable(p, e) /\ Fits(u, p, e)

Accounted(p) == \A u \in Users, e \in Externals :
  /\ Firm(u, p, e) => pass[p].owner[e] = u
  /\ pass[p].owner[e] = u =>
       /\ Account(u, p) = e \/ <<u, e>> \in pass[p].new
       /\ \/ Firm(u, p, e)
          \/ \E q \in (Providers \ failed) \ {p}, f \in Externals :
               Firm(u, q, f) /\ acct[<<q, f>>].subject = acct[<<p, e>>].subject

OwnersIn(p) == \A e \in Externals :
  acct[<<p, e>>].stored => acct[<<p, e>>].owner = pass[p].owner[e]

Persisted(p) == pass[p].new = {} /\ OwnersIn(p)

\* Nothing that is not stored has an owner, the world has not changed more often
\* than was counted, and no request of the UI is under way in a quiet cycle.
Quiet ==
  /\ \A s \in Slots : ~acct[s].stored => acct[s].owner = Nobody
  /\ mark = Disturbed \/ left <= mark
  /\ pc # "idle" /\ mark = left => hand = NoHand

Settling == pc \in {"store", "issues"} /\ mark = left =>
  /\ toStore \subseteq Providers \ failed
  /\ \A p \in Providers \ failed :
       /\ Fresh(p, pass[p].new)
       /\ Accounted(p)
       /\ p \notin toStore \/ (pc = "issues" /\ Storing(p)) => Persisted(p)

\* Two people never own one account in a pass.
LEMMA OneHolder ==
  ASSUME TypeOK, OnePersonPerAccount, NEW p \in Providers, NEW e \in Externals,
         NEW u \in Users, NEW v \in Users,
         <<u, e>> \in Owned(p) \cup Joined(p), <<v, e>> \in Owned(p) \cup Joined(p)
  PROVE  u = v
<1>1. ASSUME NEW w \in Users, <<w, e>> \in Direct(p)
      PROVE  /\ Candidates(p, acct[<<p, e>>].key) = {w}
             /\ \A x \in Users : Holds(x, p) => Account(x, p) # e
  <2>1. Candidates(p, user[w].key) = {w} /\ Free(p, user[w].key) = {e}
    BY <1>1 DEF Direct
  <2>2. e \in Free(p, user[w].key)
    BY <2>1
  <2>3. acct[<<p, e>>].key = user[w].key /\ \A x \in Users : Holds(x, p) => Account(x, p) # e
    BY <2>2 DEF Free
  <2>. QED
    BY <2>1, <2>3
<1>2. ASSUME NEW w \in Users, <<w, e>> \in Joined(p)
      PROVE  /\ Claimants(acct[<<p, e>>].subject) = {w}
             /\ \A x \in Users : <<x, e>> \notin Owned(p)
  BY <1>2 DEF Joined, Joinable
<1>3. ASSUME NEW w \in Users, <<w, e>> \in Owned(p)
      PROVE  (Holds(w, p) /\ Account(w, p) = e) \/ <<w, e>> \in Direct(p)
  BY <1>3 DEF Owned
<1>4. CASE <<u, e>> \in Joined(p) \/ <<v, e>> \in Joined(p)
  BY <1>2, <1>4
<1>5. CASE <<u, e>> \in Owned(p) /\ <<v, e>> \in Owned(p)
  <2>1. CASE <<u, e>> \in Direct(p) \/ <<v, e>> \in Direct(p)
    BY <1>1, <1>3, <1>5, <2>1
  <2>2. CASE Holds(u, p) /\ Account(u, p) = e /\ Holds(v, p) /\ Account(v, p) = e
    BY <2>2 DEF Holds, OnePersonPerAccount
  <2>. QED
    BY <1>3, <1>5, <2>1, <2>2
<1>. QED
  BY <1>4, <1>5

\* The owner a pass works out for an account is whoever it found for it.
LEMMA OwnerIsHolder ==
  ASSUME TypeOK, OnePersonPerAccount, NEW p \in Providers, NEW e \in Externals, NEW u \in Users
  PROVE  Work(p).owner[e] = u <=> <<u, e>> \in Owned(p) \cup Joined(p)
<1>. DEFINE holders == {w \in Users : <<w, e>> \in Owned(p) \cup Joined(p)}
<1>1. Work(p).owner[e] = IF holders = {} THEN Nobody ELSE CHOOSE w \in holders : TRUE
  BY DEF Work
<1>2. u # Nobody
  BY PeopleAssumption DEF Nobody
<1>3. ASSUME Work(p).owner[e] = u PROVE u \in holders
  BY <1>1, <1>2, <1>3
<1>4. ASSUME u \in holders PROVE Work(p).owner[e] = u
  <2>1. (CHOOSE w \in holders : TRUE) \in holders
    BY <1>4
  <2>2. \A w \in holders : w = u
    BY <1>4, OneHolder
  <2>3. (CHOOSE w \in holders : TRUE) = u
    BY <2>1, <2>2
  <2>. QED
    BY <1>1, <1>4, <2>3
<1>. QED
  BY <1>3, <1>4

\* Direct matches fit.
LEMMA DirectFits ==
  ASSUME TypeOK, NEW p \in Providers, NEW u \in Users, NEW e \in Externals, <<u, e>> \in Direct(p)
  PROVE  u \in Active /\ Usable(p, e) /\ Fits(u, p, e) /\ ~HasLink(u, p)
<1>1. u \in Active /\ Candidates(p, user[u].key) = {u} /\ Free(p, user[u].key) = {e}
  BY DEF Direct
<1>2. u \in Candidates(p, user[u].key) /\ e \in Free(p, user[u].key)
  BY <1>1
<1>3. Usable(p, e) /\ acct[<<p, e>>].key = user[u].key
  BY <1>2 DEF Free
<1>4. ~HasLink(u, p)
  BY <1>2 DEF Candidates
<1>. QED
  BY <1>1, <1>3, <1>4 DEF Fits

\* Holding an account is being linked to a usable one that fits, or linked by hand.
LEMMA HoldsIs ==
  ASSUME NEW u \in Users, NEW p \in Providers, link[<<u, p>>] # NoLink
  PROVE  Holds(u, p) <=>
           /\ u \in Active /\ Usable(p, Account(u, p))
           /\ link[<<u, p>>].origin = "matched" => Fits(u, p, Account(u, p))
BY DEF Holds, Dangling, Stale, HasLink, Fits

\* What LinkPass works out is accounted for.
LEMMA PassSettles ==
  ASSUME TypeOK, OnePersonPerAccount, LinkPass
  PROVE  Settling'
<1>1. \A p \in Providers \ failed : pass'[p] = Work(p)
  BY DEF LinkPass
<1>2. UNCHANGED <<user, acct, link, failed>> /\ toStore' = Providers \ failed
      /\ pc' \in {"idle", "store"}
  BY DEF LinkPass, EndCycle, tables
<1>3. ASSUME NEW p \in Providers \ failed PROVE Fresh(p, pass[p].new)'
  <2>1. Fresh(p, Work(p).new) /\ pass'[p].new = Work(p).new
    BY <1>1, WorkFresh
  <2>. QED
    BY <1>2, <2>1 DEF Fresh
<1>4. ASSUME NEW p \in Providers \ failed PROVE pass'[p].new = Direct(p) \cup Joined(p)
  <2>1. Work(p).new = Direct(p) \cup Joined(p)
    BY DEF Work
  <2>. QED
    BY <1>1, <2>1
<1>5. ASSUME NEW u \in Users, NEW p \in Providers \ failed, NEW e \in Externals
      PROVE  Firm(u, p, e)' <=>
               \/ Holds(u, p) /\ Account(u, p) = e
               \/ /\ <<u, e>> \in Direct(p) \cup Joined(p)
                  /\ u \in Active /\ Usable(p, e) /\ Fits(u, p, e)
  <2>1. /\ Holds(u, p)' <=> Holds(u, p)
        /\ Account(u, p)' = Account(u, p)
        /\ (u \in Active)' <=> u \in Active
        /\ Usable(p, e)' <=> Usable(p, e)
        /\ Fits(u, p, e)' <=> Fits(u, p, e)
    BY <1>2 DEF Holds, Dangling, Stale, HasLink, Account, Active, Usable, Fits
  <2>. QED
    BY <1>4, <2>1 DEF Firm
<1>6. ASSUME NEW u \in Users, NEW p \in Providers \ failed, NEW e \in Externals, <<u, e>> \in Owned(p)
      PROVE  Firm(u, p, e)'
  BY <1>5, <1>6, OwnedIsLinked, DirectFits
<1>7. ASSUME NEW p \in Providers \ failed, NEW u \in Users, NEW e \in Externals
      PROVE  /\ Firm(u, p, e)' => pass'[p].owner[e] = u
             /\ pass'[p].owner[e] = u =>
                  /\ Account(u, p)' = e \/ <<u, e>> \in pass'[p].new
                  /\ \/ Firm(u, p, e)'
                     \/ \E q \in (Providers \ failed) \ {p}, f \in Externals :
                          Firm(u, q, f)' /\ acct'[<<q, f>>].subject = acct'[<<p, e>>].subject
  <2>1. pass'[p].owner[e] = u <=> <<u, e>> \in Owned(p) \cup Joined(p)
    BY <1>1, OwnerIsHolder
  <2>2. ASSUME Firm(u, p, e)' PROVE <<u, e>> \in Owned(p) \cup Joined(p)
    BY <1>5, <2>2 DEF Owned
  <2>3. ASSUME <<u, e>> \in Owned(p)
        PROVE  (Account(u, p)' = e \/ <<u, e>> \in pass'[p].new) /\ Firm(u, p, e)'
    <3>1. Account(u, p) = e \/ <<u, e>> \in Direct(p)
      BY <2>3, OwnedIsLinked
    <3>. QED
      BY <1>2, <1>4, <1>6, <2>3, <3>1 DEF Account
  <2>4. ASSUME <<u, e>> \in Joined(p)
        PROVE  /\ <<u, e>> \in pass'[p].new
               /\ \E q \in (Providers \ failed) \ {p}, f \in Externals :
                    Firm(u, q, f)' /\ acct'[<<q, f>>].subject = acct'[<<p, e>>].subject
    <3>1. PICK q \in (Providers \ failed) \ {p}, f \in Externals :
            <<u, f>> \in Owned(q) /\ acct[<<q, f>>].subject = acct[<<p, e>>].subject
      <4>1. <<u, e>>[1] = u /\ <<u, e>>[2] = e
        OBVIOUS
      <4>. QED
        BY <2>4, <4>1, JoinedIsClaimed
    <3>2. Firm(u, q, f)'
      BY <1>6, <3>1
    <3>. QED
      BY <1>2, <1>4, <2>4, <3>1, <3>2
  <2>. QED
    BY <2>1, <2>2, <2>3, <2>4
<1>8. ASSUME NEW p \in Providers \ failed PROVE Accounted(p)'
  <2>1. \A u \in Users, e \in Externals :
          /\ Firm(u, p, e)' => pass'[p].owner[e] = u
          /\ pass'[p].owner[e] = u =>
               /\ Account(u, p)' = e \/ <<u, e>> \in pass'[p].new
               /\ \/ Firm(u, p, e)'
                  \/ \E q \in (Providers \ failed) \ {p}, f \in Externals :
                       Firm(u, q, f)' /\ acct'[<<q, f>>].subject = acct'[<<p, e>>].subject
    BY <1>7
  <2>2. failed' = failed
    BY <1>2
  <2>. QED
    BY <2>1, <2>2 DEF Accounted
<1>9. failed' = failed /\ toStore' = Providers \ failed /\ pc' # "issues"
  BY <1>2
<1>. QED
  BY <1>3, <1>8, <1>9 DEF Settling

\* What is left to store for one provider.
LEMMA StoredWork ==
  ASSUME TypeOK, NEW p \in Providers, NEW u \in Users, NEW e \in Externals, StoreLink(p, u, e),
         NEW q \in Providers
  PROVE  pass'[q].new = IF q = p THEN pass[q].new \ {<<u, e>>} ELSE pass[q].new
BY StoredLink

\* A link that is stored turns what would be held into what is.
LEMMA StoringKeepsFirm ==
  ASSUME TypeOK, NEW p \in Providers, NEW u \in Users, NEW e \in Externals, StoreLink(p, u, e),
         Fresh(p, pass[p].new),
         NEW v \in Users, NEW q \in Providers, NEW f \in Externals
  PROVE  /\ Firm(v, q, f)' <=> Firm(v, q, f)
         /\ Account(v, q)' = f \/ <<v, f>> \in pass'[q].new
              <=> Account(v, q) = f \/ <<v, f>> \in pass[q].new
<1>1. UNCHANGED <<user, acct>> /\ <<u, e>> \in pass[p].new
  BY DEF StoreLink
<1>2. /\ \A w \in Users, r \in Providers : (w \in Active)' <=> w \in Active
      /\ \A r \in Providers, g \in Externals : Usable(r, g)' <=> Usable(r, g)
      /\ \A w \in Users, r \in Providers, g \in Externals : Fits(w, r, g)' <=> Fits(w, r, g)
  <2>1. \A w \in Users : (w \in Active)' <=> w \in Active
    BY <1>1 DEF Active
  <2>2. \A r \in Providers, g \in Externals : Usable(r, g)' <=> Usable(r, g)
    BY <1>1 DEF Usable
  <2>3. \A w \in Users, r \in Providers, g \in Externals : Fits(w, r, g)' <=> Fits(w, r, g)
    BY <1>1 DEF Fits
  <2>. QED
    BY <2>1, <2>2, <2>3
<1>3. /\ <<v, q>> \in Pairs
      /\ link'[<<v, q>>] = IF <<v, q>> = <<u, p>> THEN [ext |-> e, origin |-> "matched"]
                                                  ELSE link[<<v, q>>]
      /\ pass'[q].new = IF q = p THEN pass[q].new \ {<<u, e>>} ELSE pass[q].new
  <2>1. <<v, q>> \in Pairs
    BY DEF Pairs
  <2>2. \A a \in Pairs : link'[a] = IF a = <<u, p>> THEN [ext |-> e, origin |-> "matched"]
                                                   ELSE link[a]
    BY StoredLink
  <2>3. pass'[q].new = IF q = p THEN pass[q].new \ {<<u, e>>} ELSE pass[q].new
    BY StoredWork
  <2>. QED
    BY <2>1, <2>2, <2>3
<1>4. CASE <<v, q>> = <<u, p>>
  <2>1. v = u /\ q = p
    BY <1>4
  <2>2. link[<<u, p>>] = NoLink /\ \A g \in Externals : <<u, g>> \in pass[p].new => g = e
    <3>1. \A a \in pass[p].new : link[<<a[1], p>>] = NoLink /\ \A b \in pass[p].new : a[1] = b[1] => a = b
      BY DEF Fresh
    <3>2. link[<<<<u, e>>[1], p>>] = NoLink
          /\ \A b \in pass[p].new : <<u, e>>[1] = b[1] => <<u, e>> = b
      BY <1>1, <3>1
    <3>3. ASSUME NEW g \in Externals, <<u, g>> \in pass[p].new PROVE g = e
      <4>1. <<u, e>>[1] = <<u, g>>[1]
        OBVIOUS
      <4>2. <<u, e>> = <<u, g>>
        BY <3>2, <3>3, <4>1
      <4>. QED
        BY <4>2
    <3>. QED
      BY <3>2, <3>3
  <2>3. ~HasLink(u, p) /\ Account(u, p) # f
    BY <2>2, SlotsAssumption DEF HasLink, Account, NoLink, Nobody
  <2>4. /\ link'[<<u, p>>] # NoLink /\ link'[<<u, p>>].origin = "matched"
        /\ Account(u, p)' = e /\ HasLink(u, p)'
    <3>1. link'[<<u, p>>] = [ext |-> e, origin |-> "matched"]
      BY <1>3, <2>1
    <3>. QED
      BY <3>1, SlotsAssumption DEF NoLink, Nobody, Account, HasLink
  <2>5. Holds(u, p)' <=> u \in Active /\ Usable(p, e) /\ Fits(u, p, e)
    <3>1. Holds(u, p)' <=>
            /\ (u \in Active)' /\ Usable(p, Account(u, p))'
            /\ link'[<<u, p>>].origin = "matched" => Fits(u, p, Account(u, p))'
      BY <2>4 DEF Holds, Dangling, Stale, HasLink, Fits
    <3>2. /\ Usable(p, Account(u, p))' <=> Usable(p, e)
          /\ Fits(u, p, Account(u, p))' <=> Fits(u, p, e)
      BY <1>1, <2>4 DEF Usable, Fits
    <3>. QED
      BY <1>2, <2>4, <3>1, <3>2
  <2>6. <<u, f>> \notin pass'[p].new /\ (<<u, f>> \in pass[p].new <=> f = e)
    BY <1>1, <1>3, <2>1, <2>2
  <2>7. Firm(u, p, f) <=> f = e /\ u \in Active /\ Usable(p, e) /\ Fits(u, p, e)
    BY <2>3, <2>6 DEF Firm
  <2>8. Firm(u, p, f)' <=> Holds(u, p)' /\ f = e
    BY <2>4, <2>6 DEF Firm
  <2>. QED
    BY <2>1, <2>3, <2>4, <2>5, <2>6, <2>7, <2>8
<1>5. CASE <<v, q>> # <<u, p>>
  <2>1. link'[<<v, q>>] = link[<<v, q>>] /\ Account(v, q)' = Account(v, q)
    BY <1>3, <1>5 DEF Account
  <2>2. Holds(v, q)' <=> Holds(v, q)
    BY <1>1, <2>1 DEF Holds, Dangling, Stale, HasLink, Account, Active, Usable
  <2>3. <<v, f>> \in pass'[q].new <=> <<v, f>> \in pass[q].new
    BY <1>3, <1>5
  <2>. QED
    BY <1>2, <2>1, <2>2, <2>3 DEF Firm
<1>. QED
  BY <1>4, <1>5

\* Storing a link keeps the accounts, and the work on other providers, as it was.
LEMMA StoringSettles ==
  ASSUME TypeOK, Settling, mark = left,
         NEW p \in Providers, NEW u \in Users, NEW e \in Externals, StoreLink(p, u, e)
  PROVE  Settling'
<1>1. /\ pc = "store" /\ pc' = "store" /\ p \in toStore /\ <<u, e>> \in pass[p].new
      /\ UNCHANGED <<user, acct, toStore, failed>>
  BY DEF StoreLink, Storing
<1>2. /\ toStore \subseteq Providers \ failed
      /\ \A q \in Providers \ failed :
           /\ Fresh(q, pass[q].new) /\ Accounted(q)
           /\ q \notin toStore => Persisted(q)
  BY <1>1 DEF Settling
<1>3. p \in Providers \ failed /\ Fresh(p, pass[p].new)
  BY <1>1, <1>2
<1>4. ASSUME NEW q \in Providers \ failed PROVE Accounted(q)'
  <2>1. pass'[q].owner = pass[q].owner
    BY StoredLink
  <2>2. ASSUME NEW v \in Users, NEW f \in Externals
        PROVE  /\ Firm(v, q, f)' => pass'[q].owner[f] = v
               /\ pass'[q].owner[f] = v =>
                    /\ Account(v, q)' = f \/ <<v, f>> \in pass'[q].new
                    /\ \/ Firm(v, q, f)'
                       \/ \E r \in (Providers \ failed) \ {q}, g \in Externals :
                            Firm(v, r, g)' /\ acct'[<<r, g>>].subject = acct'[<<q, f>>].subject
    <3>1. /\ Firm(v, q, f) => pass[q].owner[f] = v
          /\ pass[q].owner[f] = v =>
               /\ Account(v, q) = f \/ <<v, f>> \in pass[q].new
               /\ \/ Firm(v, q, f)
                  \/ \E r \in (Providers \ failed) \ {q}, g \in Externals :
                       Firm(v, r, g) /\ acct[<<r, g>>].subject = acct[<<q, f>>].subject
      <4>1. Accounted(q)
        BY <1>2
      <4>. QED
        BY <4>1 DEF Accounted
    <3>2. \A r \in Providers, g \in Externals : Firm(v, r, g)' <=> Firm(v, r, g)
      BY <1>3, StoringKeepsFirm
    <3>3. Account(v, q)' = f \/ <<v, f>> \in pass'[q].new
            <=> Account(v, q) = f \/ <<v, f>> \in pass[q].new
      BY <1>3, StoringKeepsFirm
    <3>4. acct' = acct
      BY <1>1
    <3>. QED
      BY <2>1, <3>1, <3>2, <3>3, <3>4
  <2>3. \A v \in Users, f \in Externals :
               /\ Firm(v, q, f)' => pass'[q].owner[f] = v
               /\ pass'[q].owner[f] = v =>
                    /\ Account(v, q)' = f \/ <<v, f>> \in pass'[q].new
                    /\ \/ Firm(v, q, f)'
                       \/ \E r \in (Providers \ failed) \ {q}, g \in Externals :
                            Firm(v, r, g)' /\ acct'[<<r, g>>].subject = acct'[<<q, f>>].subject
    BY <2>2
  <2>4. failed' = failed
    BY <1>1
  <2>. QED
    BY <2>3, <2>4 DEF Accounted
<1>5. ASSUME NEW q \in Providers \ failed PROVE Fresh(q, pass[q].new)'
  <2>1. pass'[q].new = IF q = p THEN pass[q].new \ {<<u, e>>} ELSE pass[q].new
    BY StoredLink
  <2>2. \A a \in pass[q].new : link[<<a[1], q>>] = NoLink /\ \A b \in pass[q].new : a[1] = b[1] => a = b
    BY <1>2 DEF Fresh
  <2>3. ASSUME NEW a \in pass'[q].new PROVE link'[<<a[1], q>>] = NoLink
    <3>1. a \in pass[q].new /\ (q = p => a # <<u, e>>)
      BY <2>1, <2>3
    <3>2. <<a[1], q>> # <<u, p>>
      <4>1. q = p => a[1] # u
        BY <1>1, <2>2, <3>1
      <4>. QED
        BY <4>1
    <3>3. <<a[1], q>> \in Pairs
      <4>1. pass[q].new \subseteq Users \X Externals
        BY DEF TypeOK, Works
      <4>. QED
        BY <3>1, <4>1 DEF Pairs
    <3>4. \A b \in Pairs : link'[b] = IF b = <<u, p>> THEN [ext |-> e, origin |-> "matched"]
                                                     ELSE link[b]
      BY StoredLink
    <3>5. link'[<<a[1], q>>] = link[<<a[1], q>>]
      BY <3>2, <3>3, <3>4
    <3>. QED
      BY <2>2, <3>1, <3>5
  <2>4. \A a, b \in pass'[q].new : a[1] = b[1] => a = b
    BY <2>1, <2>2
  <2>. QED
    BY <2>3, <2>4 DEF Fresh
<1>6. ASSUME NEW q \in Providers \ failed, q \notin toStore PROVE Persisted(q)'
  <2>1. pass'[q].new = pass[q].new /\ pass'[q].owner = pass[q].owner
    <3>1. q # p
      BY <1>1, <1>6
    <3>. QED
      BY <3>1, StoredLink
  <2>. QED
    BY <1>1, <1>2, <1>6, <2>1 DEF Persisted, OwnersIn
<1>7. UNCHANGED <<failed, toStore>> /\ pc' # "issues"
  BY <1>1
<1>. QED
  BY <1>2, <1>4, <1>5, <1>6, <1>7 DEF Settling

\* What the owner columns say changes nothing of what is held.
LEMMA OwnersKeepFirm ==
  ASSUME TypeOK, SameAccounts, UNCHANGED <<user, link, pass>>,
         NEW v \in Users, NEW q \in Providers, NEW f \in Externals
  PROVE  Firm(v, q, f)' <=> Firm(v, q, f)
<1>1. \A g \in Externals : <<q, g>> \in Slots
  BY DEF Slots
<1>2. \A g \in Externals :
        /\ acct'[<<q, g>>].stored = acct[<<q, g>>].stored
        /\ acct'[<<q, g>>].writable = acct[<<q, g>>].writable
        /\ acct'[<<q, g>>].key = acct[<<q, g>>].key
  BY <1>1 DEF SameAccounts
<1>3. \A g \in Externals :
        /\ Usable(q, g)' <=> Usable(q, g)
        /\ Fits(v, q, g)' <=> Fits(v, q, g)
  BY <1>2 DEF Usable, Fits
<1>4. /\ Account(v, q)' = Account(v, q) /\ (HasLink(v, q)' <=> HasLink(v, q))
      /\ (v \in Active)' <=> v \in Active
  BY DEF Account, HasLink, Active
<1>5. Holds(v, q)' <=> Holds(v, q)
  <2>1. CASE HasLink(v, q)
    <3>1. Account(v, q) \in Externals
      BY <2>1, LinkNamesAccount
    <3>2. /\ Usable(q, Account(v, q))' <=> Usable(q, Account(v, q))
          /\ acct'[<<q, Account(v, q)>>].key = acct[<<q, Account(v, q)>>].key
      BY <1>2, <1>3, <1>4, <3>1 DEF Usable
    <3>. QED
      BY <1>4, <3>2 DEF Holds, Dangling, Stale
  <2>2. CASE ~HasLink(v, q)
    BY <1>4, <2>2 DEF Holds
  <2>. QED
    BY <2>1, <2>2
<1>. QED
  BY <1>3, <1>4, <1>5 DEF Firm

\* Nor do they change what the pass accounts for.
LEMMA OwnersKeepAccounted ==
  ASSUME TypeOK, SameAccounts, UNCHANGED <<user, link, pass, failed>>, NEW q \in Providers
  PROVE  Accounted(q) => Accounted(q)'
<1>. DEFINE Fair(v, f) ==
       /\ Firm(v, q, f) => pass[q].owner[f] = v
       /\ pass[q].owner[f] = v =>
            /\ Account(v, q) = f \/ <<v, f>> \in pass[q].new
            /\ \/ Firm(v, q, f)
               \/ \E r \in (Providers \ failed) \ {q}, g \in Externals :
                    Firm(v, r, g) /\ acct[<<r, g>>].subject = acct[<<q, f>>].subject
<1>1. Accounted(q) <=> \A v \in Users, f \in Externals : Fair(v, f)
  BY DEF Accounted
<1>2. Accounted(q)' <=> \A v \in Users, f \in Externals : Fair(v, f)'
  BY DEF Accounted
<1>3. \A r \in Providers, g \in Externals : acct'[<<r, g>>].subject = acct[<<r, g>>].subject
  <2>1. \A r \in Providers, g \in Externals : <<r, g>> \in Slots
    BY DEF Slots
  <2>. QED
    BY <2>1 DEF SameAccounts
<1>4. ASSUME NEW v \in Users, NEW f \in Externals PROVE Fair(v, f) => Fair(v, f)'
  <2>1. \A r \in Providers, g \in Externals : Firm(v, r, g)' <=> Firm(v, r, g)
    BY OwnersKeepFirm
  <2>2. Account(v, q)' = Account(v, q) /\ pass' = pass
    BY DEF Account
  <2>. QED
    BY <1>3, <2>1, <2>2
<1>. HIDE DEF Fair
<1>. QED
  BY <1>1, <1>2, <1>4

\* Storing the owners of a provider makes its accounts agree with the pass.
LEMMA OwnersSettle ==
  ASSUME TypeOK, Settling, mark = left, NEW p \in Providers, StoreOwners(p)
  PROVE  Settling'
<1>1. /\ pc = "store" /\ pc' = "issues" /\ Storing(p) /\ pass[p].new = {}
      /\ acct' = OwnersStored(p)
      /\ UNCHANGED <<user, link, pass, toStore, failed>>
  BY DEF StoreOwners
<1>2. /\ toStore \subseteq Providers \ failed
      /\ \A q \in Providers \ failed :
           /\ Fresh(q, pass[q].new) /\ Accounted(q)
           /\ q \notin toStore => Persisted(q)
  BY <1>1 DEF Settling
<1>3. SameAccounts
  BY OwnersOnly
<1>4. ASSUME NEW q \in Providers \ failed PROVE Fresh(q, pass[q].new)' /\ Accounted(q)'
  <2>1. Fresh(q, pass[q].new) /\ Accounted(q)
    BY <1>2
  <2>2. Fresh(q, pass[q].new)'
    BY <1>1, <2>1 DEF Fresh
  <2>3. Accounted(q)'
    BY <1>1, <1>3, <2>1, OwnersKeepAccounted
  <2>. QED
    BY <2>2, <2>3
<1>5. \A q \in Providers, e \in Externals :
        acct'[<<q, e>>] = IF q = p /\ acct[<<q, e>>].stored
                          THEN [acct[<<q, e>>] EXCEPT !.owner = pass[p].owner[e]]
                          ELSE acct[<<q, e>>]
  BY <1>1 DEF OwnersStored, Slots
<1>6. ASSUME NEW q \in Providers \ failed, q \notin toStore PROVE Persisted(q)'
  <2>1. q # p /\ Persisted(q)
    BY <1>1, <1>2, <1>6 DEF Storing
  <2>2. \A e \in Externals : acct'[<<q, e>>] = acct[<<q, e>>]
    BY <1>5, <2>1
  <2>. QED
    BY <1>1, <2>1, <2>2 DEF Persisted, OwnersIn
<1>7. ASSUME NEW q \in Providers \ failed, Storing(q) PROVE Persisted(q)'
  <2>1. q = p
    BY <1>1, <1>7, SlotsAssumption DEF Storing
  <2>2. \A e \in Externals : acct'[<<p, e>>].stored => acct'[<<p, e>>].owner = pass[p].owner[e]
    <3>1. ASSUME NEW e \in Externals, acct'[<<p, e>>].stored
          PROVE  acct'[<<p, e>>].owner = pass[p].owner[e]
      <4>1. acct[<<p, e>>] \in Rows
        BY DEF TypeOK, Rows, Slots
      <4>. QED
        BY <1>5, <3>1, <4>1 DEF Rows
    <3>. QED
      BY <3>1
  <2>. QED
    BY <1>1, <2>1, <2>2 DEF Persisted, OwnersIn
<1>8. \A q \in Providers : Storing(q)' <=> Storing(q)
  BY <1>1 DEF Storing
<1>9. UNCHANGED <<failed, toStore>>
  BY <1>1
<1>. QED
  BY <1>2, <1>4, <1>6, <1>7, <1>8, <1>9 DEF Settling

\* Storing the issues of a provider is the last of it.
LEMMA IssuesSettle ==
  ASSUME TypeOK, Settling, mark = left, NEW p \in Providers, StoreIssues(p)
  PROVE  Settling' /\ \A q \in Providers \ failed : q \notin toStore' => Persisted(q)
<1>1. /\ pc = "issues" /\ Storing(p) /\ toStore' = toStore \ {p} /\ pc' # "issues"
      /\ UNCHANGED <<user, acct, link, pass, failed>>
  BY DEF StoreIssues, EndCycle
<1>2. /\ toStore \subseteq Providers \ failed
      /\ \A q \in Providers \ failed :
           /\ Fresh(q, pass[q].new) /\ Accounted(q)
           /\ q \notin toStore \/ Storing(q) => Persisted(q)
  BY <1>1 DEF Settling
<1>3. SameAccounts
  BY OwnersOnly
<1>4. ASSUME NEW q \in Providers \ failed PROVE Fresh(q, pass[q].new)' /\ Accounted(q)'
  <2>1. Fresh(q, pass[q].new) /\ Accounted(q)
    BY <1>2
  <2>2. Fresh(q, pass[q].new)'
    BY <1>1, <2>1 DEF Fresh
  <2>3. Accounted(q)'
    BY <1>1, <1>3, <2>1, OwnersKeepAccounted
  <2>. QED
    BY <2>2, <2>3
<1>5. ASSUME NEW q \in Providers \ failed, q \notin toStore' PROVE Persisted(q)
  BY <1>1, <1>2, <1>5
<1>6. \A q \in Providers \ failed : q \notin toStore' => Persisted(q)'
  BY <1>1, <1>5 DEF Persisted, OwnersIn
<1>7. failed' = failed /\ toStore' \subseteq toStore /\ pc' # "issues"
  BY <1>1
<1>. QED
  BY <1>2, <1>4, <1>5, <1>6, <1>7 DEF Settling

\* The world changes no more often than was counted, and what it leaves is quiet.
LEMMA QuietStep ==
  ASSUME TypeOK, Quiet, [Next]_vars
  PROVE  Quiet'
<1>. USE DEF world, tables, cycle, history
<1>1. \A s \in Slots : ~acct'[s].stored => acct'[s].owner = Nobody
  <2>. SUFFICES ASSUME NEW s \in Slots, ~acct'[s].stored PROVE acct'[s].owner = Nobody
    OBVIOUS
  <2>1. ~acct[s].stored => acct[s].owner = Nobody
    BY DEF Quiet
  <2>2. acct[s] \in Rows /\ acct \in [Slots -> Rows]
    BY DEF TypeOK, Rows
  <2>3. CASE \E u \in Users : DeleteUser(u)
    <3>1. PICK u \in Users : acct'[s] = [acct[s] EXCEPT !.owner = IF @ = u THEN Nobody ELSE @]
      BY <2>3 DEF DeleteUser
    <3>. QED
      BY <2>1, <2>2, <3>1 DEF Rows
  <2>4. CASE OwnByHand
    <3>1. acct'[s] = acct[s]
          \/ acct'[s] = [acct[s] EXCEPT !.owner = IF acct[s].stored THEN hand.user ELSE @]
      BY <2>2, <2>4 DEF OwnByHand
    <3>. QED
      BY <2>1, <2>2, <3>1 DEF Rows
  <2>5. CASE \E failures \in SUBSET Providers : Observe(failures)
    <3>1. acct'[s] = acct[s] \/ acct'[s] = Observed(s)
      BY <2>5 DEF Observe
    <3>. QED
      BY <2>1, <3>1 DEF Observed, NoAccount
  <2>6. CASE \E p \in Providers : StoreOwners(p)
    <3>1. PICK p \in Providers : acct' = OwnersStored(p)
      BY <2>6 DEF StoreOwners
    <3>2. \/ acct'[s] = acct[s]
          \/ acct[s].stored /\ acct'[s] = [acct[s] EXCEPT !.owner = pass[p].owner[s[2]]]
      BY <3>1 DEF OwnersStored
    <3>. QED
      BY <2>1, <2>2, <3>2 DEF Rows
  <2>7. CASE acct' = acct
    BY <2>1, <2>7
  <2>. QED
    BY <2>3, <2>4, <2>5, <2>6, <2>7 DEF Next, vars, World, DirectoryChanges, AccountChanges, Admin,
       AddManualUser, LinkByHand, UnlinkByHand, BeginCycle, Step, SyncIdentity, LinkPass, Store,
       StoreLink, StoreAborts, StoreIssues
<1>2. left' \in Nat /\ (left' = left \/ left' = left - 1) /\ left \in Nat
  <2>1. left' = left \/ Disturb
    BY DEF Next, vars, World, DirectoryChanges, AccountChanges, Admin, AddManualUser,
     DeleteUser, LinkByHand, UnlinkByHand, MayEdit, OwnByHand, BeginCycle, Step, SyncIdentity,
     Observe, LinkPass, Store, StoreLink, StoreAborts, StoreOwners, StoreIssues
  <2>. QED
    BY <2>1 DEF Disturb, TypeOK
<1>3. \/ BeginCycle
      \/ mark' = mark /\ (pc' # "idle" => pc # "idle")
         /\ (hand' = hand \/ hand' = NoHand \/ left' = left - 1)
  <2>1. World \/ Admin \/ UNCHANGED vars =>
          /\ mark' = mark /\ pc' = pc
          /\ hand' = hand \/ hand' = NoHand \/ left' = left - 1
    BY DEF vars, World, DirectoryChanges, AccountChanges, Admin, AddManualUser, DeleteUser,
       LinkByHand, UnlinkByHand, MayEdit, OwnByHand, Disturb
  <2>2. Step => mark' = mark /\ hand' = hand /\ pc # "idle"
    BY DEF Step, SyncIdentity, Observe, LinkPass, Store, StoreLink, StoreAborts, StoreOwners,
       StoreIssues
  <2>. QED
    BY <2>1, <2>2 DEF Next
<1>4. /\ mark' = Disturbed \/ left' <= mark'
      /\ pc' # "idle" /\ mark' = left' => hand' = NoHand
  <2>1. CASE BeginCycle
    BY <1>2, <2>1 DEF BeginCycle, Disturbed
  <2>2. CASE /\ mark' = mark /\ (pc' # "idle" => pc # "idle")
             /\ (hand' = hand \/ hand' = NoHand \/ left' = left - 1)
    <3>1. (mark = Disturbed \/ left <= mark) /\ mark \in Nat \cup {Disturbed}
      BY DEF Quiet, TypeOK
    <3>2. pc # "idle" /\ mark = left => hand = NoHand
      BY DEF Quiet
    <3>. QED
      BY <1>2, <2>2, <3>1, <3>2 DEF Disturbed
  <2>. QED
    BY <1>3, <2>1, <2>2
<1>. QED
  BY <1>1, <1>4 DEF Quiet

\* In a quiet cycle the pass is stored as it was worked out.
LEMMA SettlingStep ==
  ASSUME TypeOK, OnePersonPerAccount, Quiet, Settling, [Next]_vars
  PROVE  Settling'
<1>. USE DEF world, tables, cycle, history
<1>1. CASE ~(pc' \in {"store", "issues"} /\ mark' = left')
  BY <1>1 DEF Settling
<1>2. CASE LinkPass
  BY <1>2, PassSettles
<1>3. CASE mark = left /\ \E p \in Providers :
             \/ \E u \in Users, e \in Externals : StoreLink(p, u, e)
             \/ StoreOwners(p)
             \/ StoreIssues(p)
  BY <1>3, StoringSettles, OwnersSettle, IssuesSettle
<1>4. CASE UNCHANGED <<user, acct, link, pc, failed, pass, toStore, mark, left>>
  <2>1. SameAccounts
    BY <1>4 DEF SameAccounts
  <2>2. CASE ~(pc \in {"store", "issues"} /\ mark = left)
    BY <1>1, <1>4, <2>2
  <2>3. CASE pc \in {"store", "issues"} /\ mark = left
    <3>1. /\ toStore \subseteq Providers \ failed
          /\ \A p \in Providers \ failed :
               /\ Fresh(p, pass[p].new)
               /\ Accounted(p)
               /\ p \notin toStore \/ (pc = "issues" /\ Storing(p)) => Persisted(p)
      BY <2>3 DEF Settling
    <3>2. ASSUME NEW p \in Providers \ failed
          PROVE  /\ Fresh(p, pass[p].new)'
                 /\ Accounted(p)'
                 /\ Persisted(p)' <=> Persisted(p)
                 /\ Storing(p)' <=> Storing(p)
      <4>1. Fresh(p, pass[p].new)'
        BY <1>4, <3>1 DEF Fresh
      <4>2. Accounted(p)'
        BY <1>4, <2>1, <3>1, OwnersKeepAccounted
      <4>3. /\ Persisted(p)' <=> Persisted(p)
            /\ Storing(p)' <=> Storing(p)
        BY <1>4 DEF Persisted, OwnersIn, Storing
      <4>. QED
        BY <4>1, <4>2, <4>3
    <3>. QED
      BY <1>4, <3>1, <3>2 DEF Settling
  <2>. QED
    BY <2>2, <2>3
<1>5. pc' \in {"store", "issues"} /\ mark' = left' =>
        \/ LinkPass
        \/ mark = left /\ \E p \in Providers :
             \/ \E u \in Users, e \in Externals : StoreLink(p, u, e)
             \/ StoreOwners(p)
             \/ StoreIssues(p)
        \/ UNCHANGED <<user, acct, link, pc, failed, pass, toStore, mark, left>>
  <2>1. CASE Disturb /\ mark' = mark
    BY <2>1 DEF Disturb, Quiet, Disturbed, TypeOK
  <2>2. CASE OwnByHand
    <3>1. pc # "idle" /\ mark = left => FALSE
      BY <2>2 DEF OwnByHand, Quiet
    <3>. QED
      BY <2>2, <3>1 DEF OwnByHand
  <2>3. CASE BeginCycle \/ LinkPass \/ UNCHANGED vars
    BY <2>3 DEF vars, BeginCycle
  <2>4. CASE \/ \E answer \in SUBSET Listed : SyncIdentity(answer)
             \/ \E failures \in SUBSET Providers : Observe(failures)
    BY <2>4 DEF SyncIdentity, Observe
  <2>5. ASSUME NEW p \in Providers,
               \/ \E u \in Users, e \in Externals : StoreLink(p, u, e) \/ StoreAborts(p, u, e)
               \/ StoreOwners(p) \/ StoreIssues(p),
               pc' # "idle", mark' = left'
        PROVE  /\ mark = left
               /\ \/ \E u \in Users, e \in Externals : StoreLink(p, u, e)
                  \/ StoreOwners(p) \/ StoreIssues(p)
    BY <2>5 DEF StoreLink, StoreAborts, StoreOwners, StoreIssues, EndCycle
  <2>6. CASE Store
    BY <2>5, <2>6 DEF Store
  <2>7. World \/ Admin => OwnByHand \/ (Disturb /\ mark' = mark)
    BY DEF World, DirectoryChanges, AccountChanges, Admin, AddManualUser, DeleteUser, LinkByHand,
       UnlinkByHand, MayEdit
  <2>. QED
    BY <2>1, <2>2, <2>3, <2>4, <2>6, <2>7 DEF Next, Step
<1>. QED
  BY <1>1, <1>2, <1>3, <1>4, <1>5

Settled == \A p \in Providers \ failed : Accounted(p) /\ Persisted(p)

\* What an undisturbed cycle leaves agrees: the owners it stored follow the
\* links it stored.
LEMMA SettledOwnersAgree ==
  ASSUME Quiet, Settled, NEW p \in Providers \ failed,
         NEW e \in Externals, NEW u \in Users
  PROVE  /\ acct[<<p, e>>].stored /\ Holds(u, p) /\ Account(u, p) = e => acct[<<p, e>>].owner = u
         /\ acct[<<p, e>>].owner = u =>
              Account(u, p) = e /\ (Holds(u, p) \/ SharesSubject(u, p, e))
<1>1. \A q \in Providers \ failed, f \in Externals :
        Firm(u, q, f) <=> Holds(u, q) /\ Account(u, q) = f
  BY DEF Settled, Persisted, Firm
<1>2. Accounted(p) /\ Persisted(p)
  BY DEF Settled
<1>3. /\ Firm(u, p, e) => pass[p].owner[e] = u
      /\ pass[p].owner[e] = u =>
           /\ Account(u, p) = e \/ <<u, e>> \in pass[p].new
           /\ \/ Firm(u, p, e)
              \/ \E q \in (Providers \ failed) \ {p}, f \in Externals :
                   Firm(u, q, f) /\ acct[<<q, f>>].subject = acct[<<p, e>>].subject
  BY <1>2 DEF Accounted
<1>4. pass[p].new = {} /\ (acct[<<p, e>>].stored => acct[<<p, e>>].owner = pass[p].owner[e])
  BY <1>2 DEF Persisted, OwnersIn
<1>5. ASSUME acct[<<p, e>>].owner = u
      PROVE  Account(u, p) = e /\ (Holds(u, p) \/ SharesSubject(u, p, e))
  <2>1. acct[<<p, e>>].stored
    BY <1>5, PeopleAssumption DEF Quiet, Slots, Nobody
  <2>2. pass[p].owner[e] = u
    BY <1>4, <1>5, <2>1
  <2>3. CASE Firm(u, p, e)
    BY <1>1, <2>3
  <2>4. ASSUME NEW q \in (Providers \ failed) \ {p}, NEW f \in Externals,
               Firm(u, q, f), acct[<<q, f>>].subject = acct[<<p, e>>].subject
        PROVE  SharesSubject(u, p, e)
    <3>1. Holds(u, q) /\ Account(u, q) = f
      BY <1>1, <2>4
    <3>. QED
      BY <2>4, <3>1 DEF SharesSubject
  <2>. QED
    BY <1>3, <1>4, <2>2, <2>3, <2>4
<1>. QED
  BY <1>1, <1>3, <1>4, <1>5

\* An undisturbed cycle leaves every account that was read with the owner its
\* links say (persist, SetAccountOwner): whoever holds the account owns it, and
\* nobody else does but the person its subject gave it to in this cycle.
THEOREM OwnersFollowLinks == Spec => OwnersAgree
<1>. DEFINE Agrees(u, p, e) ==
       /\ acct[<<p, e>>].stored /\ Holds(u, p)' /\ Account(u, p)' = e => acct'[<<p, e>>].owner = u
       /\ acct'[<<p, e>>].owner = u =>
            Account(u, p)' = e /\ (Holds(u, p) \/ SharesSubject(u, p, e))'
            Ended == pc # "idle" /\ pc' = "idle" /\ outcome' = "complete" /\ Undisturbed
            Agree == Ended => \A p \in Providers \ failed, e \in Externals, u \in Users :
                                Agrees(u, p, e)
<1>1. Init => Quiet /\ Settling
  BY BoundAssumption DEF Init, Quiet, Settling, NoAccount
<1>2. TypeOK /\ Quiet /\ [Next]_vars => Quiet'
  BY QuietStep
<1>3. TypeOK /\ OnePersonPerAccount /\ Quiet /\ Settling /\ [Next]_vars => Settling'
  BY SettlingStep
<1>4. ASSUME TypeOK, Quiet, Settling, [Next]_vars, Ended,
             NEW p \in Providers \ failed, NEW e \in Externals, NEW u \in Users
      PROVE  Agrees(u, p, e)
  <2>1. PICK q \in Providers : StoreIssues(q) /\ toStore' = {}
    BY <1>4 DEF Next, vars, World, DirectoryChanges, AccountChanges, Admin, AddManualUser,
       DeleteUser, LinkByHand, UnlinkByHand, OwnByHand, BeginCycle, Step, SyncIdentity, Observe,
       LinkPass, Store, StoreLink, StoreAborts, StoreOwners, StoreIssues, EndCycle, Undisturbed,
       Disturb, world, tables, cycle, history
  <2>2. Settled
    <3>1. mark = left /\ pc = "issues"
      BY <1>4, <2>1 DEF Undisturbed, StoreIssues
    <3>. QED
      BY <1>4, <2>1, <3>1, IssuesSettle DEF Settling, Settled
  <2>3. UNCHANGED <<user, acct, link>>
    BY <2>1 DEF StoreIssues
  <2>4. /\ acct[<<p, e>>].stored /\ Holds(u, p) /\ Account(u, p) = e => acct[<<p, e>>].owner = u
        /\ acct[<<p, e>>].owner = u =>
             Account(u, p) = e /\ (Holds(u, p) \/ SharesSubject(u, p, e))
    BY <1>4, <2>2, SettledOwnersAgree
  <2>5. /\ Account(u, p)' = Account(u, p)
        /\ Holds(u, p)' <=> Holds(u, p)
        /\ SharesSubject(u, p, e)' <=> SharesSubject(u, p, e)
    BY <2>3 DEF Account, Holds, Dangling, Stale, HasLink, Active, Usable, SharesSubject
  <2>. QED
    BY <2>3, <2>4, <2>5
<1>5. TypeOK /\ Quiet /\ Settling /\ [Next]_vars => [Agree]_vars
  BY <1>4
<1>. QED
  BY <1>1, <1>2, <1>3, <1>5, LinkerTypeCorrect, NobodySharesAnAccount, PTL DEF Spec, OwnersAgree
(***************************************************************************)
(* Two passes.  A pass over the tables that another one left, with nothing *)
(* else changed, makes no link, and finds the owners and issues that one   *)
(* found, unless that one gave somebody an account of a keyed provider by  *)
(* her subject: the match values of the two need not agree.                *)
(***************************************************************************)
\* What a pass works out from these people, accounts, links and failed reads.
Reading(u, a, l, f) == INSTANCE Linker WITH user <- u, acct <- a, link <- l, failed <- f

\* The links once the pass that starts now is stored.
Later == [a \in Pairs |->
  IF \E e \in Externals : <<a[1], e>> \in Work(a[2]).new
  THEN [ext |-> CHOOSE e \in Externals : <<a[1], e>> \in Work(a[2]).new, origin |-> "matched"]
  ELSE link[a]]

Again == INSTANCE Linker WITH link <- Later

\* The pass gives nobody an account of a keyed provider by her subject.
NoneJoinKeyed == \A p \in Keyed : Joined(p) = {}

\* A pass is a function of the tables it reads.
LEMMA WorkIsReading ==
  ASSUME NEW p \in Providers
  PROVE  /\ Work(p) = Reading(user, acct, link, failed)!Work(p)
         /\ Again!Work(p) = Reading(user, acct, Later, failed)!Work(p)
<1>. USE DEF Reading!Work, Reading!Direct, Reading!Joined, Reading!IssuesFound, Reading!Candidates,
       Reading!Free, Reading!Crowded, Reading!Joinable, Reading!Claimants, Reading!Owned,
       Reading!Holds, Reading!Stale, Reading!Dangling, Reading!Active, Reading!Usable,
       Reading!HasLink, Reading!Account, Reading!NoLink, Reading!Nobody, Reading!Blank, Reading!Issue
<1>1. Work(p) = Reading(user, acct, link, failed)!Work(p)
  BY DEF Work, Direct, Joined, IssuesFound, Candidates, Free, Crowded, Joinable, Claimants, Owned,
         Holds, Stale, Dangling, Active, Usable, HasLink, Account, NoLink, Nobody, Blank, Issue
<1>2. Again!Work(p) = Reading(user, acct, Later, failed)!Work(p)
  BY DEF Again!Work, Again!Direct, Again!Joined, Again!IssuesFound, Again!Candidates, Again!Free,
         Again!Crowded, Again!Joinable, Again!Claimants, Again!Owned, Again!Holds, Again!Stale,
         Again!Dangling, Again!Active, Again!Usable, Again!HasLink, Again!Account, Again!NoLink,
         Again!Nobody, Again!Blank, Again!Issue
<1>. QED
  BY <1>1, <1>2

\* A link that is to be made will be there, and the others as they are.
LEMMA LaterLinks ==
  ASSUME TypeOK, NEW p \in Providers, NEW u \in Users
  PROVE  /\ \A e \in Externals : <<u, e>> \in Work(p).new =>
              Later[<<u, p>>] = [ext |-> e, origin |-> "matched"] /\ link[<<u, p>>] = NoLink
         /\ (\A e \in Externals : <<u, e>> \notin Work(p).new) => Later[<<u, p>>] = link[<<u, p>>]
<1>. DEFINE new == Work(p).new
<1>1. Later[<<u, p>>] =
        IF \E e \in Externals : <<u, e>> \in new
        THEN [ext |-> CHOOSE e \in Externals : <<u, e>> \in new, origin |-> "matched"]
        ELSE link[<<u, p>>]
  <2>1. <<u, p>> \in Pairs /\ <<u, p>>[1] = u /\ <<u, p>>[2] = p
    BY DEF Pairs
  <2>. QED
    BY <2>1 DEF Later
<1>. HIDE DEF new
<1>2. ASSUME NEW e \in Externals, <<u, e>> \in new
      PROVE  Later[<<u, p>>] = [ext |-> e, origin |-> "matched"] /\ link[<<u, p>>] = NoLink
  <2>1. \A a \in new : link[<<a[1], p>>] = NoLink /\ \A b \in new : a[1] = b[1] => a = b
    BY WorkFresh DEF Fresh, new
  <2>2. link[<<<<u, e>>[1], p>>] = NoLink
        /\ \A b \in new : <<u, e>>[1] = b[1] => <<u, e>> = b
    BY <1>2, <2>1
  <2>3. ASSUME NEW g \in Externals, <<u, g>> \in new PROVE g = e
    <3>1. <<u, e>>[1] = <<u, g>>[1]
      OBVIOUS
    <3>2. <<u, e>> = <<u, g>>
      BY <2>2, <2>3, <3>1
    <3>. QED
      BY <3>2
  <2>4. (CHOOSE g \in Externals : <<u, g>> \in new) = e
    BY <1>2, <2>3
  <2>. QED
    BY <1>1, <1>2, <2>2, <2>4
<1>. QED
  BY <1>1, <1>2 DEF new

\* Who will be linked, and to what.
LEMMA LaterAccounts ==
  ASSUME TypeOK, NEW p \in Providers, NEW u \in Users
  PROVE  /\ Again!HasLink(u, p) <=> HasLink(u, p) \/ \E e \in Externals : <<u, e>> \in Work(p).new
         /\ \A e \in Externals : <<u, e>> \in Work(p).new =>
              /\ ~HasLink(u, p) /\ Account(u, p) \notin Externals
              /\ Again!HasLink(u, p) /\ Again!Account(u, p) = e
              /\ Later[<<u, p>>].origin = "matched"
         /\ (\A e \in Externals : <<u, e>> \notin Work(p).new) =>
              Again!Account(u, p) = Account(u, p) /\ Later[<<u, p>>] = link[<<u, p>>]
<1>1. CASE \A e \in Externals : <<u, e>> \notin Work(p).new
  <2>1. Later[<<u, p>>] = link[<<u, p>>]
    BY <1>1, LaterLinks
  <2>. QED
    BY <1>1, <2>1 DEF Again!HasLink, Again!Account, Again!NoLink, Again!Nobody,
         HasLink, Account, NoLink, Nobody
<1>2. ASSUME NEW e \in Externals, <<u, e>> \in Work(p).new
      PROVE  /\ ~HasLink(u, p) /\ Account(u, p) \notin Externals
             /\ Again!HasLink(u, p) /\ Again!Account(u, p) = e
             /\ Later[<<u, p>>].origin = "matched"
  <2>1. Later[<<u, p>>] = [ext |-> e, origin |-> "matched"] /\ link[<<u, p>>] = NoLink
    BY <1>2, LaterLinks
  <2>2. ~HasLink(u, p) /\ Account(u, p) = Nobody /\ Nobody \notin Externals
    BY <2>1, SlotsAssumption DEF HasLink, Account, NoLink, Nobody
  <2>3. Again!HasLink(u, p)
    BY <2>1, SlotsAssumption DEF Again!HasLink, Again!NoLink, Again!Nobody
  <2>4. Again!Account(u, p) = e
    BY <2>1 DEF Again!Account
  <2>. QED
    BY <2>1, <2>2, <2>3, <2>4
<1>. QED
  BY <1>1, <1>2

\* Whom a pass links is active, and the account usable and fitting.
LEMMA NewFits ==
  ASSUME TypeOK, NoneJoinKeyed, NEW p \in Providers, NEW u \in Users, NEW e \in Externals,
         <<u, e>> \in Work(p).new
  PROVE  u \in Active /\ Usable(p, e) /\ Fits(u, p, e)
<1>1. CASE <<u, e>> \in Direct(p)
  BY <1>1, DirectFits
<1>2. CASE <<u, e>> \in Joined(p)
  <2>1. acct[<<p, e>>].subject # Blank /\ \E q \in Providers, f \in Externals : <<u, f>> \in Owned(q)
    <3>1. <<u, e>>[1] = u /\ <<u, e>>[2] = e
      OBVIOUS
    <3>. QED
      BY <1>2, <3>1, JoinedIsClaimed
  <2>2. Usable(p, e)
    BY <1>2 DEF Joined, Joinable
  <2>3. u \in Active
    BY <2>1, OwnedIsLinked, DirectFits DEF Holds
  <2>4. p \notin Keyed
    BY <1>2 DEF NoneJoinKeyed
  <2>. QED
    BY <2>2, <2>3, <2>4 DEF Fits
<1>. QED
  BY <1>1, <1>2 DEF Work

\* Who will hold what.
LEMMA LaterHolds ==
  ASSUME TypeOK, NoneJoinKeyed, NEW p \in Providers, NEW u \in Users
  PROVE  /\ Again!Dangling(u, p) <=> Dangling(u, p)
         /\ Again!Stale(u, p) <=> Stale(u, p)
         /\ \A e \in Externals :
              Again!Holds(u, p) /\ Again!Account(u, p) = e
                <=> (Holds(u, p) /\ Account(u, p) = e) \/ <<u, e>> \in Work(p).new
<1>. USE DEF Again!Blank, Blank
<1>1. Again!Active = Active /\ \A q, f : Again!Usable(q, f) <=> Usable(q, f)
  BY DEF Again!Active, Active, Again!Usable, Usable
<1>2. CASE \A e \in Externals : <<u, e>> \notin Work(p).new
  <2>1. /\ Again!HasLink(u, p) <=> HasLink(u, p)
        /\ Again!Account(u, p) = Account(u, p) /\ Later[<<u, p>>] = link[<<u, p>>]
    BY <1>2, LaterAccounts
  <2>2. Again!Dangling(u, p) <=> Dangling(u, p)
    BY <1>1, <2>1 DEF Again!Dangling, Dangling
  <2>3. Again!Stale(u, p) <=> Stale(u, p)
    BY <1>1, <2>1 DEF Again!Stale, Stale
  <2>4. Again!Holds(u, p) <=> Holds(u, p)
    BY <1>1, <2>1, <2>2, <2>3 DEF Again!Holds, Holds
  <2>. QED
    BY <1>2, <2>1, <2>2, <2>3, <2>4
<1>3. ASSUME NEW e \in Externals, <<u, e>> \in Work(p).new
      PROVE  /\ ~Again!Dangling(u, p) /\ ~Dangling(u, p) /\ ~Again!Stale(u, p) /\ ~Stale(u, p)
             /\ Again!Holds(u, p) /\ ~Holds(u, p) /\ Again!Account(u, p) = e
  <2>1. /\ ~HasLink(u, p) /\ Again!HasLink(u, p) /\ Again!Account(u, p) = e
    BY <1>3, LaterAccounts
  <2>2. u \in Active /\ Usable(p, e) /\ Fits(u, p, e)
    BY <1>3, NewFits
  <2>3. ~Again!Dangling(u, p)
    BY <1>1, <2>1, <2>2 DEF Again!Dangling
  <2>4. ~Again!Stale(u, p)
    BY <2>1, <2>2 DEF Again!Stale, Fits
  <2>5. Again!Holds(u, p)
    BY <1>1, <2>1, <2>2, <2>3, <2>4 DEF Again!Holds
  <2>. QED
    BY <2>1, <2>3, <2>4, <2>5 DEF Dangling, Stale, Holds
<1>4. ASSUME NEW e \in Externals, NEW f \in Externals,
             <<u, e>> \in Work(p).new, <<u, f>> \in Work(p).new
      PROVE  e = f
  BY <1>3, <1>4
<1>. QED
  BY <1>2, <1>3, <1>4

\* Whoever is unmatched after a pass was so before it, with the same accounts free.
LEMMA LaterCandidates ==
  ASSUME TypeOK, NoneJoinKeyed, NEW p \in Providers, NEW u \in Users, NEW key,
         u \in Candidates(p, key), \A e \in Externals : <<u, e>> \notin Work(p).new
  PROVE  Again!Candidates(p, key) = Candidates(p, key) /\ Again!Free(p, key) = Free(p, key)
<1>1. p \in Keyed /\ key # Blank /\ u \in Active /\ user[u].key = key
  BY DEF Candidates
<1>2. Work(p).new = Direct(p)
  <2>1. Joined(p) = {}
    BY <1>1 DEF NoneJoinKeyed
  <2>. QED
    BY <2>1 DEF Work
<1>3. ASSUME NEW v \in Users, NEW e \in Externals, <<v, e>> \in Direct(p), user[v].key = key
      PROVE  FALSE
  <2>1. Candidates(p, key) = {v}
    BY <1>3 DEF Direct
  <2>2. v = u
    BY <2>1
  <2>. QED
    BY <1>2, <1>3, <2>2
<1>4. ASSUME NEW v \in Users PROVE v \in Again!Candidates(p, key) <=> v \in Candidates(p, key)
  <2>1. Again!HasLink(v, p) <=> HasLink(v, p) \/ \E e \in Externals : <<v, e>> \in Work(p).new
    BY LaterAccounts
  <2>2. user[v].key = key => ~ \E e \in Externals : <<v, e>> \in Work(p).new
    BY <1>2, <1>3
  <2>. QED
    BY <1>1, <2>1, <2>2 DEF Again!Candidates, Candidates, Again!Active, Active, Again!Blank, Blank
<1>5. Again!Candidates(p, key) \subseteq Users /\ Candidates(p, key) \subseteq Users
  BY DEF Again!Candidates, Candidates, Again!Active, Active
<1>6. ASSUME NEW e \in Externals PROVE e \in Again!Free(p, key) <=> e \in Free(p, key)
  <2>1. e \in Free(p, key) <=>
          /\ Usable(p, e) /\ acct[<<p, e>>].key = key
          /\ \A v \in Users : ~(Holds(v, p) /\ Account(v, p) = e)
    BY DEF Free
  <2>2. e \in Again!Free(p, key) <=>
          /\ Usable(p, e) /\ acct[<<p, e>>].key = key
          /\ \A v \in Users : ~(Again!Holds(v, p) /\ Again!Account(v, p) = e)
    BY DEF Again!Free, Again!Usable, Usable
  <2>3. ASSUME NEW v \in Users, acct[<<p, e>>].key = key
        PROVE  Again!Holds(v, p) /\ Again!Account(v, p) = e <=> Holds(v, p) /\ Account(v, p) = e
    <3>1. <<v, e>> \notin Direct(p)
      <4>1. ASSUME <<v, e>> \in Direct(p) PROVE FALSE
        <5>1. Free(p, user[v].key) = {e}
          BY <4>1 DEF Direct
        <5>2. acct[<<p, e>>].key = user[v].key
          BY <5>1 DEF Free
        <5>. QED
          BY <1>3, <2>3, <4>1, <5>2
      <4>. QED
        BY <4>1
    <3>. QED
      BY <1>2, <3>1, LaterHolds
  <2>. QED
    BY <2>1, <2>2, <2>3
<1>7. Again!Free(p, key) \subseteq Externals /\ Free(p, key) \subseteq Externals
  BY DEF Again!Free, Free
<1>. QED
  BY <1>4, <1>5, <1>6, <1>7

\* A later candidate is one now, and unmatched.
LEMMA LaterUnmatched ==
  ASSUME TypeOK, NoneJoinKeyed, NEW p \in Providers, NEW u \in Users, NEW key,
         u \in Again!Candidates(p, key)
  PROVE  u \in Candidates(p, key) /\ \A e \in Externals : <<u, e>> \notin Work(p).new
<1>1. /\ p \in Keyed /\ key # Blank /\ u \in Active /\ user[u].key = key
      /\ ~Again!HasLink(u, p)
  BY DEF Again!Candidates, Again!Active, Active, Again!Blank, Blank
<1>2. ~HasLink(u, p) /\ \A e \in Externals : <<u, e>> \notin Work(p).new
  BY <1>1, LaterAccounts
<1>. QED
  BY <1>1, <1>2 DEF Candidates

\* No match is left, and those who are crowded stay so.
LEMMA LaterDirect ==
  ASSUME TypeOK, NoneJoinKeyed, NEW p \in Providers
  PROVE  Again!Direct(p) = {} /\ Again!Crowded(p) = Crowded(p)
<1>1. ASSUME NEW u \in Users, NEW e \in Externals, <<u, e>> \in Again!Direct(p) PROVE FALSE
  <2>1. /\ u \in Active
        /\ Again!Candidates(p, user[u].key) = {u} /\ Again!Free(p, user[u].key) = {e}
    BY <1>1 DEF Again!Direct, Again!Active, Active
  <2>2. u \in Again!Candidates(p, user[u].key)
    BY <2>1
  <2>3. u \in Candidates(p, user[u].key) /\ \A f \in Externals : <<u, f>> \notin Work(p).new
    BY <2>2, LaterUnmatched
  <2>4. Candidates(p, user[u].key) = {u} /\ Free(p, user[u].key) = {e}
    BY <2>1, <2>3, LaterCandidates
  <2>5. <<u, e>> \in Direct(p)
    BY <2>1, <2>4 DEF Direct
  <2>. QED
    BY <2>3, <2>5 DEF Work
<1>2. Again!Direct(p) \subseteq Users \X Externals
  BY DEF Again!Direct, Again!Active
<1>3. Again!Direct(p) = {}
  BY <1>1, <1>2
<1>4. ASSUME NEW u \in Users PROVE u \in Again!Crowded(p) <=> u \in Crowded(p)
  <2>1. u \in Again!Crowded(p) <=>
          u \in Active /\ u \in Again!Candidates(p, user[u].key) /\ Again!Free(p, user[u].key) # {}
    BY <1>3 DEF Again!Crowded, Again!Active, Active
  <2>2. u \in Crowded(p) <=>
          /\ u \in Active /\ u \in Candidates(p, user[u].key) /\ Free(p, user[u].key) # {}
          /\ \A e \in Externals : <<u, e>> \notin Direct(p)
    BY DEF Crowded
  <2>3. u \in Again!Candidates(p, user[u].key) <=>
          u \in Candidates(p, user[u].key) /\ \A e \in Externals : <<u, e>> \notin Work(p).new
    BY LaterUnmatched, LaterCandidates
  <2>4. u \in Again!Candidates(p, user[u].key) => Again!Free(p, user[u].key) = Free(p, user[u].key)
    BY <2>3, LaterCandidates
  <2>5. u \in Candidates(p, user[u].key) =>
          \A e \in Externals : <<u, e>> \in Work(p).new <=> <<u, e>> \in Direct(p)
    <3>1. ASSUME u \in Candidates(p, user[u].key), NEW e \in Externals PROVE <<u, e>> \notin Joined(p)
      <4>1. p \in Keyed
        BY <3>1 DEF Candidates
      <4>. QED
        BY <4>1 DEF NoneJoinKeyed
    <3>. QED
      BY <3>1 DEF Work
  <2>. QED
    BY <2>1, <2>2, <2>3, <2>4, <2>5
<1>5. Again!Crowded(p) \subseteq Users /\ Crowded(p) \subseteq Users
  BY DEF Again!Crowded, Crowded, Again!Active, Active
<1>. QED
  BY <1>3, <1>4, <1>5

\* What will be owned is what is owned and what the pass joins to it.
LEMMA LaterOwned ==
  ASSUME TypeOK, NoneJoinKeyed, NEW p \in Providers
  PROVE  Again!Owned(p) = Owned(p) \cup Joined(p)
<1>1. ASSUME NEW u \in Users, NEW e \in Externals
      PROVE  <<u, e>> \in Again!Owned(p) <=> <<u, e>> \in Owned(p) \cup Joined(p)
  <2>1. <<u, e>> \in Again!Owned(p) <=> Again!Holds(u, p) /\ Again!Account(u, p) = e
    BY LaterDirect DEF Again!Owned
  <2>2. <<u, e>> \in Owned(p) <=> (Holds(u, p) /\ Account(u, p) = e) \/ <<u, e>> \in Direct(p)
    BY DEF Owned
  <2>3. <<u, e>> \in Work(p).new <=> <<u, e>> \in Direct(p) \cup Joined(p)
    BY DEF Work
  <2>. QED
    BY <2>1, <2>2, <2>3, LaterHolds
<1>2. Again!Owned(p) \subseteq Users \X Externals /\ Owned(p) \cup Joined(p) \subseteq Users \X Externals
  BY DEF Again!Owned, Owned, Again!Direct, Direct, Again!Active, Active, Joined, Joinable
<1>. QED
  BY <1>1, <1>2

\* What the pass joins to somebody gives nobody a claim who had none.
LEMMA LaterClaimants ==
  ASSUME TypeOK, NoneJoinKeyed, NEW subject, subject # Blank
  PROVE  Again!Claimants(subject) = Claimants(subject)
<1>1. ASSUME NEW u \in Users PROVE u \in Again!Claimants(subject) <=> u \in Claimants(subject)
  <2>1. u \in Again!Claimants(subject) <=>
          \E p \in Providers \ failed, e \in Externals :
            <<u, e>> \in Owned(p) \cup Joined(p) /\ acct[<<p, e>>].subject = subject
    BY LaterOwned DEF Again!Claimants
  <2>2. u \in Claimants(subject) <=>
          \E p \in Providers \ failed, e \in Externals :
            <<u, e>> \in Owned(p) /\ acct[<<p, e>>].subject = subject
    BY DEF Claimants
  <2>3. ASSUME NEW p \in Providers \ failed, NEW e \in Externals,
               <<u, e>> \in Joined(p), acct[<<p, e>>].subject = subject
        PROVE  u \in Claimants(subject)
    BY <2>3 DEF Joined, Joinable
  <2>. QED
    BY <2>1, <2>2, <2>3
<1>2. Again!Claimants(subject) \subseteq Users /\ Claimants(subject) \subseteq Users
  BY DEF Again!Claimants, Claimants
<1>. QED
  BY <1>1, <1>2

\* Whoever could join accounts and has no link joins the first of them.
LEMMA SomethingJoins ==
  ASSUME TypeOK, NEW p \in Providers, NEW u \in Users, NEW e \in Externals,
         <<u, e>> \in Joinable(p), ~HasLink(u, p), \A f \in Externals : <<u, f>> \notin Direct(p)
  PROVE  \E f \in Externals : <<u, f>> \in Joined(p)
<1>. DEFINE T == {f \in Externals : <<u, f>> \in Joinable(p)}
<1>1. PICK f \in T : \A g \in T : <<g, f>> \notin OpToRel(<, Nat)
  <2>1. T \subseteq Nat /\ T # {}
    BY SlotsAssumption
  <2>. HIDE DEF T
  <2>. QED
    BY <2>1, NatLessThanWellFounded, WFMin
<1>2. ASSUME NEW g \in Externals, <<u, g>> \in Joinable(p) PROVE f <= g
  <2>1. g \in T /\ g \in Nat /\ f \in Nat
    BY <1>2, SlotsAssumption
  <2>2. ~(g < f)
    BY <1>1, <2>1 DEF OpToRel
  <2>. QED
    BY <2>1, <2>2
<1>3. <<u, f>> \in Joined(p)
  <2>1. <<u, f>> \in Joinable(p) /\ <<u, f>>[1] = u /\ <<u, f>>[2] = f
    BY <1>1
  <2>. QED
    BY <1>2, <2>1 DEF Joined
<1>. QED
  BY <1>1, <1>3

\* What was joined is not to be joined again, and nothing else will be.
LEMMA LaterJoined ==
  ASSUME TypeOK, NoneJoinKeyed, NEW p \in Providers
  PROVE  Again!Joinable(p) = Joinable(p) \ Joined(p) /\ Again!Joined(p) = {}
<1>1. ASSUME NEW u \in Users, NEW e \in Externals
      PROVE  <<u, e>> \in Again!Joinable(p) <=> <<u, e>> \in Joinable(p) /\ <<u, e>> \notin Joined(p)
  <2>. DEFINE subject == acct[<<p, e>>].subject
  <2>1. <<u, e>> \in Again!Joinable(p) <=>
          /\ Usable(p, e) /\ subject # Blank
          /\ \A v \in Users : <<v, e>> \notin Owned(p) \cup Joined(p)
          /\ Again!Claimants(subject) = {u}
    BY LaterOwned DEF Again!Joinable, Again!Usable, Usable, Again!Blank, Blank
  <2>2. <<u, e>> \in Joinable(p) <=>
          /\ Usable(p, e) /\ subject # Blank
          /\ \A v \in Users : <<v, e>> \notin Owned(p)
          /\ Claimants(subject) = {u}
    BY DEF Joinable
  <2>3. subject # Blank => Again!Claimants(subject) = Claimants(subject)
    BY LaterClaimants
  <2>4. ASSUME NEW v \in Users, <<v, e>> \in Joined(p) PROVE Claimants(subject) = {v}
    BY <2>4 DEF Joined, Joinable
  <2>5. ASSUME NEW v \in Users, <<v, e>> \in Joined(p), Claimants(subject) = {u} PROVE v = u
    BY <2>4, <2>5
  <2>. HIDE DEF subject
  <2>. QED
    BY <2>1, <2>2, <2>3, <2>5
<1>2. Again!Joinable(p) \subseteq Users \X Externals /\ Joinable(p) \subseteq Users \X Externals
  BY DEF Again!Joinable, Joinable
<1>3. ASSUME NEW u \in Users, NEW e \in Externals, <<u, e>> \in Again!Joined(p) PROVE FALSE
  <2>1. <<u, e>> \in Again!Joinable(p) /\ ~Again!HasLink(u, p)
    BY <1>3 DEF Again!Joined
  <2>2. <<u, e>> \in Joinable(p)
    BY <1>1, <2>1
  <2>3. ~HasLink(u, p) /\ \A f \in Externals : <<u, f>> \notin Work(p).new
    BY <2>1, LaterAccounts
  <2>4. \A f \in Externals : <<u, f>> \notin Direct(p) /\ <<u, f>> \notin Joined(p)
    BY <2>3 DEF Work
  <2>. QED
    BY <2>2, <2>3, <2>4, SomethingJoins
<1>4. Again!Joined(p) \subseteq Again!Joinable(p)
  BY DEF Again!Joined
<1>. QED
  BY <1>1, <1>2, <1>3, <1>4

\* Membership in the issues of a pass, kind by kind.
Reported(i, p) ==
  \/ \E u \in Users : Dangling(u, p) /\ i = Issue("dangling", u, Account(u, p))
  \/ \E u \in Users : Stale(u, p) /\ i = Issue("stale", u, Account(u, p))
  \/ \E u \in Crowded(p) : i = Issue("ambiguous", u, Nobody)
  \/ \E a \in Joinable(p) \ Joined(p) : i = Issue("ambiguous", a[1], a[2])
  \/ \E u \in Active :
       /\ i = Issue("unlinked", u, Nobody)
       /\ ~HasLink(u, p) /\ u \notin Crowded(p)
       /\ \A a \in Joinable(p) \ Joined(p) : u # a[1]
       /\ \A e \in Externals : <<u, e>> \notin Direct(p) \cup Joined(p)
  \/ \E e \in Externals :
       /\ i = Issue("unmanaged", Nobody, e) /\ Usable(p, e)
       /\ \A u \in Users : <<u, e>> \notin Owned(p) \cup Joined(p)

\* The issues of a pass are those that are reported one by one.
LEMMA IssuesReported ==
  ASSUME NEW p \in Providers, NEW i
  PROVE  /\ i \in IssuesFound(p) <=> Reported(i, p)
         /\ i \in Again!IssuesFound(p) <=>
              \/ \E u \in Users : Again!Dangling(u, p) /\ i = Issue("dangling", u, Again!Account(u, p))
              \/ \E u \in Users : Again!Stale(u, p) /\ i = Issue("stale", u, Again!Account(u, p))
              \/ \E u \in Again!Crowded(p) : i = Issue("ambiguous", u, Nobody)
              \/ \E a \in Again!Joinable(p) \ Again!Joined(p) : i = Issue("ambiguous", a[1], a[2])
              \/ \E u \in Again!Active :
                   /\ i = Issue("unlinked", u, Nobody)
                   /\ ~Again!HasLink(u, p) /\ u \notin Again!Crowded(p)
                   /\ \A a \in Again!Joinable(p) \ Again!Joined(p) : u # a[1]
                   /\ \A e \in Externals : <<u, e>> \notin Again!Direct(p) \cup Again!Joined(p)
              \/ \E e \in Externals :
                   /\ i = Issue("unmanaged", Nobody, e) /\ Again!Usable(p, e)
                   /\ \A u \in Users : <<u, e>> \notin Again!Owned(p) \cup Again!Joined(p)
<1>1. i \in IssuesFound(p) <=> Reported(i, p)
  BY DEF IssuesFound, Reported
<1>2. \A kind, u, e : Again!Issue(kind, u, e) = Issue(kind, u, e)
  BY DEF Again!Issue, Issue
<1>3. Again!Nobody = Nobody
  BY DEF Again!Nobody, Nobody
<1>. QED
  BY <1>1, <1>2, <1>3 DEF Again!IssuesFound

\* The issues are the same.
LEMMA LaterIssues ==
  ASSUME TypeOK, NoneJoinKeyed, NEW p \in Providers
  PROVE  Again!IssuesFound(p) = IssuesFound(p)
<1>. SUFFICES ASSUME NEW i PROVE i \in Again!IssuesFound(p) <=> i \in IssuesFound(p)
  OBVIOUS
<1>1. ASSUME NEW u \in Users
      PROVE  /\ Again!Dangling(u, p) <=> Dangling(u, p)
             /\ Again!Stale(u, p) <=> Stale(u, p)
             /\ Dangling(u, p) \/ Stale(u, p) => Again!Account(u, p) = Account(u, p)
             /\ ~Again!HasLink(u, p) <=>
                  ~HasLink(u, p) /\ \A e \in Externals : <<u, e>> \notin Direct(p) \cup Joined(p)
  <2>1. Work(p).new = Direct(p) \cup Joined(p)
    BY DEF Work
  <2>2. HasLink(u, p) => \A e \in Externals : <<u, e>> \notin Work(p).new
    BY LaterAccounts
  <2>3. HasLink(u, p) => Again!Account(u, p) = Account(u, p)
    BY <2>2, LaterAccounts
  <2>4. Dangling(u, p) \/ Stale(u, p) => HasLink(u, p)
    BY DEF Dangling, Stale
  <2>5. Again!HasLink(u, p) <=> HasLink(u, p) \/ \E e \in Externals : <<u, e>> \in Work(p).new
    BY LaterAccounts
  <2>. QED
    BY <2>1, <2>3, <2>4, <2>5, LaterHolds
<1>2. Again!Crowded(p) = Crowded(p) /\ Again!Direct(p) = {}
  BY LaterDirect
<1>3. Again!Joinable(p) \ Again!Joined(p) = Joinable(p) \ Joined(p) /\ Again!Joined(p) = {}
  BY LaterJoined
<1>4. Again!Owned(p) = Owned(p) \cup Joined(p)
  BY LaterOwned
<1>5. Again!Active = Active /\ Active \subseteq Users /\ \A e : Again!Usable(p, e) <=> Usable(p, e)
  BY DEF Again!Active, Active, Again!Usable, Usable
<1>6. i \in Again!IssuesFound(p) <=> Reported(i, p)
  BY <1>1, <1>2, <1>3, <1>4, <1>5, IssuesReported DEF Reported
<1>. QED
  BY <1>6, IssuesReported

\* A pass over the tables that another one left finds what that one found.
LEMMA SecondPass ==
  ASSUME TypeOK, NoneJoinKeyed, NEW p \in Providers
  PROVE  Again!Work(p) = [new |-> {}, owner |-> Work(p).owner, issues |-> Work(p).issues]
<1>1. Again!Direct(p) \cup Again!Joined(p) = {}
  BY LaterDirect, LaterJoined
<1>2. Again!IssuesFound(p) = IssuesFound(p)
  BY LaterIssues
<1>3. Again!Owned(p) \cup Again!Joined(p) = Owned(p) \cup Joined(p)
  BY LaterOwned, LaterJoined
<1>4. Again!Nobody = Nobody
  BY DEF Again!Nobody, Nobody
<1>5. Again!Work(p).owner = Work(p).owner
  <2>. DEFINE one(holders) == IF holders = {} THEN Nobody ELSE CHOOSE u \in holders : TRUE
              now(e) == {u \in Users : <<u, e>> \in Owned(p) \cup Joined(p)}
              then(e) == {u \in Users : <<u, e>> \in Again!Owned(p) \cup Again!Joined(p)}
  <2>1. Work(p).owner = [e \in Externals |-> one(now(e))]
    BY DEF Work
  <2>2. Again!Work(p).owner = [e \in Externals |-> one(then(e))]
    BY <1>4 DEF Again!Work
  <2>3. \A e \in Externals : now(e) = then(e)
    BY <1>3
  <2>. HIDE DEF one, now, then
  <2>. QED
    BY <2>1, <2>2, <2>3
<1>6. Again!Work(p) = [new |-> Again!Work(p).new, owner |-> Again!Work(p).owner,
                       issues |-> Again!Work(p).issues]
      /\ Again!Work(p).new = {} /\ Again!Work(p).issues = Work(p).issues
  BY <1>1, <1>2 DEF Again!Work, Work
<1>. QED
  BY <1>5, <1>6

\* The owner columns are not read by a pass.
LEMMA OwnersUnread ==
  ASSUME NEW U, NEW A, NEW B, NEW F, NEW p \in Providers,
         NEW L \in [Pairs -> {NoLink} \cup [ext : Externals, origin : {"matched", "manual"}]],
         \A s \in Slots : /\ A[s].stored = B[s].stored /\ A[s].writable = B[s].writable
                          /\ A[s].key = B[s].key /\ A[s].subject = B[s].subject
  PROVE  Reading(U, A, L, F)!Work(p) = Reading(U, B, L, F)!Work(p)
<1>1. \A q \in Providers, e \in Externals :
        /\ A[<<q, e>>].stored = B[<<q, e>>].stored /\ A[<<q, e>>].writable = B[<<q, e>>].writable
        /\ A[<<q, e>>].key = B[<<q, e>>].key /\ A[<<q, e>>].subject = B[<<q, e>>].subject
  <2>1. \A q \in Providers, e \in Externals : <<q, e>> \in Slots
    BY DEF Slots
  <2>. QED
    BY <2>1
<1>2. \A q \in Providers, e \in Externals :
        Reading(U, A, L, F)!Usable(q, e) <=> Reading(U, B, L, F)!Usable(q, e)
  BY <1>1 DEF Reading!Usable
<1>3. /\ Reading(U, A, L, F)!Active = Reading(U, B, L, F)!Active
      /\ Reading(U, A, L, F)!Active \subseteq Users
      /\ \A u, q : Reading(U, A, L, F)!HasLink(u, q) <=> Reading(U, B, L, F)!HasLink(u, q)
      /\ \A u, q : Reading(U, A, L, F)!Account(u, q) = Reading(U, B, L, F)!Account(u, q)
  BY DEF Reading!Active, Reading!HasLink, Reading!Account, Reading!NoLink, Reading!Nobody
<1>4. ASSUME NEW u \in Users, NEW q \in Providers, Reading(U, A, L, F)!HasLink(u, q)
      PROVE  Reading(U, A, L, F)!Account(u, q) \in Externals
  <2>1. <<u, q>> \in Pairs
    BY DEF Pairs
  <2>2. L[<<u, q>>] # NoLink
    BY <1>4 DEF Reading!HasLink, Reading!NoLink, Reading!Nobody, NoLink, Nobody
  <2>. QED
    BY <2>1, <2>2 DEF Reading!Account
<1>5. ASSUME NEW u \in Users, NEW q \in Providers
      PROVE  /\ Reading(U, A, L, F)!Dangling(u, q) <=> Reading(U, B, L, F)!Dangling(u, q)
             /\ Reading(U, A, L, F)!Stale(u, q) <=> Reading(U, B, L, F)!Stale(u, q)
             /\ Reading(U, A, L, F)!Holds(u, q) <=> Reading(U, B, L, F)!Holds(u, q)
  <2>1. CASE Reading(U, A, L, F)!HasLink(u, q)
    <3>1. Reading(U, A, L, F)!Account(u, q) \in Externals
      BY <1>4, <2>1
    <3>2. Reading(U, A, L, F)!Dangling(u, q) <=> Reading(U, B, L, F)!Dangling(u, q)
      BY <1>2, <1>3, <3>1 DEF Reading!Dangling
    <3>3. Reading(U, A, L, F)!Stale(u, q) <=> Reading(U, B, L, F)!Stale(u, q)
      BY <1>1, <1>2, <1>3, <3>1 DEF Reading!Stale, Reading!Blank
    <3>. QED
      BY <1>3, <3>2, <3>3 DEF Reading!Holds
  <2>2. CASE ~Reading(U, A, L, F)!HasLink(u, q)
    BY <1>3, <2>2 DEF Reading!Dangling, Reading!Stale, Reading!Holds
  <2>. QED
    BY <2>1, <2>2
<1>6. ASSUME NEW q \in Providers, NEW key
      PROVE  /\ Reading(U, A, L, F)!Candidates(q, key) = Reading(U, B, L, F)!Candidates(q, key)
             /\ Reading(U, A, L, F)!Free(q, key) = Reading(U, B, L, F)!Free(q, key)
  <2>1. Reading(U, A, L, F)!Candidates(q, key) = Reading(U, B, L, F)!Candidates(q, key)
    BY <1>3 DEF Reading!Candidates, Reading!Blank
  <2>2. Reading(U, A, L, F)!Free(q, key) = Reading(U, B, L, F)!Free(q, key)
    BY <1>1, <1>2, <1>3, <1>5 DEF Reading!Free
  <2>. QED
    BY <2>1, <2>2
<1>7. ASSUME NEW q \in Providers
      PROVE  /\ Reading(U, A, L, F)!Direct(q) = Reading(U, B, L, F)!Direct(q)
             /\ Reading(U, A, L, F)!Crowded(q) = Reading(U, B, L, F)!Crowded(q)
             /\ Reading(U, A, L, F)!Owned(q) = Reading(U, B, L, F)!Owned(q)
  <2>1. Reading(U, A, L, F)!Direct(q) = Reading(U, B, L, F)!Direct(q)
    BY <1>3, <1>6 DEF Reading!Direct
  <2>2. Reading(U, A, L, F)!Crowded(q) = Reading(U, B, L, F)!Crowded(q)
    BY <1>3, <1>6, <2>1 DEF Reading!Crowded
  <2>3. Reading(U, A, L, F)!Owned(q) = Reading(U, B, L, F)!Owned(q)
    BY <1>3, <1>5, <2>1 DEF Reading!Owned
  <2>. QED
    BY <2>1, <2>2, <2>3
<1>8. ASSUME NEW subject
      PROVE  Reading(U, A, L, F)!Claimants(subject) = Reading(U, B, L, F)!Claimants(subject)
  <2>1. ASSUME NEW u \in Users, NEW q \in Providers \ F, NEW e \in Externals
        PROVE  /\ <<u, e>> \in Reading(U, A, L, F)!Owned(q) <=> <<u, e>> \in Reading(U, B, L, F)!Owned(q)
               /\ A[<<q, e>>].subject = subject <=> B[<<q, e>>].subject = subject
    BY <1>1, <1>7
  <2>. QED
    BY <2>1 DEF Reading!Claimants
<1>9. /\ Reading(U, A, L, F)!Joinable(p) = Reading(U, B, L, F)!Joinable(p)
      /\ Reading(U, A, L, F)!Joined(p) = Reading(U, B, L, F)!Joined(p)
  <2>1. Reading(U, A, L, F)!Joinable(p) = Reading(U, B, L, F)!Joinable(p)
    BY <1>1, <1>2, <1>7, <1>8 DEF Reading!Joinable, Reading!Blank
  <2>2. Reading(U, A, L, F)!Joined(p) = Reading(U, B, L, F)!Joined(p)
    BY <1>3, <1>7, <2>1 DEF Reading!Joined
  <2>. QED
    BY <2>1, <2>2
<1>10. Reading(U, A, L, F)!IssuesFound(p) = Reading(U, B, L, F)!IssuesFound(p)
  BY <1>2, <1>3, <1>5, <1>7, <1>9 DEF Reading!IssuesFound, Reading!Issue, Reading!Nobody
<1>11. Reading(U, A, L, F)!Work(p).owner = Reading(U, B, L, F)!Work(p).owner
  <2>. DEFINE one(holders) == IF holders = {} THEN Nobody ELSE CHOOSE u \in holders : TRUE
              a(e) == {u \in Users : <<u, e>> \in Reading(U, A, L, F)!Owned(p)
                                                  \cup Reading(U, A, L, F)!Joined(p)}
              b(e) == {u \in Users : <<u, e>> \in Reading(U, B, L, F)!Owned(p)
                                                  \cup Reading(U, B, L, F)!Joined(p)}
  <2>1. Reading(U, A, L, F)!Work(p).owner = [e \in Externals |-> one(a(e))]
    BY DEF Reading!Work, Reading!Nobody, Nobody
  <2>2. Reading(U, B, L, F)!Work(p).owner = [e \in Externals |-> one(b(e))]
    BY DEF Reading!Work, Reading!Nobody, Nobody
  <2>3. \A e \in Externals : a(e) = b(e)
    BY <1>7, <1>9
  <2>. HIDE DEF one, a, b
  <2>. QED
    BY <2>1, <2>2, <2>3
<1>12. Reading(U, A, L, F)!Work(p).new = Reading(U, B, L, F)!Work(p).new
  BY <1>7, <1>9 DEF Reading!Work
<1>13. Reading(U, A, L, F)!Work(p).issues = Reading(U, B, L, F)!Work(p).issues
  BY <1>10 DEF Reading!Work
<1>14. /\ Reading(U, A, L, F)!Work(p) =
            [new |-> Reading(U, A, L, F)!Work(p).new, owner |-> Reading(U, A, L, F)!Work(p).owner,
             issues |-> Reading(U, A, L, F)!Work(p).issues]
       /\ Reading(U, B, L, F)!Work(p) =
            [new |-> Reading(U, B, L, F)!Work(p).new, owner |-> Reading(U, B, L, F)!Work(p).owner,
             issues |-> Reading(U, B, L, F)!Work(p).issues]
  BY DEF Reading!Work
<1>. QED
  BY <1>11, <1>12, <1>13, <1>14

\* An undisturbed cycle is over, or the next one is about to read what it left.
Ended == (pc = "idle" /\ outcome = "complete") \/ (pc \in {"sync", "observe", "link"} /\ after)

Synchronised == EmptyAnswerRefused(Listed) \/ user = Synced(Listed)
Mirrored == \A s \in Slots : acct[s] = Observed(s)

\* While nothing is disturbed, people are those of the directory once they were
\* synced, and accounts those of the providers once they were read.
Calm == mark = left =>
  /\ hand = NoHand
  /\ Ended \/ pc \in {"observe", "link", "store", "issues"} => Synchronised
  /\ Ended \/ pc \in {"link", "store", "issues"} => Mirrored /\ failed = {}

\* The links once what is pending is stored.
Final == [a \in Pairs |->
  IF \E e \in Externals : <<a[1], e>> \in pass[a[2]].new
  THEN [ext |-> CHOOSE e \in Externals : <<a[1], e>> \in pass[a[2]].new, origin |-> "matched"]
  ELSE link[a]]

Done(p) == pc \notin {"store", "issues"} \/ after \/ p \notin toStore

\* A pass over the final tables would make no link and find what this one found,
\* and what is stored already, or was stored by the cycle before, agrees with it.
Fixed == mark = left /\ ~joined /\ (Ended \/ pc \in {"store", "issues"}) => \A p \in Providers :
  /\ Fresh(p, pass[p].new)
  /\ Reading(user, acct, Final, {})!Work(p)
       = [new |-> {}, owner |-> pass[p].owner, issues |-> pass[p].issues]
  /\ Done(p) \/ (pc = "issues" /\ Storing(p)) => Persisted(p)
  /\ Done(p) => issue[p] = pass[p].issues

\* A cycle after one that nothing disturbed matches nobody on a keyed provider
\* by her subject, as that one did not.
Straight == mark = left /\ after /\ pc # "idle" => ~joined

\* The steps of a cycle that nothing disturbs.
LEMMA CalmSteps ==
  ASSUME TypeOK, Quiet, Calm, [Next]_vars, mark' = left'
  PROVE  \/ BeginCycle /\ hand = NoHand
         \/ /\ mark = left /\ hand = NoHand /\ UNCHANGED <<world, hand, after, mark, left>>
            /\ \/ SyncIdentity(Listed) /\ joined' = joined
               \/ Observe({}) /\ joined' = joined
               \/ LinkPass
               \/ Store /\ joined' = joined
         \/ UNCHANGED vars
<1>. USE DEF world, tables, cycle, history
<1>1. ~(Disturb /\ mark' = mark)
  BY DEF Disturb, Quiet, Disturbed, TypeOK
<1>2. ~(mark' = mark /\ left' = left /\ hand # NoHand)
  BY DEF Calm
<1>3. BeginCycle => hand = NoHand
  <2>1. BeginCycle => left' = left /\ (hand # NoHand => mark' = Disturbed)
    BY DEF BeginCycle
  <2>2. left # Disturbed
    BY DEF TypeOK, Disturbed
  <2>. QED
    BY <2>1, <2>2
<1>4. World \/ Admin => (Disturb /\ mark' = mark) \/ (mark' = mark /\ left' = left /\ hand # NoHand)
  BY DEF World, DirectoryChanges, AccountChanges, Admin, AddManualUser, DeleteUser, LinkByHand,
     UnlinkByHand, MayEdit, OwnByHand
<1>5. ASSUME NEW answer \in SUBSET Listed, SyncIdentity(answer)
      PROVE  /\ mark = left /\ SyncIdentity(Listed) /\ joined' = joined
             /\ UNCHANGED <<world, hand, after, mark, left>>
  <2>1. answer = Listed /\ left' = left
    BY <1>1, <1>5 DEF SyncIdentity
  <2>. QED
    BY <1>5, <2>1 DEF SyncIdentity
<1>6. ASSUME NEW failures \in SUBSET Providers, Observe(failures)
      PROVE  /\ mark = left /\ Observe({}) /\ joined' = joined
             /\ UNCHANGED <<world, hand, after, mark, left>>
  <2>1. failures = {} /\ left' = left
    BY <1>1, <1>6 DEF Observe
  <2>. QED
    BY <1>6, <2>1 DEF Observe
<1>7. /\ LinkPass \/ Store => UNCHANGED <<world, hand, after, mark, left>>
      /\ Store => joined' = joined
  BY DEF LinkPass, Store, StoreLink, StoreAborts, StoreOwners, StoreIssues
<1>. QED
  BY <1>1, <1>2, <1>3, <1>4, <1>5, <1>6, <1>7 DEF Next, Step

\* Syncing twice is syncing once.
LEMMA SyncTwice ==
  ASSUME TypeOK, SyncIdentity(Listed)
  PROVE  Synchronised' /\ (Synchronised => user' = user)
<1>1. Listed' = Listed /\ directory' = directory
  BY DEF SyncIdentity, world, Listed
<1>2. CASE EmptyAnswerRefused(Listed)
  <2>1. user' = user
    BY <1>2 DEF SyncIdentity
  <2>. QED
    BY <1>1, <1>2, <2>1 DEF Synchronised, EmptyAnswerRefused, Active
<1>3. CASE ~EmptyAnswerRefused(Listed)
  <2>1. user' = Synced(Listed)
    BY <1>3 DEF SyncIdentity
  <2>2. ASSUME NEW u \in Users
        PROVE  user'[u] = IF u \in Listed THEN [status |-> "active", key |-> directory[u]]
                          ELSE IF u \notin Manual /\ user'[u].status = "active"
                          THEN [user'[u] EXCEPT !.status = "orphaned"]
                          ELSE user'[u]
    <3>1. user[u] \in [status : {"none", "active", "orphaned"}, key : Nat]
      BY DEF TypeOK
    <3>. QED
      BY <2>1, <3>1 DEF Synced
  <2>3. user' = [u \in Users |-> user'[u]]
    BY <2>1 DEF Synced
  <2>4. user' = Synced(Listed)'
    BY <1>1, <2>2, <2>3 DEF Synced
  <2>. QED
    BY <1>3, <2>1, <2>4 DEF Synchronised
<1>. QED
  BY <1>2, <1>3

\* Reading twice is reading once.
LEMMA ObserveTwice ==
  ASSUME TypeOK, Observe({})
  PROVE  Mirrored' /\ (Mirrored => acct' = acct)
<1>1. acct' = [s \in Slots |-> Observed(s)] /\ real' = real
  BY DEF Observe, world
<1>2. acct = [s \in Slots |-> acct[s]]
  BY DEF TypeOK
<1>3. ASSUME NEW s \in Slots PROVE acct'[s] = Observed(s)'
  <2>1. acct'[s] = Observed(s)
    BY <1>1
  <2>2. acct[s].owner = acct'[s].owner \/ real[s].state = "gone"
    BY <2>1 DEF Observed
  <2>. QED
    BY <1>1, <2>1, <2>2 DEF Observed
<1>4. Mirrored => acct' = acct
  BY <1>1, <1>2 DEF Mirrored
<1>. QED
  BY <1>3, <1>4 DEF Mirrored

\* A step that is not disturbed leaves it calm.
LEMMA CalmStep ==
  ASSUME TypeOK, Quiet, Calm, [Next]_vars
  PROVE  Calm'
<1>. USE DEF world, tables, cycle, history
<1>. SUFFICES ASSUME mark' = left' PROVE Calm'
  BY DEF Calm
<1>1. /\ UNCHANGED <<user, directory>> => (Synchronised' <=> Synchronised)
      /\ UNCHANGED <<acct, real>> => (Mirrored' <=> Mirrored)
  BY DEF Synchronised, EmptyAnswerRefused, Listed, Active, Synced, Mirrored, Observed
<1>2. mark = left =>
        /\ Ended \/ pc \in {"observe", "link", "store", "issues"} => Synchronised
        /\ Ended \/ pc \in {"link", "store", "issues"} => Mirrored /\ failed = {}
  BY DEF Calm
<1>3. CASE BeginCycle /\ hand = NoHand
  <2>1. /\ pc = "idle" /\ pc' = "sync" /\ failed' = {} /\ hand' = NoHand
        /\ after' = (outcome = "complete" /\ mark = left /\ ~joined)
        /\ UNCHANGED <<user, directory, acct, real>>
    BY <1>3 DEF BeginCycle
  <2>2. Ended' => mark = left /\ Ended
    BY <2>1 DEF Ended
  <2>. QED
    BY <1>1, <1>2, <2>1, <2>2 DEF Calm
<1>4. CASE /\ mark = left /\ hand = NoHand /\ SyncIdentity(Listed) /\ joined' = joined
           /\ UNCHANGED <<world, hand, after, mark, left>>
  <2>1. /\ pc = "sync" /\ pc' = "observe" /\ UNCHANGED <<acct, real, failed, after>>
    BY <1>4 DEF SyncIdentity
  <2>2. Ended' => Ended
    BY <2>1 DEF Ended
  <2>3. Synchronised'
    BY <1>4, SyncTwice
  <2>. QED
    BY <1>1, <1>2, <1>4, <2>1, <2>2, <2>3 DEF Calm
<1>5. CASE /\ mark = left /\ hand = NoHand /\ Observe({}) /\ joined' = joined
           /\ UNCHANGED <<world, hand, after, mark, left>>
  <2>1. pc = "observe" /\ failed' = {} /\ UNCHANGED <<user, directory>>
    BY <1>5 DEF Observe
  <2>2. Mirrored'
    BY <1>5, ObserveTwice
  <2>. QED
    BY <1>1, <1>2, <1>5, <2>1, <2>2 DEF Calm
<1>6. CASE mark = left /\ hand = NoHand /\ LinkPass /\ UNCHANGED <<world, hand, after, mark, left>>
  <2>1. pc = "link" /\ UNCHANGED <<user, directory, acct, real, failed>>
    BY <1>6 DEF LinkPass
  <2>. QED
    BY <1>1, <1>2, <1>6, <2>1 DEF Calm
<1>7. CASE /\ mark = left /\ hand = NoHand /\ Store /\ joined' = joined
           /\ UNCHANGED <<world, hand, after, mark, left>>
  <2>1. pc \in {"store", "issues"} /\ UNCHANGED <<user, directory, real, failed>>
    BY <1>7 DEF Store, StoreLink, StoreAborts, StoreOwners, StoreIssues
  <2>2. Synchronised' /\ Mirrored /\ failed' = {}
    BY <1>1, <1>2, <1>7, <2>1
  <2>3. Mirrored'
    <3>1. ASSUME NEW p \in Providers, StoreOwners(p) PROVE Mirrored'
      <4>1. ASSUME NEW s \in Slots PROVE acct'[s] = Observed(s)'
        <5>1. acct[s] = Observed(s)
          BY <2>2 DEF Mirrored
        <5>2. acct'[s] = IF s[1] = p /\ acct[s].stored
                         THEN [acct[s] EXCEPT !.owner = pass[p].owner[s[2]]] ELSE acct[s]
          BY <3>1 DEF StoreOwners, OwnersStored
        <5>3. CASE real[s].state = "gone"
          BY <2>1, <5>1, <5>2, <5>3 DEF Observed, NoAccount
        <5>4. CASE real[s].state # "gone"
          <6>1. /\ acct[s].stored /\ acct[s].writable = (real[s].state = "enabled")
                /\ acct[s].key = real[s].key /\ acct[s].subject = real[s].subject
            BY <5>1, <5>4 DEF Observed
          <6>2. /\ acct'[s].stored = acct[s].stored /\ acct'[s].writable = acct[s].writable
                /\ acct'[s].key = acct[s].key /\ acct'[s].subject = acct[s].subject
            BY <3>1, OwnersOnly DEF SameAccounts
          <6>3. acct'[s] \in Rows
            BY TypeStep DEF TypeOK, Rows
          <6>4. acct'[s] = [stored |-> acct'[s].stored, writable |-> acct'[s].writable,
                            key |-> acct'[s].key, subject |-> acct'[s].subject,
                            owner |-> acct'[s].owner]
                /\ acct'[s].stored \in BOOLEAN
            BY <6>3 DEF Rows
          <6>5. acct'[s] = [stored |-> TRUE, writable |-> real[s].state = "enabled",
                            key |-> real[s].key, subject |-> real[s].subject,
                            owner |-> acct'[s].owner]
            BY <6>1, <6>2, <6>4
          <6>. QED
            BY <2>1, <5>4, <6>5 DEF Observed
        <5>. QED
          BY <5>3, <5>4
      <4>. QED
        BY <4>1 DEF Mirrored
    <3>2. acct' = acct \/ \E p \in Providers : StoreOwners(p)
      BY <1>7 DEF Store, StoreLink, StoreAborts, StoreIssues
    <3>. QED
      BY <1>1, <2>1, <2>2, <3>1, <3>2
  <2>. QED
    BY <1>7, <2>2, <2>3 DEF Calm
<1>8. CASE UNCHANGED vars
  <2>1. Ended' <=> Ended
    BY <1>8 DEF vars, Ended
  <2>. QED
    BY <1>1, <1>2, <1>8, <2>1 DEF vars, Calm
<1>. QED
  BY <1>3, <1>4, <1>5, <1>6, <1>7, <1>8, CalmSteps

\* What is stored of the pending links changes nothing of the final ones.
LEMMA FinalStays ==
  ASSUME TypeOK, NEW p \in Providers, NEW u \in Users, NEW e \in Externals, StoreLink(p, u, e),
         \A q \in Providers : Fresh(q, pass[q].new)
  PROVE  Final' = Final
<1>1. <<u, e>> \in pass[p].new
  BY DEF StoreLink
<1>2. /\ \A a \in Pairs : link'[a] = IF a = <<u, p>> THEN [ext |-> e, origin |-> "matched"]
                                                     ELSE link[a]
      /\ \A q \in Providers :
           pass'[q].new = IF q = p THEN pass[q].new \ {<<u, e>>} ELSE pass[q].new
  BY StoredLink
<1>3. \A g \in Externals : <<u, g>> \in pass[p].new => g = e
  <2>1. \A a \in pass[p].new : \A b \in pass[p].new : a[1] = b[1] => a = b
    BY DEF Fresh
  <2>2. \A b \in pass[p].new : <<u, e>>[1] = b[1] => <<u, e>> = b
    BY <1>1, <2>1
  <2>3. ASSUME NEW g \in Externals, <<u, g>> \in pass[p].new PROVE g = e
    <3>1. <<u, e>>[1] = <<u, g>>[1]
      OBVIOUS
    <3>2. <<u, e>> = <<u, g>>
      BY <2>2, <2>3, <3>1
    <3>. QED
      BY <3>2
  <2>. QED
    BY <2>3
<1>. DEFINE will(a) == IF \E g \in Externals : <<a[1], g>> \in pass[a[2]].new
                       THEN [ext |-> CHOOSE g \in Externals : <<a[1], g>> \in pass[a[2]].new,
                             origin |-> "matched"]
                       ELSE link[a]
            does(a) == IF \E g \in Externals : <<a[1], g>> \in pass'[a[2]].new
                       THEN [ext |-> CHOOSE g \in Externals : <<a[1], g>> \in pass'[a[2]].new,
                             origin |-> "matched"]
                       ELSE link'[a]
<1>4. ASSUME NEW v \in Users, NEW q \in Providers PROVE does(<<v, q>>) = will(<<v, q>>)
  <2>1. <<v, q>> \in Pairs /\ <<v, q>>[1] = v /\ <<v, q>>[2] = q
    BY DEF Pairs
  <2>2. CASE v = u /\ q = p
    <3>1. \A g \in Externals : <<u, g>> \notin pass'[p].new
      BY <1>2, <1>3
    <3>2. (CHOOSE g \in Externals : <<u, g>> \in pass[p].new) = e
      BY <1>1, <1>3
    <3>3. does(<<u, p>>) = [ext |-> e, origin |-> "matched"]
      BY <1>2, <2>1, <2>2, <3>1
    <3>. QED
      BY <1>1, <2>1, <2>2, <3>2, <3>3
  <2>3. CASE ~(v = u /\ q = p)
    <3>1. link'[<<v, q>>] = link[<<v, q>>]
      <4>1. <<v, q>> # <<u, p>>
        BY <2>3
      <4>. QED
        BY <1>2, <2>1, <4>1
    <3>2. \A g \in Externals : <<v, g>> \in pass'[q].new <=> <<v, g>> \in pass[q].new
      BY <1>2, <2>3
    <3>. QED
      BY <2>1, <3>1, <3>2
  <2>. QED
    BY <2>2, <2>3
<1>5. Final' = [a \in Pairs |-> does(a)] /\ Final = [a \in Pairs |-> will(a)]
  BY DEF Final
<1>6. \A a \in Pairs : \E v \in Users, q \in Providers : a = <<v, q>>
  BY DEF Pairs
<1>. HIDE DEF does, will
<1>. QED
  BY <1>4, <1>5, <1>6

\* Once nothing is pending, the final links are the ones there are.
LEMMA FinalIsLink ==
  ASSUME TypeOK, \A p \in Providers : pass[p].new = {}
  PROVE  Final = link
<1>1. link = [a \in Pairs |-> link[a]]
  BY DEF TypeOK
<1>2. \A a \in Pairs : a[2] \in Providers
  BY DEF Pairs
<1>. QED
  BY <1>1, <1>2 DEF Final

\* When a pass is worked out, the final links are those it leads to.
LEMMA FinalIsLater ==
  ASSUME TypeOK, LinkPass, failed = {}
  PROVE  Final' = Later
<1>1. link' = link /\ \A p \in Providers : pass'[p] = Work(p)
  BY DEF LinkPass, tables
<1>2. \A a \in Pairs : a[2] \in Providers
  BY DEF Pairs
<1>3. \A a \in Pairs : pass'[a[2]].new = Work(a[2]).new
  BY <1>1, <1>2
<1>. QED
  BY <1>1, <1>3 DEF Final, Later

\* The links that are pending stay of people without one.
LEMMA StoringKeepsFresh ==
  ASSUME TypeOK, NEW p \in Providers, NEW u \in Users, NEW e \in Externals, StoreLink(p, u, e),
         NEW q \in Providers, Fresh(p, pass[p].new), Fresh(q, pass[q].new)
  PROVE  Fresh(q, pass[q].new)'
<1>1. <<u, e>> \in pass[p].new
  BY DEF StoreLink
<1>2. /\ \A a \in Pairs : link'[a] = IF a = <<u, p>> THEN [ext |-> e, origin |-> "matched"]
                                                     ELSE link[a]
      /\ \A r \in Providers :
           pass'[r].new = IF r = p THEN pass[r].new \ {<<u, e>>} ELSE pass[r].new
  BY StoredLink
<1>3. pass'[q].new = IF q = p THEN pass[q].new \ {<<u, e>>} ELSE pass[q].new
  BY <1>2
<1>4. \A a \in pass[q].new : link[<<a[1], q>>] = NoLink /\ \A b \in pass[q].new : a[1] = b[1] => a = b
  BY DEF Fresh
<1>5. ASSUME NEW a \in pass'[q].new PROVE link'[<<a[1], q>>] = NoLink
  <2>1. a \in pass[q].new /\ (q = p => a # <<u, e>>)
    BY <1>3, <1>5
  <2>2. <<a[1], q>> # <<u, p>>
    <3>1. q = p => a[1] # u
      BY <1>1, <1>4, <2>1
    <3>. QED
      BY <3>1
  <2>3. <<a[1], q>> \in Pairs
    <3>1. pass[q].new \subseteq Users \X Externals
      BY DEF TypeOK, Works
    <3>. QED
      BY <2>1, <3>1 DEF Pairs
  <2>4. link'[<<a[1], q>>] = link[<<a[1], q>>]
    BY <1>2, <2>2, <2>3
  <2>. QED
    BY <1>4, <2>1, <2>4
<1>6. \A a, b \in pass'[q].new : a[1] = b[1] => a = b
  BY <1>3, <1>4
<1>. QED
  BY <1>5, <1>6 DEF Fresh

\* A pass that starts leads to what another one would leave alone.
LEMMA PassIsFixed ==
  ASSUME TypeOK, failed = {}, Fixed, Straight, mark = left, pc = "link", LinkPass,
         UNCHANGED <<mark, left, after>>
  PROVE  Fixed' /\ (after => ~joined')
<1>1. /\ UNCHANGED <<user, acct, link, issue>>
      /\ \A p \in Providers : pass'[p] = Work(p)
  BY DEF LinkPass, tables
<1>2. ~joined' => NoneJoinKeyed
  BY DEF LinkPass, NoneJoinKeyed
<1>3. ASSUME ~joined', NEW p \in Providers
      PROVE  /\ Fresh(p, pass[p].new)'
             /\ (Reading(user, acct, Final, {})!Work(p))'
                  = [new |-> {}, owner |-> pass'[p].owner, issues |-> pass'[p].issues]
  <2>1. Fresh(p, pass[p].new)'
    <3>1. Fresh(p, Work(p).new) /\ pass'[p].new = Work(p).new
      BY <1>1, WorkFresh
    <3>. QED
      BY <1>1, <3>1 DEF Fresh
  <2>2. (Reading(user, acct, Final, {})!Work(p))' = Reading(user, acct, Later, {})!Work(p)
    BY <1>1, FinalIsLater
  <2>3. Reading(user, acct, Later, {})!Work(p) = Again!Work(p)
    BY WorkIsReading
  <2>4. Again!Work(p) = [new |-> {}, owner |-> Work(p).owner, issues |-> Work(p).issues]
    BY <1>2, <1>3, SecondPass
  <2>. QED
    BY <1>1, <2>1, <2>2, <2>3, <2>4
<1>4. ASSUME after, NEW p \in Providers
      PROVE  Persisted(p)' /\ issue'[p] = pass'[p].issues /\ Joined(p) = {}
  <2>1. \A q \in Providers :
          /\ Reading(user, acct, Final, {})!Work(q)
               = [new |-> {}, owner |-> pass[q].owner, issues |-> pass[q].issues]
          /\ Persisted(q) /\ issue[q] = pass[q].issues
    BY <1>4 DEF Fixed, Straight, Ended, Done
  <2>2. Final = link
    BY <2>1, FinalIsLink DEF Persisted
  <2>3. Work(p) = [new |-> {}, owner |-> pass[p].owner, issues |-> pass[p].issues]
    BY <2>1, <2>2, WorkIsReading
  <2>4. pass'[p].new = {} /\ pass'[p].owner = pass[p].owner /\ pass'[p].issues = pass[p].issues
    BY <1>1, <2>3
  <2>5. Persisted(p)' <=> Persisted(p)
    BY <1>1, <2>1, <2>4 DEF Persisted, OwnersIn
  <2>6. Joined(p) = {}
    BY <2>3 DEF Work
  <2>. QED
    BY <1>1, <2>1, <2>4, <2>5, <2>6
<1>5. toStore' = Providers /\ (pc' \in {"store", "issues"} \/ Providers = {}) /\ pc' # "issues"
  BY DEF LinkPass, EndCycle
<1>6. ASSUME NEW p \in Providers, Done(p)' PROVE after
  BY <1>5, <1>6 DEF Done
<1>7. pc' # "issues" /\ after' = after
  BY <1>5
<1>8. after => ~joined'
  BY <1>4, KeyedAssumption DEF LinkPass
<1>9. Fixed'
  BY <1>3, <1>4, <1>6, <1>7 DEF Fixed
<1>. QED
  BY <1>8, <1>9

\* Storing what was worked out keeps it so.
LEMMA StoreIsFixed ==
  ASSUME TypeOK, Fixed, mark = left, ~joined, Store, UNCHANGED <<mark, left, after, joined>>
  PROVE  Fixed' /\ (after => UNCHANGED <<link, acct, issue>>)
<1>1. pc \in {"store", "issues"}
  BY DEF Store, StoreLink, StoreAborts, StoreOwners, StoreIssues
<1>2. ASSUME NEW q \in Providers
      PROVE  /\ Fresh(q, pass[q].new)
             /\ Reading(user, acct, Final, {})!Work(q)
                  = [new |-> {}, owner |-> pass[q].owner, issues |-> pass[q].issues]
             /\ after \/ q \notin toStore \/ (pc = "issues" /\ Storing(q)) => Persisted(q)
             /\ after \/ q \notin toStore => issue[q] = pass[q].issues
  BY <1>1 DEF Fixed, Done
<1>3. ASSUME NEW p \in Providers, NEW u \in Users, NEW e \in Externals, StoreLink(p, u, e)
      PROVE  Fixed' /\ ~after
  <2>1. /\ pc' = pc /\ pc = "store" /\ p \in toStore /\ <<u, e>> \in pass[p].new
        /\ UNCHANGED <<user, acct, issue, toStore>>
    BY <1>3 DEF StoreLink, Storing
  <2>2. ~after
    BY <1>2, <2>1 DEF Persisted
  <2>3. Final' = Final
    BY <1>2, <1>3, FinalStays
  <2>4. ASSUME NEW q \in Providers
        PROVE  /\ Fresh(q, pass[q].new)'
               /\ (Reading(user, acct, Final, {})!Work(q))'
                    = [new |-> {}, owner |-> pass'[q].owner, issues |-> pass'[q].issues]
               /\ q \notin toStore => Persisted(q)' /\ issue'[q] = pass'[q].issues
    <3>1. Fresh(q, pass[q].new)'
      BY <1>2, <1>3, StoringKeepsFresh
    <3>2. /\ pass'[q].owner = pass[q].owner /\ pass'[q].issues = pass[q].issues
          /\ q # p => pass'[q].new = pass[q].new
      BY <1>3, StoredLink
    <3>3. (Reading(user, acct, Final, {})!Work(q))' = Reading(user, acct, Final, {})!Work(q)
      BY <2>1, <2>3
    <3>4. q \notin toStore => Persisted(q)'
      BY <1>2, <2>1, <3>2 DEF Persisted, OwnersIn
    <3>. QED
      BY <1>2, <2>1, <3>1, <3>2, <3>3, <3>4
  <2>5. pc' # "issues" /\ after' = after /\ toStore' = toStore /\ pc' = "store"
    BY <2>1
  <2>. QED
    BY <2>2, <2>4, <2>5 DEF Fixed, Done
<1>4. ASSUME NEW p \in Providers, StoreOwners(p)
      PROVE  Fixed' /\ UNCHANGED <<link, issue>> /\ (after => acct' = acct)
  <2>1. /\ pc = "store" /\ pc' = "issues" /\ Storing(p) /\ pass[p].new = {}
        /\ acct' = OwnersStored(p)
        /\ UNCHANGED <<user, link, issue, pass, toStore>>
    BY <1>4 DEF StoreOwners
  <2>2. SameAccounts
    BY <1>4, OwnersOnly
  <2>3. Final' = Final
    BY <2>1 DEF Final
  <2>4. \A q \in Providers, e \in Externals :
          acct'[<<q, e>>] = IF q = p /\ acct[<<q, e>>].stored
                            THEN [acct[<<q, e>>] EXCEPT !.owner = pass[p].owner[e]]
                            ELSE acct[<<q, e>>]
    BY <2>1 DEF OwnersStored, Slots
  <2>5. \A e \in Externals : acct'[<<p, e>>].stored => acct'[<<p, e>>].owner = pass[p].owner[e]
    <3>1. ASSUME NEW e \in Externals, acct'[<<p, e>>].stored
          PROVE  acct'[<<p, e>>].owner = pass[p].owner[e]
      <4>1. acct[<<p, e>>] \in Rows
        BY DEF TypeOK, Rows, Slots
      <4>. QED
        BY <2>4, <3>1, <4>1 DEF Rows
    <3>. QED
      BY <3>1
  <2>6. Persisted(p)'
    BY <2>1, <2>5 DEF Persisted, OwnersIn
  <2>7. ASSUME NEW q \in Providers
        PROVE  /\ Fresh(q, pass[q].new)'
               /\ (Reading(user, acct, Final, {})!Work(q))'
                    = [new |-> {}, owner |-> pass'[q].owner, issues |-> pass'[q].issues]
               /\ after \/ q \notin toStore \/ Storing(q) => Persisted(q)'
               /\ after \/ q \notin toStore => issue'[q] = pass'[q].issues
    <3>1. Fresh(q, pass[q].new)'
      <4>1. Fresh(q, pass[q].new)
        BY <1>2
      <4>. QED
        BY <2>1, <4>1 DEF Fresh
    <3>2. Final \in [Pairs -> {NoLink} \cup [ext : Externals, origin : {"matched", "manual"}]]
      <4>1. ASSUME NEW a \in Pairs, \E g \in Externals : <<a[1], g>> \in pass[a[2]].new
            PROVE  (CHOOSE g \in Externals : <<a[1], g>> \in pass[a[2]].new) \in Externals
        BY <4>1
      <4>2. \A a \in Pairs : link[a] \in {NoLink} \cup [ext : Externals, origin : {"matched", "manual"}]
        BY DEF TypeOK
      <4>. QED
        BY <4>1, <4>2 DEF Final
    <3>3. (Reading(user, acct, Final, {})!Work(q))' = Reading(user, acct, Final, {})!Work(q)
      <4>1. PICK B : B = acct'
        OBVIOUS
      <4>2. \A s \in Slots :
              /\ B[s].stored = acct[s].stored /\ B[s].writable = acct[s].writable
              /\ B[s].key = acct[s].key /\ B[s].subject = acct[s].subject
        BY <2>2, <4>1 DEF SameAccounts
      <4>3. Reading(user, B, Final, {})!Work(q) = Reading(user, acct, Final, {})!Work(q)
        BY <3>2, <4>2, OwnersUnread
      <4>4. (Reading(user, acct, Final, {})!Work(q))' = Reading(user, B, Final, {})!Work(q)
        BY <2>1, <2>3, <4>1
      <4>. QED
        BY <4>3, <4>4
    <3>4. q # p /\ Persisted(q) => Persisted(q)'
      <4>1. q # p => \A e \in Externals : acct'[<<q, e>>] = acct[<<q, e>>]
        BY <2>4
      <4>. QED
        BY <2>1, <4>1 DEF Persisted, OwnersIn
    <3>5. Storing(q) => q = p
      BY <2>1, SlotsAssumption DEF Storing
    <3>. QED
      BY <1>2, <2>1, <2>6, <3>1, <3>3, <3>4, <3>5
  <2>8. \A q \in Providers : Storing(q)' <=> Storing(q)
    BY <2>1 DEF Storing
  <2>9. after => acct' = acct
    <3>1. ASSUME after, NEW s \in Slots PROVE acct'[s] = acct[s]
      <4>1. PICK q \in Providers, e \in Externals : s = <<q, e>>
        BY DEF Slots
      <4>2. acct[s] \in Rows
        BY DEF TypeOK, Rows
      <4>3. acct[<<p, e>>].stored => acct[<<p, e>>].owner = pass[p].owner[e]
        BY <1>2, <3>1 DEF Persisted, OwnersIn
      <4>4. CASE q = p /\ acct[s].stored
        <5>1. acct'[s] = [acct[s] EXCEPT !.owner = acct[s].owner]
          BY <2>4, <4>1, <4>3, <4>4
        <5>. QED
          BY <4>2, <5>1 DEF Rows
      <4>5. CASE ~(q = p /\ acct[s].stored)
        BY <2>4, <4>1, <4>5
      <4>. QED
        BY <4>4, <4>5
    <3>2. acct = [s \in Slots |-> acct[s]] /\ acct' = [s \in Slots |-> acct'[s]]
      BY <2>1 DEF TypeOK, OwnersStored
    <3>. QED
      BY <3>1, <3>2
  <2>10. pc' = "issues" /\ after' = after /\ toStore' = toStore
    BY <2>1
  <2>. QED
    BY <2>1, <2>7, <2>8, <2>9, <2>10 DEF Fixed, Done
<1>5. ASSUME NEW p \in Providers, StoreIssues(p)
      PROVE  Fixed' /\ UNCHANGED <<link, acct>> /\ (after => issue' = issue)
  <2>1. /\ pc = "issues" /\ pc' # "issues" /\ Storing(p) /\ toStore' = toStore \ {p}
        /\ pc' = "idle" => toStore' = {}
        /\ pc' \in {"idle", "store"}
        /\ issue' = [issue EXCEPT ![p] = pass[p].issues]
        /\ UNCHANGED <<user, acct, link, pass>>
    BY <1>5 DEF StoreIssues, EndCycle
  <2>2. Final' = Final
    BY <2>1 DEF Final
  <2>3. issue \in [Providers -> SUBSET Issues]
    BY DEF TypeOK
  <2>4. ASSUME NEW q \in Providers
        PROVE  /\ Fresh(q, pass[q].new)'
               /\ (Reading(user, acct, Final, {})!Work(q))'
                    = [new |-> {}, owner |-> pass'[q].owner, issues |-> pass'[q].issues]
               /\ after \/ q \notin toStore' => Persisted(q)' /\ issue'[q] = pass'[q].issues
    <3>1. Fresh(q, pass[q].new)'
      <4>1. Fresh(q, pass[q].new)
        BY <1>2
      <4>. QED
        BY <2>1, <4>1 DEF Fresh
    <3>2. (Reading(user, acct, Final, {})!Work(q))' = Reading(user, acct, Final, {})!Work(q)
      BY <2>1, <2>2
    <3>3. after \/ q \notin toStore' => Persisted(q)
      BY <1>2, <2>1
    <3>4. Persisted(q)' <=> Persisted(q)
      BY <2>1 DEF Persisted, OwnersIn
    <3>5. issue'[q] = IF q = p THEN pass[p].issues ELSE issue[q]
      BY <2>1, <2>3
    <3>. QED
      BY <1>2, <2>1, <3>1, <3>2, <3>3, <3>4, <3>5
  <2>5. \A q \in Providers : Done(q)' => after \/ q \notin toStore'
    BY <2>1 DEF Done
  <2>6. after => issue' = issue
    <3>1. after => issue[p] = pass[p].issues
      BY <1>2
    <3>. QED
      BY <2>1, <2>3, <3>1
  <2>. QED
    BY <2>1, <2>4, <2>5, <2>6 DEF Fixed
<1>6. ASSUME NEW p \in Providers, NEW u \in Users, NEW e \in Externals, StoreAborts(p, u, e)
      PROVE  Fixed' /\ UNCHANGED <<link, acct, issue>>
  <2>1. pc' = "idle" /\ outcome' = "aborted" /\ UNCHANGED <<link, acct, issue>>
    BY <1>6 DEF StoreAborts, EndCycle, tables
  <2>2. ~Ended' /\ pc' \notin {"store", "issues"}
    BY <2>1 DEF Ended
  <2>. QED
    BY <2>1, <2>2 DEF Fixed
<1>. QED
  BY <1>3, <1>4, <1>5, <1>6 DEF Store

\* What is settled stays so while a cycle reads again what it read.
LEMMA ReadingKeepsFixed ==
  ASSUME Fixed, mark = left, Ended' => Ended, pc \notin {"store", "issues"},
         pc' \notin {"store", "issues"}, Ended' => UNCHANGED <<user, acct>>,
         UNCHANGED <<link, issue, pass, joined>>
  PROVE  Fixed'
<1>. SUFFICES ASSUME Ended', ~joined
              PROVE  \A p \in Providers :
                       /\ Fresh(p, pass[p].new)'
                       /\ (Reading(user, acct, Final, {})!Work(p))'
                            = [new |-> {}, owner |-> pass'[p].owner, issues |-> pass'[p].issues]
                       /\ Persisted(p)' /\ issue'[p] = pass'[p].issues
  BY DEF Fixed
<1>1. Ended /\ user' = user /\ acct' = acct
  OBVIOUS
<1>2. \A p \in Providers :
        /\ Fresh(p, pass[p].new)
        /\ Reading(user, acct, Final, {})!Work(p)
             = [new |-> {}, owner |-> pass[p].owner, issues |-> pass[p].issues]
        /\ Persisted(p) /\ issue[p] = pass[p].issues
  BY <1>1 DEF Fixed, Done
<1>3. Final' = Final
  BY DEF Final
<1>4. ASSUME NEW p \in Providers
      PROVE  (Reading(user, acct, Final, {})!Work(p))' = Reading(user, acct, Final, {})!Work(p)
  BY <1>1, <1>3
<1>5. ASSUME NEW p \in Providers
      PROVE  (Fresh(p, pass[p].new)' <=> Fresh(p, pass[p].new)) /\ (Persisted(p)' <=> Persisted(p))
  BY <1>1 DEF Fresh, Persisted, OwnersIn
<1>. QED
  BY <1>2, <1>4, <1>5

\* No step of a cycle unsettles what is settled.
LEMMA FixedStep ==
  ASSUME TypeOK, Quiet, Calm, Fixed, Straight, [Next]_vars
  PROVE  Fixed' /\ Straight'
<1>. USE DEF tables, cycle, history
<1>. SUFFICES ASSUME mark' = left' PROVE Fixed' /\ Straight'
  BY DEF Fixed, Straight
<1>1. mark = left =>
        /\ Ended \/ pc \in {"observe", "link", "store", "issues"} => Synchronised
        /\ Ended \/ pc \in {"link", "store", "issues"} => Mirrored /\ failed = {}
  BY DEF Calm
<1>2. CASE BeginCycle /\ hand = NoHand
  <2>1. /\ pc = "idle" /\ pc' = "sync"
        /\ after' = (outcome = "complete" /\ mark = left /\ ~joined)
        /\ UNCHANGED <<user, acct, link, issue, pass, joined>>
    BY <1>2 DEF BeginCycle
  <2>2. Ended' => Ended /\ mark = left
    BY <2>1 DEF Ended
  <2>3. Straight'
    BY <2>1 DEF Straight
  <2>4. mark = left => Fixed'
    BY <2>1, <2>2, ReadingKeepsFixed
  <2>5. mark # left => Fixed'
    BY <2>1, <2>2 DEF Fixed
  <2>. QED
    BY <2>3, <2>4, <2>5
<1>3. CASE /\ mark = left /\ hand = NoHand /\ SyncIdentity(Listed) /\ joined' = joined
           /\ UNCHANGED <<world, hand, after, mark, left>>
  <2>1. pc = "sync" /\ pc' = "observe" /\ UNCHANGED <<acct, link, issue, pass, after>>
    BY <1>3 DEF SyncIdentity
  <2>2. Ended' => Ended
    BY <2>1 DEF Ended
  <2>3. Ended' => user' = user
    BY <1>1, <1>3, <2>2, SyncTwice
  <2>4. Straight'
    BY <1>3, <2>1 DEF Straight
  <2>. QED
    BY <1>3, <2>1, <2>2, <2>3, <2>4, ReadingKeepsFixed
<1>4. CASE /\ mark = left /\ hand = NoHand /\ Observe({}) /\ joined' = joined
           /\ UNCHANGED <<world, hand, after, mark, left>>
  <2>1. pc = "observe" /\ pc' = "link" /\ UNCHANGED <<user, link, issue, pass, after>>
    BY <1>4 DEF Observe
  <2>2. Ended' => Ended
    BY <2>1 DEF Ended
  <2>3. Ended' => acct' = acct
    BY <1>1, <1>4, <2>2, ObserveTwice
  <2>4. Straight'
    BY <1>4, <2>1 DEF Straight
  <2>. QED
    BY <1>4, <2>1, <2>2, <2>3, <2>4, ReadingKeepsFixed
<1>5. CASE mark = left /\ hand = NoHand /\ LinkPass /\ UNCHANGED <<world, hand, after, mark, left>>
  <2>1. pc = "link" /\ failed = {}
    BY <1>1, <1>5 DEF LinkPass
  <2>2. Fixed' /\ (after => ~joined')
    BY <1>5, <2>1, PassIsFixed
  <2>. QED
    BY <1>5, <2>2 DEF Straight
<1>6. CASE /\ mark = left /\ hand = NoHand /\ Store /\ joined' = joined
           /\ UNCHANGED <<world, hand, after, mark, left>>
  <2>1. pc # "idle"
    BY <1>6 DEF Store, StoreLink, StoreAborts, StoreOwners, StoreIssues
  <2>2. ~joined => Fixed'
    BY <1>6, StoreIsFixed
  <2>3. joined => Fixed'
    BY <1>6 DEF Fixed
  <2>. QED
    BY <1>6, <2>1, <2>2, <2>3 DEF Straight
<1>7. CASE UNCHANGED vars
  <2>1. UNCHANGED <<user, acct, link, issue, pass, pc, after, joined, toStore, outcome, mark, left>>
    BY <1>7 DEF vars
  <2>2. Final' = Final /\ (Ended' <=> Ended)
    BY <2>1 DEF Final, Ended
  <2>3. ASSUME NEW p \in Providers
        PROVE  /\ (Reading(user, acct, Final, {})!Work(p))' = Reading(user, acct, Final, {})!Work(p)
               /\ Fresh(p, pass[p].new)' <=> Fresh(p, pass[p].new)
               /\ Persisted(p)' <=> Persisted(p)
               /\ Done(p)' <=> Done(p)
               /\ Storing(p)' <=> Storing(p)
    BY <2>1, <2>2 DEF Fresh, Persisted, OwnersIn, Done, Storing
  <2>. QED
    BY <2>1, <2>2, <2>3 DEF Fixed, Straight
<1>. QED
  BY <1>2, <1>3, <1>4, <1>5, <1>6, <1>7, CalmSteps

\* A cycle after one that nothing disturbed changes nothing.
LEMMA SettledStep ==
  ASSUME TypeOK, Quiet, Calm, Fixed, Straight, [Next]_vars, pc # "idle", after, Undisturbed
  PROVE  UNCHANGED <<link, acct, issue>>
<1>. USE DEF tables, cycle, history
<1>1. mark = left /\ left' = left
  BY DEF Undisturbed
<1>2. ~BeginCycle
  BY DEF BeginCycle
<1>3. mark' = mark
  BY <1>2 DEF Next, vars, World, DirectoryChanges, AccountChanges, Admin, AddManualUser, DeleteUser,
     LinkByHand, UnlinkByHand, OwnByHand, Step, SyncIdentity, Observe, LinkPass, Store, StoreLink,
     StoreAborts, StoreOwners, StoreIssues
<1>4. \/ /\ UNCHANGED <<world, hand, after, mark, left>>
         /\ \/ SyncIdentity(Listed) \/ Observe({}) \/ LinkPass
            \/ Store /\ joined' = joined
      \/ UNCHANGED vars
  BY <1>1, <1>2, <1>3, CalmSteps
<1>5. CASE SyncIdentity(Listed) \/ LinkPass
  BY <1>5 DEF SyncIdentity, LinkPass
<1>6. CASE Observe({})
  <2>1. pc = "observe" /\ UNCHANGED <<link, issue>>
    BY <1>6 DEF Observe
  <2>2. Mirrored
    BY <1>1, <2>1 DEF Calm, Ended
  <2>. QED
    BY <1>6, <2>1, <2>2, ObserveTwice
<1>7. CASE Store /\ joined' = joined /\ UNCHANGED <<after, mark, left>>
  BY <1>1, <1>7, StoreIsFixed DEF Straight
<1>8. CASE UNCHANGED vars
  BY <1>8 DEF vars
<1>. QED
  BY <1>4, <1>5, <1>6, <1>7, <1>8

\* What the two passes need is always so.
LEMMA FixedHolds == Spec => [](TypeOK /\ Quiet /\ Calm /\ Fixed /\ Straight)
<1>. DEFINE Inv == TypeOK /\ Quiet /\ Calm /\ Fixed /\ Straight
<1>1. Init => Inv
  <2>. SUFFICES ASSUME Init PROVE Inv
    OBVIOUS
  <2>1. TypeOK
    BY TypeInit
  <2>3. Quiet
    BY BoundAssumption DEF Init, Quiet, NoAccount
  <2>4. ~Ended /\ pc = "idle" /\ hand = NoHand
    BY DEF Init, Ended
  <2>5. Calm /\ Fixed /\ Straight
    BY <2>4 DEF Calm, Fixed, Straight
  <2>. QED
    BY <2>1, <2>3, <2>5
<1>2. Inv /\ [Next]_vars => Inv'
  BY TypeStep, QuietStep, CalmStep, FixedStep
<1>. HIDE DEF Inv
<1>3. Spec => []Inv
  BY <1>1, <1>2, PTL DEF Spec
<1>. QED
  BY <1>3 DEF Inv

\* CyclesSettle: a cycle over a world in which nothing changed makes no link,
\* moves no owner and reports the same issues (syncIdentity, observe and the
\* linking pass), whatever subjects the accounts share, after one that gave
\* nobody an account of a keyed provider by her subject.
THEOREM SettledCyclesStaySettled == Spec => CyclesSettle
<1>. DEFINE Inv == TypeOK /\ Quiet /\ Calm /\ Fixed /\ Straight
<1>1. Spec => []Inv
  BY FixedHolds
<1>2. Inv /\ [Next]_vars
        => [pc # "idle" /\ after /\ Undisturbed => UNCHANGED <<link, acct, issue>>]_vars
  BY SettledStep
<1>. QED
  BY <1>1, <1>2, PTL DEF Spec, CyclesSettle

\* After an undisturbed cycle that gave nobody an account of a keyed provider by
\* her subject, and as long as nothing is disturbed: the pass has nothing more
\* to link, and the issues stored are those there are.
NobodyWaits ==
  pc = "idle" /\ outcome = "complete" /\ mark = left /\ ~joined =>
    \A p \in Providers : Direct(p) = {} /\ Joined(p) = {} /\ issue[p] = IssuesFound(p)

\* What EverybodyLinked asks of an undisturbed cycle: it leaves nobody with an
\* account of her own to match or to join without a link, and tells the admin
\* of everybody it could not link (link.go: collectIssues).
THEOREM NobodyIsLeftUnlinked == Spec => []NobodyWaits
<1>. DEFINE Inv == TypeOK /\ Quiet /\ Calm /\ Fixed /\ Straight
<1>1. Spec => []Inv
  BY FixedHolds
<1>2. Inv => NobodyWaits
  <2>. SUFFICES ASSUME Inv, pc = "idle", outcome = "complete", mark = left, ~joined,
                       NEW p \in Providers
                PROVE  Direct(p) = {} /\ Joined(p) = {} /\ issue[p] = IssuesFound(p)
    BY DEF NobodyWaits
  <2>1. Ended /\ failed = {}
    BY DEF Ended, Calm
  <2>2. \A q \in Providers :
          /\ Reading(user, acct, Final, {})!Work(q)
               = [new |-> {}, owner |-> pass[q].owner, issues |-> pass[q].issues]
          /\ Persisted(q) /\ issue[q] = pass[q].issues
    BY <2>1 DEF Fixed, Done
  <2>3. Final = link
    BY <2>2, FinalIsLink DEF Persisted
  <2>4. Work(p) = [new |-> {}, owner |-> pass[p].owner, issues |-> pass[p].issues]
    BY <2>1, <2>2, <2>3, WorkIsReading
  <2>5. Work(p).new = {} /\ Work(p).issues = issue[p]
    BY <2>2, <2>4
  <2>6. Work(p).new = Direct(p) \cup Joined(p) /\ Work(p).issues = IssuesFound(p)
    BY DEF Work
  <2>. QED
    BY <2>5, <2>6
<1>. QED
  BY <1>1, <1>2, PTL

(***************************************************************************)
(* A cycle takes boundedly many steps: what it has still to do falls with  *)
(* every step it takes, whatever is edited meanwhile, and while it is      *)
(* storing there is always a provider in turn.                             *)
(***************************************************************************)
\* Links to be stored, each on its provider.
Triples == Providers \X (Users \X Externals)

\* The links that are still to be stored.
Pending == {t \in Triples : t[1] \in toStore /\ t[2] \in pass[t[1]].new}

\* Two steps for each provider to store, owners and issues, and one for each
\* link; a cycle that has not worked its links out may have all there are.
CycleLeft ==
  CASE pc = "sync"    -> Cardinality(Triples) + 2 * Cardinality(Providers) + 4
    [] pc = "observe" -> Cardinality(Triples) + 2 * Cardinality(Providers) + 3
    [] pc = "link"    -> Cardinality(Triples) + 2 * Cardinality(Providers) + 2
    [] pc = "store"   -> Cardinality(Pending) + 2 * Cardinality(toStore) + 1
    [] pc = "issues"  -> Cardinality(Pending) + 2 * Cardinality(toStore)
    [] OTHER          -> 0

CycleShortens ==
  [][pc # "idle" => pc' = "idle" \/ CycleLeft' < CycleLeft \/ UNCHANGED cycle]_vars

\* The provider in turn has a link to store or to fail on, its owners, or its
\* issues.
CycleReady ==
  pc \in {"store", "issues"} =>
    \E p \in Providers :
      /\ Storing(p)
      /\ \/ pc = "issues" \/ pass[p].new = {}
         \/ \E u \in Users, e \in Externals : <<u, e>> \in pass[p].new

LEMMA CycleCounts ==
  ASSUME IsFiniteSet(Users), IsFiniteSet(Externals),
         NEW S \in SUBSET Triples, NEW T \in SUBSET Providers
  PROVE  /\ IsFiniteSet(S) /\ Cardinality(S) \in Nat
         /\ Cardinality(Triples) \in Nat /\ Cardinality(S) <= Cardinality(Triples)
         /\ IsFiniteSet(T) /\ Cardinality(T) \in Nat
         /\ Cardinality(Providers) \in Nat /\ Cardinality(T) <= Cardinality(Providers)
<1>1. IsFiniteSet(Providers)
  BY SlotsAssumption
<1>2. IsFiniteSet(Users \X Externals)
  BY FS_Product
<1>3. IsFiniteSet(Triples)
  BY <1>1, <1>2, FS_Product DEF Triples
<1>4. /\ IsFiniteSet(S) /\ Cardinality(S) <= Cardinality(Triples)
      /\ IsFiniteSet(T) /\ Cardinality(T) <= Cardinality(Providers)
  BY <1>1, <1>3, FS_Subset
<1>. QED
  BY <1>1, <1>3, <1>4, FS_CardinalityType

\* Storing a link takes it off what is pending, and nothing else.
LEMMA StoringPends ==
  ASSUME IsFiniteSet(Users), IsFiniteSet(Externals), TypeOK,
         NEW p \in Providers, NEW u \in Users, NEW e \in Externals, StoreLink(p, u, e)
  PROVE  Cardinality(Pending') = Cardinality(Pending) - 1
<1>1. p \in toStore /\ <<u, e>> \in pass[p].new /\ toStore' = toStore
  BY DEF StoreLink, Storing
<1>2. <<p, <<u, e>>>> \in Pending
  BY <1>1 DEF Pending, Triples
<1>3. \A q \in Providers : pass'[q].new = IF q = p THEN pass[q].new \ {<<u, e>>} ELSE pass[q].new
  BY StoredWork
<1>4. ASSUME NEW t \in Triples PROVE t \in Pending' <=> t \in Pending \ {<<p, <<u, e>>>>}
  <2>1. PICK q \in Providers, a \in Users \X Externals : t = <<q, a>>
    BY DEF Triples
  <2>2. t[1] = q /\ t[2] = a
    BY <2>1
  <2>3. t \in Pending' <=> q \in toStore /\ a \in pass'[q].new
    BY <1>1, <2>2 DEF Pending
  <2>4. t \in Pending <=> q \in toStore /\ a \in pass[q].new
    BY <2>2 DEF Pending
  <2>5. a \in pass'[q].new <=> a \in pass[q].new /\ (q = p => a # <<u, e>>)
    BY <1>3
  <2>. QED
    BY <2>1, <2>3, <2>4, <2>5
<1>5. Pending' = Pending \ {<<p, <<u, e>>>>}
  <2>1. Pending' \subseteq Triples /\ Pending \subseteq Triples
    BY DEF Pending
  <2>. QED
    BY <1>4, <2>1
<1>6. IsFiniteSet(Pending)
  BY CycleCounts DEF Pending
<1>. QED
  BY <1>2, <1>5, <1>6, FS_RemoveElement

LEMMA CycleStep ==
  ASSUME IsFiniteSet(Users), IsFiniteSet(Externals), TypeOK, TypeOK', [Next]_vars, pc # "idle"
  PROVE  pc' = "idle" \/ CycleLeft' < CycleLeft \/ UNCHANGED cycle
<1>. USE DEF cycle
<1>0. /\ Cardinality(Triples) \in Nat /\ Cardinality(Providers) \in Nat
      /\ Cardinality(Pending) \in Nat /\ Cardinality(Pending') \in Nat
      /\ Cardinality(Pending') <= Cardinality(Triples)
      /\ IsFiniteSet(toStore) /\ Cardinality(toStore) \in Nat /\ Cardinality(toStore') \in Nat
      /\ Cardinality(toStore') <= Cardinality(Providers)
  <2>1. Pending \subseteq Triples /\ Pending' \subseteq Triples
    BY DEF Pending
  <2>2. toStore \subseteq Providers /\ toStore' \subseteq Providers
    BY DEF TypeOK
  <2>. QED
    BY <2>1, <2>2, CycleCounts
<1>1. ASSUME NEW answer, SyncIdentity(answer) PROVE CycleLeft' < CycleLeft
  <2>1. pc = "sync" /\ pc' = "observe"
    BY <1>1 DEF SyncIdentity
  <2>. QED
    BY <1>0, <2>1 DEF CycleLeft
<1>2. ASSUME NEW failures, Observe(failures) PROVE CycleLeft' < CycleLeft
  <2>1. pc = "observe" /\ pc' = "link"
    BY <1>2 DEF Observe
  <2>. QED
    BY <1>0, <2>1 DEF CycleLeft
<1>3. CASE LinkPass
  <2>1. pc = "link" /\ (pc' = "idle" \/ pc' = "store")
    BY <1>3 DEF LinkPass, EndCycle
  <2>2. CASE pc' = "store"
    <3>1. CycleLeft = Cardinality(Triples) + 2 * Cardinality(Providers) + 2
      BY <2>1 DEF CycleLeft
    <3>2. CycleLeft' = Cardinality(Pending') + 2 * Cardinality(toStore') + 1
      BY <2>2 DEF CycleLeft
    <3>. QED
      BY <1>0, <3>1, <3>2
  <2>. QED
    BY <2>1, <2>2
<1>4. ASSUME NEW p \in Providers, NEW u \in Users, NEW e \in Externals, StoreLink(p, u, e)
      PROVE  CycleLeft' < CycleLeft
  <2>1. pc = "store" /\ pc' = "store" /\ toStore' = toStore
    BY <1>4 DEF StoreLink
  <2>2. Cardinality(Pending') = Cardinality(Pending) - 1
    BY <1>4, StoringPends
  <2>3. CycleLeft = Cardinality(Pending) + 2 * Cardinality(toStore) + 1
    BY <2>1 DEF CycleLeft
  <2>4. CycleLeft' = Cardinality(Pending') + 2 * Cardinality(toStore') + 1
    BY <2>1 DEF CycleLeft
  <2>. QED
    BY <1>0, <2>1, <2>2, <2>3, <2>4
<1>5. ASSUME NEW p \in Providers, NEW u \in Users, NEW e \in Externals, StoreAborts(p, u, e)
      PROVE  pc' = "idle"
  BY <1>5 DEF StoreAborts, EndCycle
<1>6. ASSUME NEW p \in Providers, StoreOwners(p) PROVE CycleLeft' < CycleLeft
  <2>1. pc = "store" /\ pc' = "issues" /\ toStore' = toStore /\ pass' = pass
    BY <1>6 DEF StoreOwners
  <2>2. Pending' = Pending
    BY <2>1 DEF Pending
  <2>3. CycleLeft = Cardinality(Pending) + 2 * Cardinality(toStore) + 1
    BY <2>1 DEF CycleLeft
  <2>4. CycleLeft' = Cardinality(Pending') + 2 * Cardinality(toStore')
    BY <2>1 DEF CycleLeft
  <2>. QED
    BY <1>0, <2>1, <2>2, <2>3, <2>4
<1>7. ASSUME NEW p \in Providers, StoreIssues(p) PROVE pc' = "idle" \/ CycleLeft' < CycleLeft
  <2>1. /\ pc = "issues" /\ p \in toStore /\ toStore' = toStore \ {p} /\ pass' = pass
        /\ pc' \in {"idle", "store"}
    BY <1>7 DEF StoreIssues, Storing, EndCycle
  <2>2. Cardinality(toStore') = Cardinality(toStore) - 1
    BY <1>0, <2>1, FS_RemoveElement
  <2>3. Cardinality(Pending') <= Cardinality(Pending)
    <3>1. Pending' \subseteq Pending
      BY <2>1 DEF Pending
    <3>2. IsFiniteSet(Pending)
      BY CycleCounts DEF Pending
    <3>. QED
      BY <3>1, <3>2, FS_Subset
  <2>4. CASE pc' = "store"
    <3>1. CycleLeft = Cardinality(Pending) + 2 * Cardinality(toStore)
      BY <2>1 DEF CycleLeft
    <3>2. CycleLeft' = Cardinality(Pending') + 2 * Cardinality(toStore') + 1
      BY <2>4 DEF CycleLeft
    <3>. QED
      BY <1>0, <2>2, <2>3, <3>1, <3>2
  <2>. QED
    BY <2>1, <2>4
<1>8. CASE UNCHANGED cycle
  BY <1>8
<1>9. \/ \E answer : SyncIdentity(answer)
      \/ \E failures : Observe(failures)
      \/ LinkPass
      \/ \E p \in Providers, u \in Users, e \in Externals : StoreLink(p, u, e) \/ StoreAborts(p, u, e)
      \/ \E p \in Providers : StoreOwners(p) \/ StoreIssues(p)
      \/ UNCHANGED cycle
  BY DEF Next, vars, World, DirectoryChanges, AccountChanges, Admin, AddManualUser, DeleteUser,
         LinkByHand, UnlinkByHand, OwnByHand, BeginCycle, Step, Store
<1>. QED
  BY <1>1, <1>2, <1>3, <1>4, <1>5, <1>6, <1>7, <1>8, <1>9

\* A cycle of finitely many people and accounts ends, or comes nearer to its
\* end with every step it takes (link.go: persist), whatever the admin edits
\* and the world does meanwhile.  With fairness, every cycle ends.
THEOREM CyclesTakeBoundedlyManySteps ==
  ASSUME IsFiniteSet(Users), IsFiniteSet(Externals)
  PROVE  Spec => CycleShortens
<1>. DEFINE Shorter == pc # "idle" => pc' = "idle" \/ CycleLeft' < CycleLeft \/ UNCHANGED cycle
<1>1. TypeOK /\ [Next]_vars => [Shorter]_vars
  BY TypeStep, CycleStep
<1>2. [][Shorter]_vars <=> CycleShortens
  BY DEF CycleShortens
<1>. HIDE DEF Shorter
<1>. QED
  BY <1>1, <1>2, LinkerTypeCorrect, PTL DEF Spec

\* Storing goes on only while a provider is left.
StoresSomething == pc \in {"store", "issues"} => toStore # {}

LEMMA StoresSomethingStep == StoresSomething /\ [Next]_vars => StoresSomething'
<1>. SUFFICES ASSUME StoresSomething, [Next]_vars PROVE StoresSomething'
  OBVIOUS
<1>1. CASE LinkPass
  BY <1>1 DEF LinkPass, EndCycle, StoresSomething
<1>2. ASSUME NEW p \in Providers, StoreIssues(p) PROVE StoresSomething'
  BY <1>2 DEF StoreIssues, EndCycle, StoresSomething
<1>3. ASSUME NEW p \in Providers, StoreOwners(p) PROVE StoresSomething'
  BY <1>3 DEF StoreOwners, StoresSomething
<1>4. CASE UNCHANGED <<pc, toStore>> \/ pc' \notin {"store", "issues"}
  BY <1>4 DEF StoresSomething
<1>5. \/ LinkPass
      \/ \E p \in Providers : StoreOwners(p) \/ StoreIssues(p)
      \/ UNCHANGED <<pc, toStore>> \/ pc' \notin {"store", "issues"}
  BY DEF Next, vars, cycle, World, DirectoryChanges, AccountChanges, Admin, AddManualUser,
         DeleteUser, LinkByHand, UnlinkByHand, OwnByHand, BeginCycle, Step, SyncIdentity, Observe,
         Store, StoreLink, StoreAborts, EndCycle
<1>. QED
  BY <1>1, <1>2, <1>3, <1>4, <1>5

\* No cycle stops half way: while it stores there is a provider in turn (link.go:
\* persist), with a link to store or to fail on, its owners, or its issues.
THEOREM CyclesAreNeverStuck == Spec => []CycleReady
<1>1. TypeOK /\ StoresSomething => CycleReady
  <2>. SUFFICES ASSUME TypeOK, StoresSomething, pc \in {"store", "issues"} PROVE CycleReady
    BY DEF CycleReady
  <2>1. toStore # {} /\ toStore \subseteq Providers /\ toStore \subseteq Nat
    BY SlotsAssumption DEF TypeOK, StoresSomething
  <2>2. PICK p \in toStore : \A q \in toStore : <<q, p>> \notin OpToRel(<, Nat)
    BY <2>1, NatLessThanWellFounded, WFMin
  <2>3. ASSUME NEW q \in toStore PROVE p <= q
    <3>1. p \in Nat /\ q \in Nat
      BY <2>1
    <3>2. ~(q < p)
      BY <2>2, <3>1 DEF OpToRel
    <3>. QED
      BY <3>1, <3>2
  <2>4. Storing(p) /\ p \in Providers
    BY <2>1, <2>3 DEF Storing
  <2>5. pass[p].new \subseteq Users \X Externals
    BY <2>4 DEF TypeOK, Works
  <2>6. pass[p].new = {} \/ \E u \in Users, e \in Externals : <<u, e>> \in pass[p].new
    BY <2>5
  <2>. QED
    BY <2>4, <2>6 DEF CycleReady
<1>2. Init => StoresSomething
  BY DEF Init, StoresSomething
<1>. QED
  BY <1>1, <1>2, StoresSomethingStep, LinkerTypeCorrect, PTL DEF Spec
=============================================================================

------------------------------- MODULE Linker -------------------------------
(***************************************************************************)
(* Who holds which account: the identity sync and the linking pass that    *)
(* open every cycle (internal/reconcile/identity.go, link.go), the tables  *)
(* they write (internal/store/identity.go, accounts.go), and the hand      *)
(* edits of the admin.  Edits in the UI take no gate, so they fall between *)
(* any two statements of a pass; edits on the command line hold the data   *)
(* directory, so they do not.                                              *)
(***************************************************************************)
EXTENDS Integers, FiniteSets

CONSTANTS
  Users,            \* people, by their row in users
  Manual,           \* those who exist in no directory
  Providers,        \* provider instances, numbered in the order they are linked
  Externals,        \* external ids, numbered in their order
  Keyed,            \* providers matched on a value the directory supplies
  PersonKeys,       \* the match values a person may have in her lifetime
  Faces,            \* the match value and subject an account may report
  Concurrent,       \* whether hand edits may fall inside a pass
  MaxDisturbances   \* bound on changes of directory and accounts, bad reads, edits

Slots  == Providers \X Externals
Pairs  == Users \X Providers
Nobody == -1
Absent == -1
Disturbed == -1
Blank  == 0       \* the empty match value, and the empty subject

ASSUME PeopleAssumption  == Users \subseteq Nat /\ Manual \subseteq Users
ASSUME SlotsAssumption   == /\ Providers \subseteq Nat /\ Externals \subseteq Nat
                            /\ IsFiniteSet(Providers)
ASSUME KeyedAssumption   == Keyed \subseteq Providers
ASSUME PersonAssumption  == PersonKeys \in [Users -> SUBSET Nat]
ASSUME FacesAssumption   == Faces \in [Slots -> SUBSET [key : Nat, subject : Nat]]
ASSUME OverlapAssumption == Concurrent \in BOOLEAN
ASSUME BoundAssumption   == MaxDisturbances \in Nat

VARIABLES
  directory,  \* the truth in the directory: a match value, or Absent
  real,       \* the truth on the providers
  user,       \* users: status and match value
  acct,       \* external_accounts: what was last observed, and the owner column
  link,       \* account_links
  issue,      \* link_issues
  hand,       \* a link made by hand whose owner column is still to be set
  pc,         \* where the cycle is
  failed,     \* providers whose read failed in this cycle
  pass,       \* what the pass worked out for each provider
  toStore,    \* providers whose outcome is still to be stored
  outcome,    \* how the last cycle ended
  after,      \* history: this cycle follows an undisturbed, complete one that
              \* matched nobody on a keyed provider by her subject
  mark,       \* history: disturbances left when this cycle began, or Disturbed
  joined,     \* history: the last pass matched somebody so
  left        \* disturbances left

world   == <<directory, real>>
tables  == <<user, acct, link, issue>>
cycle   == <<pc, failed, pass, toStore, outcome>>
history == <<after, mark, joined>>
vars    == <<world, tables, hand, cycle, history, left>>

NoLink    == [ext |-> Nobody, origin |-> "none"]
NoHand    == [user |-> Nobody, slot |-> <<Nobody, Nobody>>]
Vanished  == [state |-> "gone", key |-> Blank, subject |-> Blank]
NoAccount == [stored |-> FALSE, writable |-> FALSE, key |-> Blank, subject |-> Blank,
              owner |-> Nobody]
NoWork    == [new |-> {}, owner |-> [e \in Externals |-> Nobody], issues |-> {}]

Lives(s) == {Vanished} \cup
  {[state |-> state, key |-> face.key, subject |-> face.subject] :
     state \in {"enabled", "disabled"}, face \in Faces[s]}

Issue(kind, u, e) == [kind |-> kind, user |-> u, ext |-> e]
Issues == [kind : {"unlinked", "ambiguous", "dangling", "stale", "unmanaged"},
           user : Users \cup {Nobody}, ext : Externals \cup {Nobody}]
Works  == [new : SUBSET (Users \X Externals), owner : [Externals -> Users \cup {Nobody}],
           issues : SUBSET Issues]

TypeOK ==
  /\ directory \in [Users -> Nat \cup {Absent}]
  /\ real \in [Slots -> [state : {"enabled", "disabled", "gone"}, key : Nat, subject : Nat]]
  /\ user \in [Users -> [status : {"none", "active", "orphaned"}, key : Nat]]
  /\ acct \in [Slots -> [stored : BOOLEAN, writable : BOOLEAN, key : Nat, subject : Nat,
                         owner : Users \cup {Nobody}]]
  /\ link \in [Pairs -> {NoLink} \cup [ext : Externals, origin : {"matched", "manual"}]]
  /\ issue \in [Providers -> SUBSET Issues]
  /\ hand \in {NoHand} \cup [user : Users, slot : Slots]
  /\ pc \in {"idle", "sync", "observe", "link", "store", "issues"}
  /\ failed \subseteq Providers
  /\ pass \in [Providers -> Works]
  /\ toStore \subseteq Providers
  /\ outcome \in {"none", "complete", "aborted"}
  /\ after \in BOOLEAN
  /\ mark \in Nat \cup {Disturbed}
  /\ joined \in BOOLEAN
  /\ left \in Nat

Init ==
  /\ directory \in [Users -> UNION {PersonKeys[u] : u \in Users} \cup {Absent}]
  /\ \A u \in Users : directory[u] \in (IF u \in Manual THEN {Absent} ELSE PersonKeys[u])
  /\ real \in [Slots -> UNION {Lives(s) : s \in Slots}]
  /\ \A s \in Slots : real[s] \in Lives(s) /\ real[s].state # "disabled"
  /\ user = [u \in Users |-> [status |-> "none", key |-> Blank]]
  /\ acct = [s \in Slots |-> NoAccount]
  /\ link = [a \in Pairs |-> NoLink]
  /\ issue = [p \in Providers |-> {}]
  /\ hand = NoHand
  /\ pc = "idle" /\ failed = {}
  /\ pass = [p \in Providers |-> NoWork] /\ toStore = {}
  /\ outcome = "none" /\ after = FALSE /\ mark = MaxDisturbances
  /\ joined = FALSE
  /\ left = MaxDisturbances

Disturb == left > 0 /\ left' = left - 1

(***************************************************************************)
(* The world outside.                                                      *)
(***************************************************************************)
DirectoryChanges(u, key) ==
  /\ Disturb
  /\ u \notin Manual /\ directory[u] # key
  /\ directory' = [directory EXCEPT ![u] = key]
  /\ UNCHANGED <<real, tables, hand, cycle, history>>

AccountChanges(s, life) ==
  /\ Disturb
  /\ real[s] # life
  /\ real' = [real EXCEPT ![s] = life]
  /\ UNCHANGED <<directory, tables, hand, cycle, history>>

World ==
  \/ \E u \in Users : \E key \in PersonKeys[u] \cup {Absent} : DirectoryChanges(u, key)
  \/ \E s \in Slots : \E life \in Lives(s) : AccountChanges(s, life)

(***************************************************************************)
(* The admin.  People are added and removed on the command line, which     *)
(* never overlaps a cycle.  Links are made and removed in the UI too.      *)
(***************************************************************************)
MayEdit == Disturb /\ (pc = "idle" \/ Concurrent)

AddManualUser(u, key) ==
  /\ Disturb /\ pc = "idle" /\ hand = NoHand
  /\ u \in Manual /\ user[u].status = "none"
  /\ user' = [user EXCEPT ![u] = [status |-> "active", key |-> key]]
  /\ UNCHANGED <<world, acct, link, issue, hand, cycle, history>>

\* Links and issues go with the person, accounts lose their owner.
DeleteUser(u) ==
  /\ Disturb /\ pc = "idle" /\ hand = NoHand
  /\ user[u].status # "none"
  /\ user' = [user EXCEPT ![u] = [status |-> "none", key |-> Blank]]
  /\ acct' = [s \in Slots |-> [acct[s] EXCEPT !.owner = IF @ = u THEN Nobody ELSE @]]
  /\ link' = [a \in Pairs |-> IF a[1] = u THEN NoLink ELSE link[a]]
  /\ issue' = [p \in Providers |-> {i \in issue[p] : i.user # u}]
  /\ UNCHANGED <<world, hand, cycle, history>>

\* Mutant: a conflicting link is stored all the same.
ConflictsNever(u, p, e) == FALSE

\* account_links is unique on (provider, external id).
Conflicts(u, p, e) == \E v \in Users \ {u} : link[<<v, p>>].ext = e

UpsertLink(u, p, e, origin) ==
  /\ ~Conflicts(u, p, e)
  /\ link' = [link EXCEPT ![<<u, p>>] = [ext |-> e, origin |-> origin]]

LinkByHand(u, p, e) ==
  /\ MayEdit /\ hand = NoHand
  /\ user[u].status # "none"
  /\ acct[<<p, e>>].stored /\ acct[<<p, e>>].writable
  /\ UpsertLink(u, p, e, "manual")
  /\ hand' = [user |-> u, slot |-> <<p, e>>]
  /\ UNCHANGED <<world, user, acct, issue, cycle, history>>

\* The second statement of the same request.
OwnByHand ==
  /\ hand # NoHand
  /\ acct' = [acct EXCEPT ![hand.slot].owner = IF acct[hand.slot].stored THEN hand.user ELSE @]
  /\ hand' = NoHand
  /\ UNCHANGED <<world, user, link, issue, cycle, history, left>>

UnlinkByHand(u, p) ==
  /\ MayEdit /\ hand = NoHand
  /\ link[<<u, p>>] # NoLink
  /\ link' = [link EXCEPT ![<<u, p>>] = NoLink]
  /\ UNCHANGED <<world, user, acct, issue, hand, cycle, history>>

Admin ==
  \/ \E u \in Manual : \E key \in PersonKeys[u] : AddManualUser(u, key)
  \/ \E u \in Users : DeleteUser(u)
  \/ \E u \in Users, p \in Providers :
       \/ \E e \in Externals : LinkByHand(u, p, e)
       \/ UnlinkByHand(u, p)
  \/ OwnByHand

(***************************************************************************)
(* The cycle: sync people, observe accounts, link.                         *)
(***************************************************************************)
BeginCycle ==
  /\ pc = "idle" /\ (hand = NoHand \/ Concurrent)
  /\ pc' = "sync" /\ failed' = {}
  /\ after' = (outcome = "complete" /\ mark = left /\ ~joined)
  /\ mark' = IF hand = NoHand THEN left ELSE Disturbed
  /\ UNCHANGED <<world, tables, hand, pass, toStore, outcome, joined, left>>

Listed == {u \in Users : directory[u] # Absent}
Active == {u \in Users : user[u].status = "active"}

\* ReplaceIdentity.  People the answer leaves out are orphaned, never deleted.
Synced(answer) ==
  [u \in Users |->
     IF u \in answer THEN [status |-> "active", key |-> directory[u]]
     ELSE IF u \notin Manual /\ user[u].status = "active"
     THEN [user[u] EXCEPT !.status = "orphaned"]
     ELSE user[u]]

\* Mutant: an empty answer is taken at its word.
EmptyAnswerAccepted(answer) == FALSE

EmptyAnswerRefused(answer) == answer = {} /\ Active # {}

\* The directory answers with all, some or none of the people it lists.  An
\* answer with nobody in it is refused when somebody is known, and the cycle
\* goes on with what is known, as it does when the directory cannot be read.
SyncIdentity(answer) ==
  /\ pc = "sync"
  /\ user' = IF EmptyAnswerRefused(answer) THEN user ELSE Synced(answer)
  /\ pc' = "observe"
  /\ IF answer = Listed THEN left' = left ELSE Disturb
  /\ UNCHANGED <<world, acct, link, issue, hand, failed, pass, toStore, outcome, history>>

\* Mutant: a re-read replaces the row, owner column and all.
ObservedAnew(s) ==
  IF real[s].state = "gone" THEN NoAccount
  ELSE [stored |-> TRUE, writable |-> real[s].state = "enabled", key |-> real[s].key,
        subject |-> real[s].subject, owner |-> Nobody]

\* The owner column survives a re-read and dies with the row.
Observed(s) ==
  IF real[s].state = "gone" THEN NoAccount
  ELSE [stored |-> TRUE, writable |-> real[s].state = "enabled", key |-> real[s].key,
        subject |-> real[s].subject, owner |-> acct[s].owner]

Observe(failures) ==
  /\ pc = "observe"
  /\ acct' = [s \in Slots |-> IF s[1] \in failures THEN acct[s] ELSE Observed(s)]
  /\ failed' = failures
  /\ pc' = "link"
  /\ IF failures = {} THEN left' = left ELSE Disturb
  /\ UNCHANGED <<world, user, link, issue, hand, pass, toStore, outcome, history>>

(***************************************************************************)
(* The linking pass, worked out from one reading of the tables.            *)
(***************************************************************************)
Usable(p, e) == acct[<<p, e>>].stored /\ acct[<<p, e>>].writable
HasLink(u, p) == link[<<u, p>>] # NoLink
Account(u, p) == link[<<u, p>>].ext

\* revalidate: what is wrong with the links there are.
Dangling(u, p) == u \in Active /\ HasLink(u, p) /\ ~Usable(p, Account(u, p))

Stale(u, p) ==
  /\ u \in Active /\ HasLink(u, p) /\ Usable(p, Account(u, p))
  /\ link[<<u, p>>].origin = "matched" /\ p \in Keyed
  /\ user[u].key # Blank /\ user[u].key # acct[<<p, Account(u, p)>>].key

Holds(u, p) ==
  u \in Active /\ HasLink(u, p) /\ ~Dangling(u, p) /\ ~Stale(u, p)

\* Mutant: a person whose link no longer holds is a candidate again.
CandidatesAgain(p, key) ==
  IF p \in Keyed /\ key # Blank
  THEN {u \in Active : ~Holds(u, p) /\ user[u].key = key} ELSE {}

\* matchDirect: exactly one candidate on each side, or no link.
Candidates(p, key) ==
  IF p \in Keyed /\ key # Blank
  THEN {u \in Active : ~HasLink(u, p) /\ user[u].key = key} ELSE {}

\* Mutant: an account somebody holds is still up for matching.
FreeOrHeld(p, key) ==
  {e \in Externals : Usable(p, e) /\ acct[<<p, e>>].key = key}

Free(p, key) ==
  {e \in Externals : /\ Usable(p, e) /\ acct[<<p, e>>].key = key
                     /\ \A u \in Users : Holds(u, p) => Account(u, p) # e}

\* Mutant: the first account with the right match value is good enough.
DirectAnyAccount(p) ==
  {a \in Active \X Externals :
     /\ Candidates(p, user[a[1]].key) = {a[1]}
     /\ a[2] \in Free(p, user[a[1]].key)
     /\ \A e \in Free(p, user[a[1]].key) : a[2] <= e}

Direct(p) ==
  {a \in Active \X Externals :
     /\ Candidates(p, user[a[1]].key) = {a[1]}
     /\ Free(p, user[a[1]].key) = {a[2]}}

Crowded(p) ==
  {u \in Active :
     /\ u \in Candidates(p, user[u].key) /\ Free(p, user[u].key) # {}
     /\ \A e \in Externals : <<u, e>> \notin Direct(p)}

Owned(p) == {a \in Users \X Externals : Holds(a[1], p) /\ Account(a[1], p) = a[2]} \cup Direct(p)

\* matchBySubject: an account nobody holds goes to the one person who holds an
\* account with the same subject elsewhere.  Accounts are tried in order.
Claimants(subject) ==
  {u \in Users : \E p \in Providers \ failed, e \in Externals :
     <<u, e>> \in Owned(p) /\ acct[<<p, e>>].subject = subject}

Joinable(p) ==
  {a \in Users \X Externals :
     /\ Usable(p, a[2]) /\ acct[<<p, a[2]>>].subject # Blank
     /\ \A u \in Users : <<u, a[2]>> \notin Owned(p)
     /\ Claimants(acct[<<p, a[2]>>].subject) = {a[1]}}

Joined(p) ==
  {a \in Joinable(p) :
     /\ ~HasLink(a[1], p) /\ \A e \in Externals : <<a[1], e>> \notin Direct(p)
     /\ \A e \in Externals : <<a[1], e>> \in Joinable(p) => a[2] <= e}

\* collectIssues.
IssuesFound(p) ==
  LET new == Direct(p) \cup Joined(p)
      crowded == Crowded(p) \cup {a[1] : a \in Joinable(p) \ Joined(p)}
  IN   {Issue("dangling", u, Account(u, p)) : u \in {v \in Users : Dangling(v, p)}}
  \cup {Issue("stale", u, Account(u, p)) : u \in {v \in Users : Stale(v, p)}}
  \cup {Issue("ambiguous", u, Nobody) : u \in Crowded(p)}
  \cup {Issue("ambiguous", a[1], a[2]) : a \in Joinable(p) \ Joined(p)}
  \cup {Issue("unlinked", u, Nobody) :
          u \in {v \in Active : /\ ~HasLink(v, p) /\ v \notin crowded
                                /\ \A e \in Externals : <<v, e>> \notin new}}
  \cup {Issue("unmanaged", Nobody, e) :
          e \in {f \in Externals : /\ Usable(p, f)
                                   /\ \A u \in Users : <<u, f>> \notin Owned(p) \cup Joined(p)}}

\* Mutant: accounts reached through their subject get no owner.
WorkUnjoined(p) ==
  [new    |-> Direct(p) \cup Joined(p),
   owner  |-> [e \in Externals |->
                 LET holders == {u \in Users : <<u, e>> \in Owned(p)}
                 IN IF holders = {} THEN Nobody ELSE CHOOSE u \in holders : TRUE],
   issues |-> IssuesFound(p)]

Work(p) ==
  [new    |-> Direct(p) \cup Joined(p),
   owner  |-> [e \in Externals |->
                 LET holders == {u \in Users : <<u, e>> \in Owned(p) \cup Joined(p)}
                 IN IF holders = {} THEN Nobody ELSE CHOOSE u \in holders : TRUE],
   issues |-> IssuesFound(p)]

EndCycle(how) == pc' = "idle" /\ outcome' = how

\* A provider whose read failed is skipped whole.
LinkPass ==
  /\ pc = "link"
  /\ pass' = [p \in Providers |-> IF p \in failed THEN NoWork ELSE Work(p)]
  /\ toStore' = Providers \ failed
  /\ IF toStore' = {} THEN EndCycle("complete") ELSE pc' = "store" /\ outcome' = outcome
  /\ joined' = \E p \in Keyed \ failed : Joined(p) # {}
  /\ UNCHANGED <<world, tables, hand, failed, after, mark, left>>

(***************************************************************************)
(* persist, one provider at a time and one statement at a time.  New links *)
(* are stored in an order that maps make arbitrary, and one that conflicts *)
(* with another person's link fails the whole pass.                        *)
(***************************************************************************)
Storing(p) == p \in toStore /\ \A q \in toStore : p <= q

StoreLink(p, u, e) ==
  /\ pc = "store" /\ Storing(p) /\ <<u, e>> \in pass[p].new
  /\ UpsertLink(u, p, e, "matched")
  /\ pass' = [pass EXCEPT ![p].new = @ \ {<<u, e>>}]
  /\ UNCHANGED <<world, user, acct, issue, hand, pc, failed, toStore, outcome, history, left>>

StoreAborts(p, u, e) ==
  /\ pc = "store" /\ Storing(p) /\ <<u, e>> \in pass[p].new
  /\ Conflicts(u, p, e)
  /\ EndCycle("aborted")
  /\ UNCHANGED <<world, tables, hand, failed, pass, toStore, history, left>>

OwnersStored(p) ==
  [s \in Slots |-> IF s[1] = p /\ acct[s].stored
                   THEN [acct[s] EXCEPT !.owner = pass[p].owner[s[2]]] ELSE acct[s]]

StoreOwners(p) ==
  /\ pc = "store" /\ Storing(p) /\ pass[p].new = {}
  /\ acct' = OwnersStored(p)
  /\ pc' = "issues"
  /\ UNCHANGED <<world, user, link, issue, hand, failed, pass, toStore, outcome, history, left>>

StoreIssues(p) ==
  /\ pc = "issues" /\ Storing(p)
  /\ issue' = [issue EXCEPT ![p] = pass[p].issues]
  /\ toStore' = toStore \ {p}
  /\ IF toStore' = {} THEN EndCycle("complete") ELSE pc' = "store" /\ outcome' = outcome
  /\ UNCHANGED <<world, user, acct, link, hand, failed, pass, history, left>>

Store ==
  \E p \in Providers :
    \/ \E u \in Users, e \in Externals : StoreLink(p, u, e) \/ StoreAborts(p, u, e)
    \/ StoreOwners(p)
    \/ StoreIssues(p)

Step ==
  \/ \E answer \in SUBSET Listed : SyncIdentity(answer)
  \/ \E failures \in SUBSET Providers : Observe(failures)
  \/ LinkPass
  \/ Store

Next == World \/ Admin \/ BeginCycle \/ Step

Spec == Init /\ [][Next]_vars

\* The timers keep opening cycles, a cycle that holds the gate runs, and a
\* request of the UI runs to its end.
FairSpec == Spec /\ WF_vars(BeginCycle) /\ WF_vars(Step) /\ WF_vars(OwnByHand)

(***************************************************************************)
(* Properties                                                              *)
(***************************************************************************)
\* Two people are never linked to one account, whatever the pass works out and
\* whoever edits links meanwhile: their policies would both write to it.
OnePersonPerAccount ==
  \A u, v \in Users, p \in Providers :
    u # v /\ HasLink(u, p) => Account(u, p) # Account(v, p)

\* No cycle takes a link away or points it elsewhere: what is linked stays so
\* until somebody edits it, however keys, accounts and people come and go.
\* Edits on the command line cannot overlap a cycle, so for them this holds.
NeverRetargets ==
  [][\A a \in Pairs : pc # "idle" /\ link[a] # NoLink => link'[a] = link[a]]_vars

\* The person holds an account with the same subject elsewhere, or is about to.
Reached(u, p, e) ==
  /\ acct[<<p, e>>].subject # Blank
  /\ \E q \in Providers \ {p}, f \in Externals :
       /\ Account(u, q) = f \/ <<u, f>> \in pass[q].new
       /\ acct[<<q, f>>].subject = acct[<<p, e>>].subject

\* A link made by a match is one nothing else competed for when it was stored:
\* the match values agree, no other active person without an account here has
\* that value, and no other free account of the provider has it, unless the
\* account was reached through its subject.
NeverGuesses ==
  [][\A u \in Users, p \in Providers, e \in Externals :
       /\ pc = "store" /\ link[<<u, p>>] = NoLink
       /\ link'[<<u, p>>] = [ext |-> e, origin |-> "matched"]
       /\ ~Reached(u, p, e)
       => /\ p \in Keyed /\ user[u].key # Blank /\ acct[<<p, e>>].key = user[u].key
          /\ \A v \in Active \ {u} : user[v].key # user[u].key \/ HasLink(v, p)
          /\ \A f \in Externals \ {e} :
               /\ Usable(p, f) /\ acct[<<p, f>>].key = user[u].key
               => \E v \in Users : Account(v, p) = f]_vars

\* When an undisturbed cycle ends, the owner column of every account that was
\* read says who holds it: the person linked to it, provided she is active, the
\* account is enabled and a matched link still matches; and nobody else, except
\* the person whom its subject gave it to in this very cycle.
Undisturbed == mark = left /\ left' = left

SharesSubject(u, p, e) ==
  \E q \in Providers \ {p} :
    Holds(u, q) /\ acct[<<q, Account(u, q)>>].subject = acct[<<p, e>>].subject

OwnersAgree ==
  [][pc # "idle" /\ pc' = "idle" /\ outcome' = "complete" /\ Undisturbed =>
       \A p \in Providers \ failed, e \in Externals, u \in Users :
         /\ acct[<<p, e>>].stored /\ Holds(u, p)' /\ Account(u, p)' = e =>
              acct'[<<p, e>>].owner = u
         /\ acct'[<<p, e>>].owner = u =>
              Account(u, p)' = e /\ (Holds(u, p) \/ SharesSubject(u, p, e))']_vars

\* A second cycle over an unchanged world finds what the first one left: it
\* makes no link, moves no owner and reports the same issues.  The one first
\* cycle it does not speak of is one that matched somebody by her subject on a
\* provider that is matched by a key as well: the next may find the link stale,
\* or one of two rivals for a key gone.
CyclesSettle ==
  [][pc # "idle" /\ after /\ Undisturbed => UNCHANGED <<link, acct, issue>>]_vars

\* No answer of the directory leaves a household that had somebody active with
\* nobody: an empty one is refused whole.  A partial answer may orphan whom it
\* leaves out, as the code lets it, and people added by hand always stay.
SomebodyStays ==
  [][pc = "sync" /\ Active # {} => \E u \in Users : user'[u].status = "active"]_vars

\* Once nothing disturbs it any more, every cycle completes, and nobody with
\* exactly one account to match waits for a link.
EverybodyLinked ==
  <>[](pc = "idle" => outcome = "complete" /\ \A p \in Providers : Direct(p) = {})
=============================================================================

----------------------------- MODULE Subscriptions -----------------------------
(***************************************************************************)
(* The change-notification subscriptions the index keeps at Graph, one per *)
(* list that is synced (src/core/index/index-core.ts                       *)
(* reconcileSubscriptions, renewSubscriptions, #diffGraphSubscriptions,    *)
(* onLifecycleEvent, recreateSubscriptions, resetIdentity; src/core/       *)
(* subscriptions/manager.ts).                                              *)
(*                                                                         *)
(* The calm part of a sync cycle reconciles, then renews, one request at a *)
(* time; the webhook, the tools and the sign-in change the same table      *)
(* while a request is on its way.  A request and what Graph does with it   *)
(* is one step, the code that runs on its answer another.  The client      *)
(* state is as good as the id, which is not modelled apart from it; a      *)
(* subscription that is about to run out is "due".                         *)
(***************************************************************************)
EXTENDS Integers

CONSTANTS
    Lists,     \* list ids, in the order of the roster
    Ids,       \* bound: subscription ids; one nobody knows is given again
    None,      \* JavaScript's null
    Refused,   \* lists that Graph accepts no subscription for
    Budget,    \* MAX_SUBSCRIPTION_OPS_PER_CYCLE
    MaxFaults, \* bound: requests that fail, evictions, restarts, resets
    MaxWorld   \* bound: lists that come or go, subscriptions that become due,
               \* reauthorizations, calls of recreate_subscriptions

ASSUME SubscriptionsAssumption ==
    /\ Lists \subseteq Nat
    /\ None \notin Lists \cup Ids
    /\ Refused \subseteq Lists
    /\ Budget \in Nat \ {0}
    /\ MaxFaults \in Nat /\ MaxWorld \in Nat

VARIABLES
    subs,    \* Graph: the list each of our subscriptions watches
    records, \* the subscriptions table: the list of each record
    due,     \* records whose expiration is within the margin
    wanted,  \* the roster without the lists the sync policy skips
    enabled, \* ENABLE_TASK_SUBSCRIPTIONS
    cycle,   \* reconcileSubscriptions and renewSubscriptions in progress
    hook,    \* the reauthorization an onLifecycleEvent has under way
    old,     \* subscriptions that recreateSubscriptions has given up
    counts   \* how much of each bound is used up

store == <<records, due>>
env   == <<wanted, enabled>>
vars  == <<subs, records, due, wanted, enabled, cycle, hook, old, counts>>

NoOp == [kind |-> "none", id |-> None, list |-> None, answer |-> "none"]
Idle == [pc |-> "idle", seen |-> {}, alive |-> {}, wanted |-> {}, todo |-> {},
         lack |-> {}, left |-> 0, op |-> NoOp]
Bounds == [faults |-> MaxFaults, world |-> MaxWorld]
Answers == {"ok", "gone", "failed"}
Ops == {NoOp}
       \cup [kind : {"delete", "renew"}, id : Ids, list : Lists \cup {None},
             answer : Answers]
       \cup [kind : {"create"}, id : Ids, list : Lists, answer : {"ok"}]
       \cup [kind : {"create"}, id : {None}, list : Lists, answer : {"failed"}]
Cycle == [pc : {"idle", "closing", "config", "listing", "compare", "orphans",
                "reread", "deletes", "creates", "renew"},
          seen : SUBSET Ids, alive : SUBSET Ids, wanted : SUBSET Lists,
          todo : SUBSET Ids, lack : SUBSET Lists, left : 0..Budget, op : Ops]

TypeOK ==
    /\ subs \in [Ids -> Lists \cup {None}]
    /\ records \in [Ids -> Lists \cup {None}]
    /\ due \subseteq {i \in Ids : records[i] # None}
    /\ wanted \subseteq Lists /\ enabled \in BOOLEAN
    /\ cycle \in Cycle /\ hook \in Ops
    /\ old \subseteq {i \in Ids : subs[i] # None}
    /\ counts \in [DOMAIN Bounds -> Nat]
    /\ \A b \in DOMAIN Bounds : counts[b] <= Bounds[b]

Init ==
    /\ subs = [i \in Ids |-> None]
    /\ records = [i \in Ids |-> None] /\ due = {}
    /\ wanted \in SUBSET Lists /\ enabled = TRUE
    /\ cycle = Idle /\ hook = NoOp
    /\ old = {}
    /\ counts = [b \in DOMAIN Bounds |-> 0]

Use(b) == counts[b] < Bounds[b] /\ counts' = [counts EXCEPT ![b] = @ + 1]

Alive   == {i \in Ids : subs[i] # None}
Tracked == {i \in Ids : records[i] # None}

-----------------------------------------------------------------------------
(* Graph, the roster and the operator (external).                           *)

\* Graph forgets the subscriptions in s.
Forgotten(s) ==
    /\ subs' = [i \in Ids |-> IF i \in s THEN None ELSE subs[i]]
    /\ old' = old \ s

\* A subscription runs out, or is evicted.
Evict(i) ==
    /\ i \in Alive /\ Use("faults") /\ Forgotten({i})
    /\ UNCHANGED <<store, env, cycle, hook>>

\* A list comes or goes, or the policy for it changes.
WantedChanges(l) ==
    /\ Use("world")
    /\ wanted' = IF l \in wanted THEN wanted \ {l} ELSE wanted \cup {l}
    /\ UNCHANGED <<subs, store, enabled, cycle, hook, old>>

\* The expiration of a record comes within the margin.
BecomeDue(i) ==
    /\ i \in Tracked \ due /\ Use("world") /\ due' = due \cup {i}
    /\ UNCHANGED <<subs, records, env, cycle, hook, old>>

\* The process restarts, perhaps with the feature switched.
Restart ==
    /\ Use("faults")
    /\ cycle' = Idle /\ hook' = NoOp
    /\ enabled' \in BOOLEAN
    /\ UNCHANGED <<subs, store, wanted, old>>

-----------------------------------------------------------------------------
(* The requests, and what Graph does with each.  One that fails may have    *)
(* been carried out all the same.                                           *)

Request(kind, i, l, answer) ==
    [kind |-> kind, id |-> i, list |-> l, answer |-> answer]

Unserved == UNCHANGED <<subs, old>>

\* DELETE of subscription i.
AskDelete(i, answer) ==
    \/ answer = "ok" /\ i \in Alive /\ Forgotten({i}) /\ UNCHANGED counts
    \/ answer = "gone" /\ i \notin Alive /\ Unserved /\ UNCHANGED counts
    \/ answer = "failed" /\ Use("faults") /\ (Forgotten({i}) \/ Unserved)

\* The id of the next subscription: none the index may still come across.
Unknown == Ids \ (Alive \cup Tracked \cup cycle.seen \cup cycle.alive
                      \cup cycle.todo \cup {cycle.op.id, hook.id})
NewId   == CHOOSE i \in Unknown : TRUE

Created(l) == /\ l \notin Refused /\ Unknown # {}
              /\ subs' = [subs EXCEPT ![NewId] = l] /\ UNCHANGED old

\* POST of a subscription for list l.
AskCreate(l, answer) ==
    \/ answer = "ok" /\ Created(l) /\ UNCHANGED counts
    \/ answer = "failed" /\ l \in Refused /\ Unserved /\ UNCHANGED counts
    \/ answer = "failed" /\ Use("faults") /\ (Created(l) \/ Unserved)

\* PATCH of subscription i.
AskRenew(i, answer) ==
    /\ Unserved
    /\ \/ answer = "ok" /\ i \in Alive
       \/ answer = "gone" /\ i \notin Alive
       \/ answer = "failed"

-----------------------------------------------------------------------------
(* The table.                                                               *)

Drop(s) ==
    /\ records' = [i \in Ids |-> IF i \in s THEN None ELSE records[i]]
    /\ due' = due \ s

\* Mutant of PutRenewed: the answer's expiration is not stored.
PutRenewedAsRead(op) ==
    /\ records' = [records EXCEPT ![op.id] = op.list]
    /\ UNCHANGED due

\* putSubscription after a renewal: the record it was read from, as of now.
PutRenewed(op) ==
    /\ records' = [records EXCEPT ![op.id] = op.list]
    /\ due' = due \ {op.id}

\* What the code does with an answer; other errors leave the record.
Apply(op) ==
    CASE op.kind = "delete" /\ op.answer # "failed" -> Drop({op.id})
      [] op.kind = "create" /\ op.answer = "ok"
            -> records' = [records EXCEPT ![op.id] = op.list] /\ UNCHANGED due
      [] op.kind = "renew" /\ op.answer = "ok" -> PutRenewed(op)
      [] op.kind = "renew" /\ op.answer = "gone" -> Drop({op.id})
      [] OTHER -> UNCHANGED store

-----------------------------------------------------------------------------
(* The cycle: reconcileSubscriptions, then renewSubscriptions.              *)

\* Start with what is recorded; without the feature, close all of it.
Begin ==
    /\ cycle.pc = "idle"
    /\ cycle' = IF enabled
                THEN [Idle EXCEPT !.pc = "config", !.seen = Tracked]
                ELSE [Idle EXCEPT !.pc = "closing", !.todo = Tracked,
                                  !.left = Budget]
    /\ UNCHANGED <<subs, store, env, hook, old, counts>>

\* loadListsConfig has answered: what should be subscribed.
Plan ==
    /\ cycle.pc = "config"
    /\ cycle' = [cycle EXCEPT !.pc = "listing", !.wanted = wanted,
                              !.left = Budget]
    /\ UNCHANGED <<subs, store, env, hook, old, counts>>

\* Graph lists our subscriptions, or fails to and is not compared with.
List ==
    /\ cycle.pc = "listing"
    /\ \/ cycle' = [cycle EXCEPT !.pc = "compare", !.alive = Alive]
          /\ UNCHANGED counts
       \/ cycle' = [cycle EXCEPT !.pc = "reread"] /\ Use("faults")
    /\ UNCHANGED <<subs, store, env, hook, old>>

\* Mutant of Orphans: what there is no record of is left alone.
OrphansTracked == {i \in cycle.alive \cap Tracked : records[i] \notin cycle.wanted}

\* #diffGraphSubscriptions: ours, but without a record or for a list that is
\* not wanted.
Orphans == {i \in cycle.alive : records[i] \notin cycle.wanted}

\* Records read at the start whose subscription Graph does not list.
Dead == cycle.seen \ cycle.alive

\* Dead records go, and the orphans are taken down first.
Compare ==
    /\ cycle.pc = "compare"
    /\ Drop(Dead)
    /\ cycle' = [cycle EXCEPT !.pc = "orphans", !.todo = Orphans]
    /\ UNCHANGED <<subs, env, hook, old, counts>>

\* Mutant of Reread: a list Graph did not report is taken to be without one.
RereadByGraph ==
    /\ cycle.pc = "reread"
    /\ cycle' = [cycle EXCEPT
          !.pc = "deletes",
          !.todo = {i \in Tracked : records[i] \notin cycle.wanted},
          !.lack = cycle.wanted \ {records[i] : i \in Tracked \cap cycle.alive}]
    /\ UNCHANGED <<subs, store, env, hook, old, counts>>

\* The table is read again: what is recorded but not wanted, and what is
\* wanted but not recorded.
Reread ==
    /\ cycle.pc = "reread"
    /\ cycle' = [cycle EXCEPT
          !.pc = "deletes",
          !.todo = {i \in Tracked : records[i] \notin cycle.wanted},
          !.lack = cycle.wanted \ {records[i] : i \in Tracked}]
    /\ UNCHANGED <<subs, store, env, hook, old, counts>>

Ready == cycle.op = NoOp /\ cycle.left > 0

\* One more subscription is deleted, or renewed.
SendForId ==
    /\ Ready
    /\ cycle.pc \in {"closing", "orphans", "deletes", "renew"}
    /\ \E i \in cycle.todo, answer \in Answers :
        /\ IF cycle.pc = "renew"
           THEN /\ AskRenew(i, answer)
                /\ IF answer = "failed" THEN Use("faults") ELSE UNCHANGED counts
           ELSE AskDelete(i, answer)
        /\ cycle' = [cycle EXCEPT !.todo = @ \ {i}, !.left = @ - 1,
                          !.op = Request(IF cycle.pc = "renew" THEN "renew"
                                         ELSE "delete", i, subs[i], answer)]
    /\ UNCHANGED <<store, env, hook>>

\* One more is created, in the order of the roster.
SendForList ==
    /\ Ready
    /\ cycle.pc = "creates"
    /\ \E l \in cycle.lack, answer \in Answers :
        /\ \A m \in cycle.lack : l <= m
        /\ AskCreate(l, answer)
        /\ cycle' = [cycle EXCEPT
              !.lack = @ \ {l}, !.left = @ - 1,
              !.op = Request("create", IF answer = "ok" THEN NewId ELSE None,
                             l, answer)]
    /\ UNCHANGED <<store, env, hook>>

\* The answer arrives.
Receive ==
    /\ cycle.op # NoOp
    /\ Apply(cycle.op)
    /\ cycle' = [cycle EXCEPT !.op = NoOp]
    /\ UNCHANGED <<subs, env, hook, old, counts>>

\* What follows a phase with nothing to do, or with the budget spent: then
\* reconcile returns.
Following ==
    CASE cycle.pc = "orphans" /\ cycle.left > 0 -> [cycle EXCEPT !.pc = "reread"]
      [] cycle.pc = "deletes" /\ cycle.left > 0 -> [cycle EXCEPT !.pc = "creates"]
      [] cycle.pc \in {"closing", "renew"} -> Idle
      [] OTHER -> [Idle EXCEPT !.pc = "renew", !.todo = due, !.left = Budget]

NextPhase ==
    /\ cycle.op = NoOp
    /\ cycle.pc \in {"closing", "orphans", "deletes", "creates", "renew"}
    /\ \/ cycle.left = 0
       \/ cycle.pc = "creates" /\ cycle.lack = {}
       \/ cycle.pc # "creates" /\ cycle.todo = {}
    /\ cycle' = Following
    /\ UNCHANGED <<subs, store, env, hook, old, counts>>

-----------------------------------------------------------------------------
(* The others.                                                              *)

\* onLifecycleEvent, reauthorizationRequired: the PATCH is on its way.
Reauthorize(i) ==
    /\ hook = NoOp /\ i \in Tracked /\ Use("world")
    /\ \E answer \in Answers :
          AskRenew(i, answer) /\ hook' = Request("renew", i, records[i], answer)
    /\ UNCHANGED <<store, env, cycle>>

\* ... and its answer arrives.
Reauthorized ==
    /\ hook # NoOp
    /\ Apply(hook)
    /\ hook' = NoOp
    /\ UNCHANGED <<subs, env, cycle, old, counts>>

\* onLifecycleEvent, subscriptionRemoved.
Removed(i) ==
    /\ i \in Tracked \ Alive
    /\ Drop({i})
    /\ UNCHANGED <<subs, env, cycle, hook, old, counts>>

\* recreateSubscriptions, for some lists or all, whatever is on its way.
Recreate ==
    /\ Use("world")
    /\ \E s \in SUBSET Lists :
        LET cleared == {i \in Tracked : records[i] \in s}
        IN  /\ Drop(cleared)
            /\ old' = old \cup (cleared \cap Alive)
    /\ UNCHANGED <<subs, env, cycle, hook>>

\* resetIdentity: what the teardown reaches is deleted, the rest lapses out of
\* the new account's sight; the table is emptied with the roster.
Reset ==
    /\ Use("faults")
    /\ Forgotten(Ids) /\ Drop(Ids)
    /\ wanted' = {}
    /\ UNCHANGED <<enabled, cycle, hook>>

-----------------------------------------------------------------------------
InCycle == \/ Begin \/ Plan \/ List \/ Compare \/ Reread
           \/ SendForId \/ SendForList \/ Receive \/ NextPhase

Next == \/ InCycle \/ Reauthorized \/ Recreate \/ Reset \/ Restart
        \/ \E i \in Ids : Evict(i) \/ BecomeDue(i) \/ Reauthorize(i) \/ Removed(i)
        \/ \E l \in Lists : WantedChanges(l)

Spec == Init /\ [][Next]_vars

\* Calm cycles come round (SyncCycle), and requests are answered.
FairSpec == Spec /\ WF_vars(InCycle) /\ WF_vars(Reauthorized)

-----------------------------------------------------------------------------
(* Properties.                                                              *)

\* Each list has at most one subscription whose notifications are accepted:
\* "one per list" (README.md:121), whatever is retried, lost or recreated.  One
\* that recreate_subscriptions has given up is not counted: RecreateIsFinal.
OnePerList ==
    \A i, j \in (Alive \cap Tracked) \ old : records[i] = records[j] => i = j

\* A subscription that recreate_subscriptions has given up is not taken up
\* again: "the next reconcile cycle then tears down the now-untracked old Graph
\* subs as orphans" (index-core.ts:1670-1674).  It does not hold: the answer to
\* a renewal puts the record back (1078, 1631).
RecreateIsFinal == old \cap Tracked = {}

\* Whatever was lost, evicted or left behind: in the end Graph holds one
\* subscription for each list that can have one and nothing else, each with its
\* record (besides what a renewal took up again that recreate_subscriptions had
\* given up); none is recorded when the feature is off.
Settles ==
    <>[](IF enabled
         THEN /\ {records[i] : i \in Tracked} = wanted \ Refused
              /\ \A i \in Ids : records[i] = subs[i]
              /\ OnePerList
         ELSE Tracked = {})

\* Expirations are seen to, whichever of the records the budget reaches first:
\* a record does not stay due.
Renewed == \A i \in Ids : (i \in due) ~> (i \notin due)
=============================================================================

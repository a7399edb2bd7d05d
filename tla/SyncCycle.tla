------------------------------- MODULE SyncCycle -------------------------------
(***************************************************************************)
(* The sync loop of the index: what arms the alarm, and how one cycle      *)
(* spends its page budget over the lists of the roster                     *)
(* (src/core/index/index-core.ts alarm, runSyncCycle, #listIdsByPriority,  *)
(* ensureSyncing, resync, #purgeResource, deleteList).                     *)
(*                                                                         *)
(* A list is abstracted to how far its delta has come: the pages its round *)
(* still needs, whether it has a link, and its place in the order of       *)
(* last_synced_at.  One call of #syncResource is one step here; DeltaSync  *)
(* opens it up.  Time is "soon" (at once, or the two seconds of an         *)
(* unfinished cycle) against "later" (DELTA_SYNC_INTERVAL_MIN).            *)
(***************************************************************************)
EXTENDS Integers, Sequences, FiniteSets, SequencesExt

CONSTANTS
    Lists,      \* list ids that ever exist
    Size,       \* pages of each list's baseline, the most that a round takes
    Later,      \* how many pages a later round of each list may take
    Broken,     \* lists whose delta requests always fail
    Watched,    \* lists with a subscription
    Budget,     \* MAX_PAGES_PER_CYCLE
    MaxWait,    \* bound: cycles in a row that a list is counted as waiting
    MaxChanges, \* bound: lists created or deleted by clients after the start
    MaxFaults,  \* bound: throttled or expired requests
    MaxRequests,\* bound: policy changes, calls of resync, refused tokens
    ResyncAll   \* whether resync() may be called without a list

ASSUME CycleAssumption ==
    /\ IsFiniteSet(Lists)
    /\ Size \in [Lists -> Nat \ {0}]
    /\ \A l \in Lists : Later[l] \in (SUBSET (1..Size[l])) \ {{}}
    /\ Broken \subseteq Lists /\ Watched \subseteq Lists
    /\ Budget \in Nat \ {0} /\ MaxWait \in Nat
    /\ MaxChanges \in Nat /\ MaxFaults \in Nat /\ MaxRequests \in Nat
    /\ ResyncAll \in BOOLEAN

VARIABLES
    remote,  \* Graph: the lists there are
    news,    \* Graph: lists created or deleted since the roster's deltaLink
    linked,  \* whether the roster has a deltaLink
    roster,  \* the lists table
    link,    \* sync_state of each list: "none", "next" or "delta"
    pages,   \* pages each list's current round still needs
    synced,  \* the order of last_synced_at: pairs of lists that have one, the
             \* first no later than the second
    skipped, \* lists the sync policy excludes
    alarm,   \* "none", "soon" or "later"
    wanted,  \* lists notified of or resynced, since when no cycle has begun
             \* and the list has not been fetched
    asked,   \* whether set_list_config asked for a cycle that has not begun
    reauth,  \* whether Microsoft waits for a sign-in
    cycle,   \* the cycle in progress
    waited,  \* cycles in a row that ended without reaching the list, counted
             \* up to MaxWait
    ghosts,  \* rows of the roster that resync() left, and that Graph has not
             \* reported as being there since
    counts   \* how much of each bound is used up

lists == <<link, pages, synced>>
feed  == <<remote, news, linked>>
ask   == <<wanted, asked>>
vars  == <<remote, news, linked, roster, link, pages, synced, skipped, alarm,
           wanted, asked, reauth, cycle, waited, ghosts, counts>>
past  == <<waited, ghosts>>

Idle == [pc |-> "idle", todo |-> <<>>, left |-> 0, busy |-> FALSE]
Bounds == [changes |-> MaxChanges, faults |-> MaxFaults,
           requests |-> MaxRequests]

Cycles == [pc : {"idle", "roster", "plan", "lists"}, todo : Seq(Lists),
           left : 0..Budget, busy : BOOLEAN]

TypeOK ==
    /\ remote \subseteq Lists /\ news \subseteq Lists /\ linked \in BOOLEAN
    /\ roster \subseteq Lists
    /\ link \in [Lists -> {"none", "next", "delta"}]
    /\ pages \in [Lists -> Nat] /\ \A l \in Lists : pages[l] \in 1..Size[l]
    /\ synced \subseteq Lists \X Lists
    /\ skipped \subseteq Lists
    /\ alarm \in {"none", "soon", "later"}
    /\ wanted \subseteq Lists /\ asked \in BOOLEAN /\ reauth \in BOOLEAN
    /\ cycle \in Cycles
    /\ waited \in [Lists -> 0..MaxWait] /\ ghosts \subseteq Lists
    /\ counts \in [DOMAIN Bounds -> Nat]
    /\ \A b \in DOMAIN Bounds : counts[b] <= Bounds[b]

Init ==
    /\ remote \in SUBSET Lists
    /\ news = {} /\ linked = FALSE /\ roster = {}
    /\ link = [l \in Lists |-> "none"]
    /\ pages = Size
    /\ synced = {}
    /\ skipped = {}
    /\ alarm = "none" /\ wanted = {} /\ asked = FALSE /\ reauth = FALSE
    /\ cycle = Idle
    /\ waited = [l \in Lists |-> 0] /\ ghosts = {}
    /\ counts = [b \in DOMAIN Bounds |-> 0]

Use(b) == counts[b] < Bounds[b] /\ counts' = [counts EXCEPT ![b] = @ + 1]

-----------------------------------------------------------------------------
(* Graph and the user (external).                                           *)

\* A list is created, or one is deleted; ids are not used again.
ChangeLists(l) ==
    /\ Use("changes")
    /\ IF l \in remote THEN remote' = remote \ {l}
       ELSE l \notin roster \cup news /\ remote' = remote \cup {l}
    /\ news' = news \cup {l}
    /\ UNCHANGED <<linked, roster, lists, skipped, alarm, ask, reauth, cycle,
                   past>>

\* ensureSyncing() arms an alarm only where there is none.
EnsureSyncing == alarm' = IF alarm = "none" THEN "soon" ELSE alarm

\* set_list_config changes no_sync, and asks for a cycle.
ChangePolicy(l) ==
    /\ Use("requests")
    /\ skipped' = IF l \in skipped THEN skipped \ {l} ELSE skipped \cup {l}
    /\ EnsureSyncing /\ asked' = TRUE
    /\ UNCHANGED <<feed, roster, lists, wanted, reauth, cycle, past>>

\* Microsoft refuses the tokens.
Refuse ==
    /\ ~reauth /\ Use("requests") /\ reauth' = TRUE
    /\ UNCHANGED <<feed, roster, lists, skipped, alarm, ask, cycle, past>>

-----------------------------------------------------------------------------
(* What arms the alarm.                                                     *)

\* onChangeNotification() and onLifecycleEvent() for a list: setAlarm(now + 1).
Notify(l) ==
    /\ l \in Watched \cap (roster \ skipped)
    /\ alarm' = "soon" /\ wanted' = wanted \cup {l}
    /\ UNCHANGED <<feed, roster, lists, skipped, asked, reauth, cycle, past,
                   counts>>

\* ensureSyncing(): the heartbeat, or a read of a cold index.
Heartbeat ==
    /\ alarm = "none" /\ EnsureSyncing
    /\ UNCHANGED <<feed, roster, lists, skipped, ask, reauth, cycle, past,
                   counts>>

\* clearReauth() after a sign-in.
SignIn ==
    /\ reauth /\ reauth' = FALSE
    /\ EnsureSyncing
    /\ UNCHANGED <<feed, roster, lists, skipped, ask, cycle, past, counts>>

\* Drop the sync_state of every list in s.
Forget(s) ==
    /\ link'   = [l \in Lists |-> IF l \in s THEN "none" ELSE link[l]]
    /\ pages'  = [l \in Lists |-> IF l \in s THEN Size[l] ELSE pages[l]]
    /\ synced' = {p \in synced : p[1] \notin s /\ p[2] \notin s}

\* resync(list): the list's rows and sync_state go, the alarm is armed.
Resync(l) ==
    /\ l \in roster /\ Use("requests")
    /\ Forget({l})
    /\ alarm' = "soon" /\ wanted' = wanted \cup {l}
    /\ UNCHANGED <<feed, roster, skipped, asked, reauth, cycle, past>>

\* resync(): all task rows and all of sync_state, the roster's link included.
ResyncEverything ==
    /\ ResyncAll /\ Use("requests")
    /\ Forget(Lists)
    /\ linked' = FALSE /\ news' = {}
    /\ alarm' = "soon" /\ wanted' = wanted \cup roster
    /\ ghosts' = roster
    /\ UNCHANGED <<remote, roster, skipped, asked, reauth, cycle, waited>>

-----------------------------------------------------------------------------
(* One cycle.                                                               *)

\* alarm(): while Microsoft waits for a sign-in nothing runs or is re-armed.
Alarm ==
    /\ alarm # "none" /\ cycle.pc = "idle"
    /\ alarm' = "none" /\ wanted' = {} /\ asked' = FALSE
    /\ cycle' = IF reauth THEN Idle
                ELSE [Idle EXCEPT !.pc = "roster", !.left = Budget]
    /\ UNCHANGED <<feed, roster, lists, skipped, reauth, past, counts>>

\* Mutant of RosterApplied: removed lists are not taken out.
RosterNeverRemoves ==
    /\ roster' = roster \cup (IF linked THEN news \cap remote ELSE remote)
    /\ UNCHANGED lists

\* Mutant of RosterApplied: only a baseline adds lists.
RosterNeverAdds ==
    LET removed == IF linked THEN news \ remote ELSE {}
    IN  /\ roster' = (IF linked THEN roster ELSE roster \cup remote) \ removed
        /\ Forget(removed)

\* The roster's delta is applied: new lists are inserted, removed ones are
\* deleted with their tasks and their sync_state.  A baseline reports what
\* there is, and removes nothing.
RosterApplied ==
    LET added   == IF linked THEN news \cap remote ELSE remote
        removed == IF linked THEN news \ remote ELSE {}
    IN  /\ roster' = (roster \cup added) \ removed
        /\ Forget(removed)

\* The roster is synced.
SyncRoster ==
    /\ cycle.pc = "roster"
    /\ cycle' = [cycle EXCEPT !.pc = "plan"]
    /\ RosterApplied
    /\ linked' = TRUE /\ news' = {} /\ ghosts' = ghosts \ remote
    /\ UNCHANGED <<remote, skipped, alarm, ask, reauth, waited, counts>>

\* The roster's link has expired (410): everything is purged, and the roster
\* waits for the next cycle.
RosterGone ==
    /\ cycle.pc = "roster" /\ linked
    /\ Use("faults")
    /\ cycle' = [cycle EXCEPT !.pc = "plan", !.busy = TRUE]
    /\ roster' = {} /\ Forget(Lists)
    /\ linked' = FALSE /\ news' = {}
    /\ UNCHANGED <<remote, skipped, alarm, ask, reauth, past>>

\* 429, 503 (which count as unfinished) or another error; a refused token
\* fails every request that needs a new one.
RosterFails ==
    /\ cycle.pc = "roster"
    /\ Use("faults") \/ (reauth /\ UNCHANGED counts)
    /\ \E busy \in BOOLEAN :
          cycle' = [cycle EXCEPT !.pc = "plan", !.busy = busy]
    /\ UNCHANGED <<feed, roster, lists, skipped, alarm, ask, reauth, past>>

Tier(l) == CASE link[l] = "next" -> 0 [] link[l] = "none" -> 1 [] OTHER -> 2

\* l was synced before m, or never was while m was.
Older(l, m) == <<m, m>> \in synced /\ <<m, l>> \notin synced

\* Mutant of Before: within a tier the order of the lists table.
BeforeByTier(l, m) == Tier(l) < Tier(m)

\* #listIdsByPriority: unfinished rounds, then lists without a baseline, then
\* the rest; the longest ago synced first.
Before(l, m) == Tier(l) < Tier(m) \/ (Tier(l) = Tier(m) /\ Older(l, m))

\* The policy is read; skipped lists lose rows and state, the rest is put in
\* order once for the whole cycle: any order of those that tie.
Plan ==
    /\ cycle.pc = "plan"
    /\ Forget(skipped \cap roster)
    /\ \E todo \in SetToSeqs(roster \ skipped) :
          /\ \A i, j \in DOMAIN todo : i < j => ~Before(todo[j], todo[i])
          /\ cycle' = [cycle EXCEPT !.pc = "lists", !.todo = todo]
    /\ asked' = FALSE
    /\ UNCHANGED <<feed, roster, skipped, alarm, wanted, reauth, past, counts>>

Turn(l) == cycle.pc = "lists" /\ cycle.left > 0
           /\ cycle.todo # <<>> /\ l = Head(cycle.todo)

\* #syncResource of l cost n pages.
Spent(l, n, busy) ==
    cycle' = [cycle EXCEPT !.todo = Tail(@), !.left = @ - n,
                           !.busy = @ \/ busy]

\* A list that cannot be fetched: broken, or no longer there.
Fetchable(l) == l \in remote \ Broken

\* Mutant of Finished: only the first round of a list is stamped.
FinishedOnce(l) ==
    /\ link' = [link EXCEPT ![l] = "delta"]
    /\ \E n \in Later[l] : pages' = [pages EXCEPT ![l] = n]
    /\ synced' = IF <<l, l>> \in synced THEN synced
                 ELSE synced \cup {<<m, l>> : m \in {n \in Lists : n = l \/ <<n, n>> \in synced}}

\* A round of l is through: l is the last one synced, and its next round takes
\* as many pages as there will be news.
Finished(l) ==
    /\ link' = [link EXCEPT ![l] = "delta"]
    /\ \E n \in Later[l] : pages' = [pages EXCEPT ![l] = n]
    /\ synced' = {p \in synced : l \notin {p[1], p[2]}}
                 \cup {<<m, l>> : m \in {n \in Lists : n = l \/ <<n, n>> \in synced}}

\* Mutant of SyncList: running out of budget counts as unfinished work.
SyncListBusy(l) ==
    /\ Turn(l) /\ Fetchable(l)
    /\ IF pages[l] <= cycle.left
       THEN /\ Spent(l, pages[l], pages[l] = cycle.left)
            /\ Finished(l)
       ELSE /\ Spent(l, cycle.left, TRUE)
            /\ link' = [link EXCEPT ![l] = "next"]
            /\ pages' = [pages EXCEPT ![l] = @ - cycle.left]
            /\ UNCHANGED synced
    /\ wanted' = wanted \ {l}
    /\ UNCHANGED <<feed, roster, skipped, alarm, asked, reauth, past, counts>>

\* The round of l ends, or stops at the budget and leaves a nextLink.
SyncList(l) ==
    /\ Turn(l) /\ Fetchable(l)
    /\ IF pages[l] <= cycle.left
       THEN /\ Spent(l, pages[l], FALSE)
            /\ Finished(l)
       ELSE /\ Spent(l, cycle.left, TRUE)
            /\ link' = [link EXCEPT ![l] = "next"]
            /\ pages' = [pages EXCEPT ![l] = @ - cycle.left]
            /\ UNCHANGED synced
    /\ wanted' = wanted \ {l}
    /\ UNCHANGED <<feed, roster, skipped, alarm, asked, reauth, past, counts>>

\* The request fails for good: one page is charged, nothing else changes.
FailList(l) ==
    /\ Turn(l) /\ (Fetchable(l) => reauth)
    /\ Spent(l, 1, FALSE)
    /\ UNCHANGED <<feed, roster, lists, skipped, alarm, ask, reauth, past,
                   counts>>

\* The request is throttled, or the list's link has expired and the list
\* starts over; last_synced_at stays.
DelayList(l) ==
    /\ Turn(l) /\ Fetchable(l)
    /\ Use("faults")
    /\ Spent(l, 1, TRUE)
    /\ \/ UNCHANGED lists
       \/ /\ link[l] # "none"
          /\ link' = [link EXCEPT ![l] = "none"]
          /\ pages' = [pages EXCEPT ![l] = Size[l]]
          /\ UNCHANGED synced
    /\ UNCHANGED <<feed, roster, skipped, alarm, ask, reauth, past>>

\* Nothing left to do or to spend: re-arm, soon if a round is unfinished.
EndCycle ==
    /\ cycle.pc = "lists"
    /\ cycle.left = 0 \/ cycle.todo = <<>>
    /\ alarm' = IF cycle.busy THEN "soon" ELSE "later"
    /\ waited' = [l \in Lists |->
                     IF ~Contains(cycle.todo, l) \/ l \notin roster THEN 0
                     ELSE IF waited[l] < MaxWait THEN waited[l] + 1
                     ELSE waited[l]]
    /\ cycle' = Idle
    /\ UNCHANGED <<feed, roster, lists, skipped, ask, reauth, ghosts, counts>>

InCycle == \/ SyncRoster \/ RosterGone \/ RosterFails \/ Plan \/ EndCycle
           \/ \E l \in Lists : SyncList(l) \/ FailList(l) \/ DelayList(l)

\* The steps of a cycle that are not a fault.
Progress == SyncRoster \/ Plan \/ EndCycle
            \/ \E l \in Lists : SyncList(l) \/ FailList(l)

Next == \/ Heartbeat \/ SignIn \/ Refuse \/ Alarm \/ InCycle
        \/ ResyncEverything
        \/ \E l \in Lists : \/ ChangeLists(l) \/ ChangePolicy(l)
                           \/ Notify(l) \/ Resync(l)

Spec == Init /\ [][Next]_vars

\* The host fires an armed alarm and carries its cycle through; the heartbeat
\* comes round.  Nobody promises a notification or a sign-in.
FairSpec == Spec /\ WF_vars(Alarm) /\ WF_vars(Heartbeat) /\ WF_vars(Progress)

-----------------------------------------------------------------------------
(* Properties.                                                              *)

\* "Sorting by last_synced_at guarantees every list reaches the front within
\* roster / budget cycles" (index-core.ts:2060-2068): the cycles in which a list
\* is passed over have, after a page for each broken list, spent less than all
\* baselines take, and that once more for each fault, request and change there was.
Baselines == UNION {{l} \X (1..Size[l]) : l \in Lists}
RotationBound ==
    LET events == counts.faults + counts.requests + counts.changes
        each   == Budget - Cardinality(Broken)
    IN  \A l \in Lists : waited[l] * each < (1 + events) * Cardinality(Baselines)

\* Every list of the roster that can be fetched and is not skipped is synced
\* again and again, however large or broken the others are.
NoListStarves ==
    \A l \in Lists :
        []<>(\/ <<l, l>> \in synced /\ \A m \in Lists : ~Older(l, m)
             \/ l \notin roster \cap remote \/ l \in skipped \cup Broken
             \/ reauth)

\* The loop calms down: again and again a cycle ends with nothing unfinished,
\* which is what the My Day, checklist and subscription work waits for.
CalmAgain == []<>(alarm = "later" \/ reauth)

\* The roster ends up with every list that exists, and nothing is kept of a
\* list that is skipped.
RosterComplete ==
    <>[](reauth \/ /\ remote \subseteq roster
                   /\ \A l \in skipped \cap roster : link[l] = "none")

\* While the roster has a link, it lacks no list and keeps none that is gone,
\* but those Graph has yet to report, and those that resync() made it forget.
RosterIsGraphs == linked => /\ remote \ roster \subseteq news
                            /\ roster \ remote \subseteq news \cup ghosts

\* resync() leaves nothing wrong behind ("drops all task rows and clears delta
\* cursors", index-core.ts resync()): a baseline does away with deleted lists.
NoGhosts == linked => roster \ remote \subseteq news

\* A list that a notification named, or that was resynced, and that the cycle
\* in progress does not fetch any more, gets a cycle at once: "an edit in any To
\* Do client lands in the cache within ~2 minutes instead of waiting for the
\* next timer cycle" (README.md:122-124).
WantedIsSoon == cycle.pc = "idle" /\ wanted # {} => alarm = "soon"

\* A changed policy gets its cycle at once: "Reconcile promptly (purge or
\* re-enable) instead of waiting for cron" (register-tools.ts:2968).
PolicyIsSoon == cycle.pc = "idle" /\ asked => alarm = "soon"
=============================================================================

------------------------------- MODULE DeltaSync -------------------------------
(***************************************************************************)
(* How one list of Microsoft To Do gets into the local index, and stays    *)
(* there (src/core/index/index-core.ts #syncResource, #applyRows,          *)
(* resync(); src/core/graph/delta.ts followToTerminal): the delta rounds   *)
(* of the alarm, the write-through of the tools, and other clients that    *)
(* change the same list meanwhile.                                         *)
(*                                                                         *)
(* A task is abstracted to the time of its last change, which is also the  *)
(* version a row of the index was taken from; a row of version 0 is no     *)
(* row.  A link (the opaque token of Graph's @odata.deltaLink or nextLink) *)
(* stands for the time its round began and the tasks the round still has   *)
(* to report, none for a deltaLink.  SyncCycle decides which list is       *)
(* synced when; here the alarm may sync the list at any time, one call at  *)
(* a time, since alarm() never overlaps itself.                            *)
(***************************************************************************)
EXTENDS Integers, FiniteSets

CONSTANTS
    Tasks,          \* task ids of the list
    None,           \* JavaScript's null
    MaxClock,       \* bound: changes made to the list
    MaxEpoch,       \* bound: times Graph expires the tokens it has issued
    MaxFaults,      \* bound: failed pages, restarts, lost writes and resyncs
    MaxPages,       \* bound: the page budget of one call
    MaxWrites,      \* bound: write-throughs on their way at the same time
    ResyncInFlight, \* whether resync() may run while a page is awaited
    Linkless        \* whether a last page may come without a deltaLink

ASSUME DeltaAssumption ==
    /\ MaxClock \in Nat /\ MaxEpoch \in Nat /\ MaxFaults \in Nat
    /\ MaxPages \in Nat \ {0} /\ MaxWrites \in Nat
    /\ ResyncInFlight \in BOOLEAN /\ Linkless \in BOOLEAN
    /\ None \notin Int
    /\ None \notin [at : Nat, left : SUBSET Tasks, epoch : Nat]

VARIABLES
    clock,  \* Graph: number of changes so far
    graph,  \* Graph: each task of the list
    epoch,  \* Graph: tokens of an older epoch are answered 410 Gone
    index,  \* tasks table: each row's version, and who wrote it
    sync,   \* sync_state row of "tasks:{listId}"
    call,   \* the #syncResource call in progress
    writes, \* write-throughs of the tools, on their way to the index
    faults, \* disturbances so far, of those that MaxFaults bounds
    stray   \* rows a tool wrote that are not Graph's and that no round will
            \* report: the write came after the report, or the task was gone
            \* when the baseline was taken

upstream == <<clock, graph, epoch>>
vars == <<clock, graph, epoch, index, sync, call, writes, faults, stray>>

Version == 0..MaxClock
Link    == [at : Version, left : SUBSET Tasks, epoch : 0..MaxEpoch]
Report  == [Tasks -> Version \cup {None}] \* None: the task is not reported
Page    == [kind : {"page"}, rows : Report, link : Link \cup {None}]
Error   == [kind : {"gone", "throttled", "failed"}]
Idle    == [pc |-> "idle"]
NoSync  == [delta |-> None, next |-> None, status |-> "none"]

Call == {Idle}
   \cup [pc : {"asking"}, url : Link \cup {None}, rows : Report,
         budget : 1..MaxPages, baseline : BOOLEAN]
   \cup [pc : {"answered"}, url : Link \cup {None}, rows : Report,
         budget : 1..MaxPages, baseline : BOOLEAN, answer : Page \cup Error]

TypeOK ==
    /\ clock \in Version
    /\ graph \in [Tasks -> [ver : Version, alive : BOOLEAN]]
    /\ epoch \in 0..MaxEpoch
    /\ index \in [Tasks -> [ver : Version, by : {"delta", "tool"}]]
    /\ sync \in [delta : Link \cup {None}, next : Link \cup {None},
                 status : {"none", "baseline", "syncing", "idle", "error"}]
    /\ call \in Call
    /\ writes \subseteq [task : Tasks, ver : Version]
    /\ faults \in 0..MaxFaults
    /\ stray \subseteq Tasks

NoRow   == [ver |-> 0, by |-> "delta"]
NoRows  == [t \in Tasks |-> None]

Init ==
    /\ clock = 0 /\ epoch = 0 /\ faults = 0
    /\ graph = [t \in Tasks |-> [ver |-> 0, alive |-> FALSE]]
    /\ index = [t \in Tasks |-> NoRow]
    /\ sync = NoSync
    /\ call = Idle
    /\ writes = {} /\ stray = {}

-----------------------------------------------------------------------------
(* Graph (external): changes, delta queries, token expiry.                  *)

\* What a delta page reports of task t: its version, or 0 for @removed.
Current(t) == IF graph[t].alive THEN graph[t].ver ELSE 0

\* Some client creates, updates or deletes task t; ids are not used again.
Change(t) ==
    /\ clock < MaxClock
    /\ clock' = clock + 1
    /\ graph[t].ver = 0 \/ graph[t].alive
    /\ \E alive \in BOOLEAN :
        /\ alive \/ graph[t].alive
        /\ graph' = [graph EXCEPT ![t] = [ver |-> clock + 1, alive |-> alive]]
    /\ UNCHANGED epoch

\* A change made by another client.
ClientChange(t) == Change(t) /\ UNCHANGED <<index, sync, call, writes, faults, stray>>

\* Graph forgets the tokens it has issued (after about 30 days).
Expire ==
    /\ epoch < MaxEpoch
    /\ epoch' = epoch + 1
    /\ UNCHANGED <<clock, graph, index, sync, call, writes, faults, stray>>

Honoured(url) == url # None => url.epoch = epoch

Answer(a) == call' = [pc |-> "answered", url |-> call.url, rows |-> call.rows,
                      budget |-> call.budget, baseline |-> call.baseline,
                      answer |-> a]

\* Graph serves a page.  A round reports each task that existed when it began
\* (baseline) or that changed since its deltaLink was issued; of a task that
\* changes while the round lasts a page may report the later version as well.
ServePage ==
    LET url   == call.url
        at    == IF url # None /\ url.left # {} THEN url.at ELSE clock
        due   == IF url = None THEN {t \in Tasks : graph[t].alive}
                 ELSE IF url.left # {} THEN url.left
                 ELSE {t \in Tasks : graph[t].ver > url.at}
        fresh == {t \in Tasks : graph[t].ver > at}
    IN  /\ call.pc = "asking"
        /\ Honoured(url)
        /\ \E page \in SUBSET (due \cup fresh), end \in {FALSE, Linkless} :
            /\ due # {} => page \cap due # {}
            /\ end => due \subseteq page
            /\ Answer([kind |-> "page",
                       rows |-> [t \in Tasks |->
                                    IF t \in page THEN Current(t) ELSE None],
                       link |-> IF end THEN None
                                ELSE [at |-> at, left |-> due \ page,
                                      epoch |-> epoch]])
        /\ stray' = IF url = None
                    THEN stray \cup {t \in Tasks : ~graph[t].alive /\ index[t].ver > 0}
                    ELSE stray
        /\ UNCHANGED <<upstream, index, sync, writes, faults>>

\* Graph no longer honours the link.
ServeGone ==
    /\ call.pc = "asking"
    /\ ~Honoured(call.url)
    /\ Answer([kind |-> "gone"])
    /\ UNCHANGED <<upstream, index, sync, writes, faults, stray>>

\* The request fails: 429 or 503 twice in a row, or anything else.
ServeError ==
    /\ call.pc = "asking"
    /\ faults < MaxFaults
    /\ faults' = faults + 1
    /\ \E kind \in {"throttled", "failed"} : Answer([kind |-> kind])
    /\ UNCHANGED <<upstream, index, sync, writes, stray>>

-----------------------------------------------------------------------------
(* One call of #syncResource.                                               *)

\* Read sync_state and ask for the first page, from next_link, else from
\* delta_link, else for a baseline.
Start ==
    /\ call.pc = "idle"
    /\ \E budget \in 1..MaxPages :
          call' = [pc |-> "asking",
                   url |-> IF sync.next # None THEN sync.next ELSE sync.delta,
                   rows |-> NoRows, budget |-> budget,
                   baseline |-> sync.next = None /\ sync.delta = None]
    /\ UNCHANGED <<upstream, index, sync, writes, faults, stray>>

\* Rows are applied in the order they were reported: the last report wins.
Merge(old, new) == [t \in Tasks |-> IF new[t] = None THEN old[t] ELSE new[t]]

IsPage   == call.pc = "answered" /\ call.answer.kind = "page"
MorePages == call.answer.link # None /\ call.answer.link.left # {}
Gathered == Merge(call.rows, call.answer.rows)

\* followToTerminal: another page, while the budget lasts.
Follow ==
    /\ IsPage /\ MorePages /\ call.budget > 1
    /\ call' = [pc |-> "asking", url |-> call.answer.link, rows |-> Gathered,
                budget |-> call.budget - 1, baseline |-> call.baseline]
    /\ UNCHANGED <<upstream, index, sync, writes, faults, stray>>

\* #applyRows: upsert or delete the row of every reported task.
Applied(rows) ==
    [t \in Tasks |-> IF rows[t] = None THEN index[t]
                     ELSE [ver |-> rows[t], by |-> "delta"]]

\* The sync_state row after a call that ended without an error.
Advance ==
    LET link == call.answer.link
    IN  CASE link = None -> [sync EXCEPT !.next = None, !.status = "idle"]
          [] MorePages   -> [sync EXCEPT !.next = link, !.status =
                                IF call.baseline THEN "baseline" ELSE "syncing"]
          [] OTHER       -> [delta |-> link, next |-> None, status |-> "idle"]

\* The round ended or the budget is spent: apply every row gathered and
\* advance the cursor, in one synchronous block.
Commit ==
    /\ IsPage
    /\ MorePages => call.budget = 1
    /\ index' = Applied(Gathered)
    /\ sync' = Advance
    /\ call' = Idle
    /\ stray' = {t \in stray : Gathered[t] = None}
    /\ UNCHANGED <<upstream, writes, faults>>

\* Mutant of Gone: only delta_link is reset.
GoneKeepsNextLink ==
    /\ call.pc = "answered" /\ call.answer.kind = "gone"
    /\ index' = [t \in Tasks |-> NoRow]
    /\ sync' = [sync EXCEPT !.delta = None, !.status = "baseline"]
    /\ call' = Idle /\ stray' = {}
    /\ UNCHANGED <<upstream, writes, faults>>

\* Mutant of Gone: the rows are purged and the cursor is left alone.
GoneKeepsCursor ==
    /\ call.pc = "answered" /\ call.answer.kind = "gone"
    /\ index' = [t \in Tasks |-> NoRow]
    /\ sync' = [sync EXCEPT !.status = "baseline"]
    /\ call' = Idle /\ stray' = {}
    /\ UNCHANGED <<upstream, writes, faults>>

\* 410: purge the rows and reset the cursor; the next call baselines.
Gone ==
    /\ call.pc = "answered" /\ call.answer.kind = "gone"
    /\ index' = [t \in Tasks |-> NoRow]
    /\ sync' = [delta |-> None, next |-> None, status |-> "baseline"]
    /\ call' = Idle /\ stray' = {}
    /\ UNCHANGED <<upstream, writes, faults>>

\* Any other error: the rows gathered so far are dropped, the cursor stays.
Failed ==
    /\ call.pc = "answered" /\ call.answer.kind \in {"throttled", "failed"}
    /\ sync' = [sync EXCEPT !.status =
                   IF call.answer.kind = "failed" THEN "error"
                   ELSE IF call.baseline THEN "baseline" ELSE "syncing"]
    /\ call' = Idle
    /\ UNCHANGED <<upstream, index, writes, faults, stray>>

-----------------------------------------------------------------------------
(* Everything that runs beside the alarm.                                   *)

\* A tool changes task t in Graph; its write-through of the answer follows.
ToolWrite(t) ==
    /\ Cardinality(writes) < MaxWrites
    /\ Change(t)
    /\ writes' = writes \cup {[task |-> t, ver |-> Current(t)']}
    /\ UNCHANGED <<index, sync, call, faults, stray>>

\* Whether a round from the cursor on will report task t.
WillReport(t) == IF sync.next # None THEN t \in sync.next.left \/ graph[t].ver > sync.next.at
           ELSE IF sync.delta # None THEN graph[t].ver > sync.delta.at
           ELSE graph[t].alive

\* upsertTask() or deleteTask() of what Graph answered, unconditionally.
WriteThrough(w) ==
    /\ index' = [index EXCEPT ![w.task] = [ver |-> w.ver, by |-> "tool"]]
    /\ stray' = IF w.ver = Current(w.task) \/ WillReport(w.task) THEN stray \ {w.task}
                ELSE stray \cup {w.task}
    /\ writes' = writes \ {w}
    /\ UNCHANGED <<upstream, sync, call, faults>>

\* The write-through fails or its request dies; the tool succeeded anyway.
LoseWrite(w) ==
    /\ faults < MaxFaults
    /\ faults' = faults + 1
    /\ writes' = writes \ {w}
    /\ UNCHANGED <<upstream, index, sync, call, stray>>

\* resync(listId): drop the rows and the cursor; the alarm is armed.
Resync ==
    /\ call.pc = "idle" \/ ResyncInFlight
    /\ faults < MaxFaults
    /\ faults' = faults + 1
    /\ index' = [t \in Tasks |-> NoRow]
    /\ sync' = NoSync /\ stray' = {}
    /\ UNCHANGED <<upstream, call, writes>>

\* The process or Durable Object restarts in the middle of a call.
Restart ==
    /\ call.pc # "idle"
    /\ faults < MaxFaults
    /\ faults' = faults + 1
    /\ call' = Idle
    /\ UNCHANGED <<upstream, index, sync, writes, stray>>

Graph  == Expire \/ ServePage \/ ServeGone \/ ServeError
Engine == Start \/ Follow \/ Commit \/ Gone \/ Failed

Next == \/ Graph \/ Engine \/ Resync \/ Restart
        \/ \E t \in Tasks : ClientChange(t) \/ ToolWrite(t)
        \/ \E w \in writes : WriteThrough(w) \/ LoseWrite(w)

Spec == Init /\ [][Next]_vars

\* The alarm re-arms after every cycle and Graph answers every request:
\* what keeps a call from ending well is one of the bounded faults.
FairSpec == Spec /\ WF_vars(Engine) /\ WF_vars(ServePage \/ ServeGone)

-----------------------------------------------------------------------------
(* Properties.                                                              *)

\* isListSynced(): reads of the list are served from the index.
IsListSynced == sync.delta # None

\* Whether the row of t is what Graph has, or a tool wrote it.
RowRight(t) == index[t].by = "tool" \/ index[t].ver = Current(t)

\* Once a list is served from the index, every change Graph made before the
\* cursor is in it, whatever failed, expired or was replayed on the way.
SyncedIsComplete ==
    IsListSynced => \A t \in Tasks : graph[t].ver <= sync.delta.at => RowRight(t)

\* syncStatus() calls a list idle only if reads of it use the index and no
\* page chain is outstanding.
IdleIsServed == sync.status = "idle" => IsListSynced /\ sync.next = None

\* The index keeps what ListIndex promises: however pages, links, retries,
\* expiries, restarts and write-throughs interleave, a row the delta brought is
\* never replaced by an older one nor dropped while the task exists, unless the
\* whole list is purged, and the moment the list is complete up to never goes
\* back while it is served.
Promise == INSTANCE ListIndex WITH
              rows <- index, upto <- IF sync.delta = None THEN None ELSE sync.delta.at
KeepsPromise == Promise!Spec

\* When Graph stops changing and faults stop, the index ends up with what
\* Graph has, without anyone's help, and the list is served from it: also of the
\* tasks the tools wrote, but for a row that was written when the feed had
\* nothing left to say of it (DeltaReconciles).
Converges == <>[](IsListSynced /\ \A t \in Tasks : t \in stray \/ index[t].ver = Current(t))

\* The write-through is best effort because "the next delta sync reconciles"
\* (register-tools.ts:4664-4667): past the cursor, and with no write on its
\* way, the row is Graph's, also if a tool wrote it.
DeltaReconciles ==
    IsListSynced => \A t \in Tasks :
        /\ graph[t].ver <= sync.delta.at
        /\ \A w \in writes : w.task # t
        => index[t].ver = Current(t)
=============================================================================

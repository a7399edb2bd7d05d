---------------------------- MODULE ChecklistCache ----------------------------
(***************************************************************************)
(* The checklist items the index keeps for cross-task search               *)
(* (src/core/index/index-core.ts:465-475, 529-645, 1958-1983, 2179-2222).  *)
(*                                                                         *)
(* The delta feed tells that a task changed, never how its checklist did:  *)
(* each change clears the task's marker, and a scan fetches, some tasks    *)
(* per calm cycle, the checklists of the open tasks without a marker.      *)
(* Tools write their own changes through.  Sync cycles are serial          *)
(* (SyncCycle), so no delta round runs within a scan; write-throughs and   *)
(* resync() come at any time in it.                                        *)
(***************************************************************************)
EXTENDS Naturals, FiniteSets

CONSTANTS
    Tasks,     \* task ids
    Items,     \* checklist items a task may have; an edited item is another
    Max,       \* CHECKLIST_SCAN_MAX_TASKS_PER_CYCLE
    None,      \* undefined
    MaxEdits,  \* bound: changes by other clients
    MaxCalls,  \* bound: calls of a tool
    MaxFaults  \* bound: fetches and write-throughs that fail

VARIABLES
    graph, \* Graph: each task
    feed,  \* tasks that changed since the index read the delta feed
    rows,  \* tasks table and checklist_items, by task
    scan,  \* the batch in progress
    tool,  \* the write-through that is due
    used,  \* how much of each bound is used up
    stray  \* (not in the code) tasks that a write-through was late for: the feed
           \* had reported the change already, and there was no fetch since

vars == <<graph, feed, rows, scan, tool, used, stray>>

TaskOf == [here : BOOLEAN, open : BOOLEAN, items : SUBSET Items]
\* marked: checklist_synced_at is set; has: has_checklist = 1.
RowOf  == [here : BOOLEAN, open : BOOLEAN, marked : BOOLEAN, has : BOOLEAN,
           items : SUBSET Items]
NoRow(items) == [here |-> FALSE, open |-> FALSE, marked |-> FALSE, has |-> FALSE,
                 items |-> items]
NoScan == [due |-> {}, task |-> None, items |-> {}]
NoTool == [task |-> None, item |-> None, kind |-> None, open |-> FALSE]
Kinds  == {"add", "remove", "update", "delete"}

TypeOK ==
    /\ graph \in [Tasks -> TaskOf]
    /\ feed \subseteq Tasks
    /\ rows \in [Tasks -> RowOf]
    /\ scan \in [due : SUBSET Tasks, task : Tasks \cup {None}, items : SUBSET Items]
    /\ tool \in {NoTool} \cup [task : Tasks, item : Items, kind : Kinds, open : BOOLEAN]
    /\ used \in [edits : 0..MaxEdits, calls : 0..MaxCalls, faults : 0..MaxFaults]
    /\ stray \subseteq Tasks

\* An index that has read no delta page yet.
Init ==
    /\ graph \in [Tasks -> [here : {TRUE}, open : BOOLEAN, items : SUBSET Items]]
    /\ feed = Tasks
    /\ rows = [t \in Tasks |-> NoRow({})]
    /\ scan = NoScan
    /\ tool = NoTool
    /\ used = [edits |-> 0, calls |-> 0, faults |-> 0]
    /\ stray = {}

Use(b, bound) == used[b] < bound /\ used' = [used EXCEPT ![b] = @ + 1]

\* Graph changes task t.
Change(t, task) == graph' = [graph EXCEPT ![t] = task] /\ feed' = feed \cup {t}

-----------------------------------------------------------------------------
(* The index.                                                               *)

\* upsertTask(): has_checklist is NULL again, the marker stays; a new row has
\* none.
upsertTask(open, row) ==
    [row EXCEPT !.here = TRUE, !.open = open, !.has = FALSE,
                !.marked = @ /\ row.here]

\* deleteTask() takes the items along.
deleteTask == NoRow({})

\* Mutant of Delta: markChecklistDirty() is only called for new tasks.
DeltaKeepsMarks ==
    /\ scan = NoScan /\ feed # {}
    /\ rows' = [t \in Tasks |->
                    IF t \notin feed THEN rows[t]
                    ELSE IF ~graph[t].here THEN deleteTask
                    ELSE upsertTask(graph[t].open, rows[t])]
    /\ feed' = {}
    /\ UNCHANGED <<graph, scan, tool, used, stray>>

\* #applyRows(): every reported task is upserted and marked dirty, or goes.
Delta ==
    /\ scan = NoScan /\ feed # {}
    /\ rows' = [t \in Tasks |->
                    IF t \notin feed THEN rows[t]
                    ELSE IF ~graph[t].here THEN deleteTask
                    ELSE [upsertTask(graph[t].open, rows[t]) EXCEPT !.marked = FALSE]]
    /\ feed' = {}
    /\ UNCHANGED <<graph, scan, tool, used, stray>>

\* resync(): the tasks go, their items stay behind; every task is reported anew.
Resync ==
    /\ Use("calls", MaxCalls)
    /\ rows' = [t \in Tasks |-> NoRow(rows[t].items)]
    /\ feed' = {t \in Tasks : graph[t].here}
    /\ UNCHANGED <<graph, scan, tool, stray>>

\* selectDueChecklistTasks(): open tasks without a marker.
Due == {t \in Tasks : rows[t].here /\ rows[t].open /\ ~rows[t].marked}

\* #runChecklistScanBatch() selects its tasks.
ScanBegin ==
    /\ scan = NoScan
    /\ \E due \in SUBSET Due \ {{}} :
        /\ Cardinality(due) = IF Cardinality(Due) < Max THEN Cardinality(Due) ELSE Max
        /\ scan' = [scan EXCEPT !.due = due]
    /\ UNCHANGED <<graph, feed, rows, tool, used, stray>>

\* One checklist is fetched.
ScanFetch(t) ==
    /\ t \in scan.due /\ scan.task = None /\ graph[t].here
    /\ scan' = [due |-> scan.due \ {t}, task |-> t, items |-> graph[t].items]
    /\ stray' = stray \ {t}
    /\ UNCHANGED <<graph, feed, rows, tool, used>>

\* That fails: the marker stays away.
ScanFails(t) ==
    /\ t \in scan.due /\ scan.task = None
    /\ IF graph[t].here THEN Use("faults", MaxFaults) ELSE UNCHANGED used
    /\ scan' = [scan EXCEPT !.due = @ \ {t}]
    /\ UNCHANGED <<graph, feed, rows, tool, stray>>

\* replaceChecklistItems(): items also land for a task without a row.
replaceChecklistItems(row, items) ==
    [row EXCEPT !.items = items, !.marked = @ \/ row.here,
                !.has = row.here /\ items # {}]

ScanStore ==
    /\ scan.task # None
    /\ rows' = [rows EXCEPT ![scan.task] = replaceChecklistItems(@, scan.items)]
    /\ scan' = [scan EXCEPT !.task = None, !.items = {}]
    /\ UNCHANGED <<graph, feed, tool, used, stray>>

-----------------------------------------------------------------------------
(* Other clients and the tools.                                             *)

\* A task is completed, reopened or deleted, an item comes or goes.
Edit(t) ==
    /\ graph[t].here /\ Use("edits", MaxEdits)
    /\ \E task \in {[graph[t] EXCEPT !.open = ~@], [graph[t] EXCEPT !.here = FALSE]}
                   \cup {[graph[t] EXCEPT !.items = @ \cup {i}] : i \in Items}
                   \cup {[graph[t] EXCEPT !.items = @ \ {i}] : i \in Items} :
          Change(t, task)
    /\ UNCHANGED <<rows, scan, tool, stray>>

\* A tool has changed a task or an item of it; its write-through is due.
Tool(t, i, kind) ==
    /\ tool = NoTool /\ graph[t].here /\ Use("calls", MaxCalls)
    /\ Change(t, CASE kind = "add"    -> [graph[t] EXCEPT !.items = @ \cup {i}]
                   [] kind = "remove" -> [graph[t] EXCEPT !.items = @ \ {i}]
                   [] kind = "update" -> [graph[t] EXCEPT !.open = ~@]
                   [] OTHER           -> [graph[t] EXCEPT !.here = FALSE])
    /\ tool' = [task |-> t, item |-> i, kind |-> kind, open |-> graph'[t].open]
    /\ UNCHANGED <<rows, scan, stray>>

\* The write-through: upsertChecklistItem(), deleteChecklistItem(),
\* upsertTask() with the answer's row, deleteTask(); the marker stays as it is.
Note ==
    /\ tool # NoTool
    /\ LET t == tool.task
           r == rows[t]
       IN  rows' = [rows EXCEPT ![t] =
               CASE tool.kind = "add" ->
                        [r EXCEPT !.items = @ \cup {tool.item}, !.has = r.here]
                 [] tool.kind = "remove" -> [r EXCEPT !.items = @ \ {tool.item}]
                 [] tool.kind = "update" -> upsertTask(tool.open, r)
                 [] OTHER -> deleteTask]
    /\ stray' = IF tool.task \in feed THEN stray ELSE stray \cup {tool.task}
    /\ tool' = NoTool
    /\ UNCHANGED <<graph, feed, scan, used>>

\* It fails; the tool answers ok all the same.
NoteFails ==
    /\ tool # NoTool /\ Use("faults", MaxFaults)
    /\ tool' = NoTool
    /\ UNCHANGED <<graph, feed, rows, scan, stray>>

Next == \/ Delta \/ Resync \/ ScanBegin \/ ScanStore \/ Note \/ NoteFails
        \/ \E t \in Tasks : ScanFetch(t)
        \/ \E t \in Tasks : ScanFails(t)
        \/ \E t \in Tasks : Edit(t)
        \/ \E t \in Tasks, i \in Items, k \in Kinds : Tool(t, i, k)

Spec == Init /\ [][Next]_vars

-----------------------------------------------------------------------------
(* Properties.                                                              *)

\* The marker says "nothing to fetch": a task that has it, and of which the
\* delta feed has nothing new, has the items and the flag of Graph, whatever
\* write-through came between the fetch and its storing, and whatever rows an
\* earlier resync left behind ("latency optimization, not correctness").  Wrong
\* is only what a write-through leaves that comes after the delta round which
\* reported its change, until the next fetch.
MarkedIsFresh ==
    \A t \in Tasks \ (feed \cup stray) :
        rows[t].here /\ rows[t].marked =>
            /\ rows[t].items = graph[t].items
            /\ rows[t].has <=> graph[t].items # {}
=============================================================================

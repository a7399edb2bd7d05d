------------------------------ MODULE ToolsProofs ------------------------------
(* What the Graph client, the tools and the caches promise, for any number   *)
(* of tasks, lists, parts, calls, changes and failures.                      *)
EXTENDS Tools, TLAPS

LEMMA Bounds ==
    /\ \A c \in Limited : MaxCalls[c] \in Nat /\ MaxFaults[c] \in Nat
    /\ \A c \in {"task", "checklist", "my_day"} : MaxEdits[c] \in Nat
BY ToolsAssumption

-----------------------------------------------------------------------------
(* A behaviour is of one component, and its steps are that component's.      *)

LEMMA Same == [Next]_vars => which' = which
BY DEF Next, vars, OnGraph, OnMove, OnTask, OnConfig, OnQuery, OnChecklist, OnMyDay,
       OnOrder

LEMMA ClientStep == ASSUME [Next]_vars, which = "client" PROVE [G!Next]_(G!vars)
<1>1. CASE Next
  BY <1>1 DEF Next, G!Next, OnGraph, OnMove, OnTask, OnConfig, OnQuery, OnChecklist, OnMyDay,
         OnOrder
<1>2. CASE UNCHANGED vars
  BY <1>2 DEF vars, G!vars
<1> QED BY <1>1, <1>2

LEMMA MoveStep == ASSUME [Next]_vars, which = "move" PROVE [M!Next]_(M!vars)
<1>1. CASE Next
  BY <1>1 DEF Next, M!Next, OnGraph, OnMove, OnTask, OnConfig, OnQuery, OnChecklist, OnMyDay,
         OnOrder
<1>2. CASE UNCHANGED vars
  BY <1>2 DEF vars, M!vars
<1> QED BY <1>1, <1>2

LEMMA TaskStep == ASSUME [Next]_vars, which = "task" PROVE [T!Next]_(T!vars)
<1>1. CASE Next
  BY <1>1 DEF Next, T!Next, OnGraph, OnMove, OnTask, OnConfig, OnQuery, OnChecklist, OnMyDay,
         OnOrder
<1>2. CASE UNCHANGED vars
  BY <1>2 DEF vars, T!vars
<1> QED BY <1>1, <1>2

LEMMA ConfigStep == ASSUME [Next]_vars, which = "config" PROVE [L!Next]_(L!vars)
<1>1. CASE Next
  BY <1>1 DEF Next, L!Next, OnGraph, OnMove, OnTask, OnConfig, OnQuery, OnChecklist, OnMyDay,
         OnOrder
<1>2. CASE UNCHANGED vars
  BY <1>2 DEF vars, L!vars
<1> QED BY <1>1, <1>2

LEMMA ChecklistStep == ASSUME [Next]_vars, which = "checklist" PROVE [C!Next]_(C!vars)
<1>1. CASE Next
  BY <1>1 DEF Next, C!Next, OnGraph, OnMove, OnTask, OnConfig, OnQuery, OnChecklist, OnMyDay,
         OnOrder
<1>2. CASE UNCHANGED vars
  BY <1>2 DEF vars, C!vars
<1> QED BY <1>1, <1>2

LEMMA MyDayStep == ASSUME [Next]_vars, which = "my_day" PROVE [D!Next]_(D!vars)
<1>1. CASE Next
  BY <1>1 DEF Next, D!Next, OnGraph, OnMove, OnTask, OnConfig, OnQuery, OnChecklist, OnMyDay,
         OnOrder
<1>2. CASE UNCHANGED vars
  BY <1>2 DEF vars, D!vars
<1> QED BY <1>1, <1>2

-----------------------------------------------------------------------------
(* The checklist cache.                                                      *)

ChecklistUsed == [edits : 0..MaxEdits["checklist"], calls : 0..MaxCalls["checklist"],
                  faults : 0..MaxFaults["checklist"]]

\* Of these tasks the index owes nothing to the feed and has no late write.
Told == Tasks \ (feed \cup since)

\* The index has no row of a task that is gone, once the feed has told so.
NoGhostRow == \A t \in Told : index[t].here => graph[t].here

\* A task whose checklist is still to be fetched has no marker meanwhile.
DueUnmarked == /\ scan.task \notin scan.due
               /\ \A t \in Tasks : t \in scan.due => ~index[t].marked

\* The answer to a fetch is Graph's until the feed has news of the task; of a
\* task that was deleted since it is not said.
FetchIsFresh ==
    \A t \in Told :
        scan.task = t /\ graph[t].here => scan.items = graph[t].items

Checklist == C!TypeOK /\ NoGhostRow /\ DueUnmarked /\ FetchIsFresh /\ C!MarkedIsFresh

-----------------------------------------------------------------------------
(* Type correctness.                                                        *)

LEMMA UpsertType ==
    ASSUME NEW open \in BOOLEAN, NEW row \in C!RowOf
    PROVE  C!upsertTask(open, row) \in C!RowOf
BY DEF C!RowOf, C!upsertTask

LEMMA ChecklistUse ==
    ASSUME C!TypeOK,
           \/ C!Use("edits", MaxEdits["checklist"])
           \/ C!Use("calls", MaxCalls["checklist"])
           \/ C!Use("faults", MaxFaults["checklist"])
    PROVE  used' \in ChecklistUsed
BY Bounds DEF Limited, C!TypeOK, C!Use, ChecklistUsed

LEMMA ChecklistType ==
    ASSUME C!TypeOK, [C!Next]_(C!vars)
    PROVE  C!TypeOK'
<1>1. CASE C!Delta
  <2>1. ASSUME NEW t \in Tasks
        PROVE  (IF t \notin feed THEN index[t]
                ELSE IF ~graph[t].here THEN C!deleteTask
                ELSE [C!upsertTask(graph[t].open, index[t]) EXCEPT !.marked = FALSE]) \in C!RowOf
    <3>0. index[t] \in C!RowOf /\ graph[t].open \in BOOLEAN
      BY DEF C!TypeOK, C!TaskOf
    <3>1. C!upsertTask(graph[t].open, index[t]) \in C!RowOf /\ index[t] \in C!RowOf
      BY <3>0, UpsertType
    <3>2. [C!upsertTask(graph[t].open, index[t]) EXCEPT !.marked = FALSE] \in C!RowOf
      BY <3>1 DEF C!RowOf
    <3> QED BY <3>1, <3>2 DEF C!deleteTask, C!NoRow, C!RowOf
  <2>2. index' \in [Tasks -> C!RowOf]
    BY <1>1, <2>1 DEF C!Delta
  <2> QED BY <1>1, <2>2 DEF C!Delta, C!TypeOK
<1>2. CASE C!Resync
  <2>1. index' \in [Tasks -> C!RowOf]
    BY <1>2 DEF C!Resync, C!NoRow, C!RowOf, C!TypeOK
  <2> QED BY <1>2, <2>1, ChecklistUse DEF C!Resync, C!TypeOK, ChecklistUsed
<1>3. CASE C!ScanBegin
  BY <1>3 DEF C!ScanBegin, C!Due, C!TypeOK
<1>4. CASE C!ScanStore
  <2>1. scan.task \in Tasks /\ index[scan.task] \in C!RowOf
    BY <1>4 DEF C!ScanStore, C!TypeOK
  <2>2. C!replaceChecklistItems(index[scan.task], scan.items) \in C!RowOf
    BY <2>1 DEF C!replaceChecklistItems, C!RowOf, C!TypeOK
  <2>3. index' \in [Tasks -> C!RowOf]
    BY <1>4, <2>2 DEF C!ScanStore, C!TypeOK
  <2> QED BY <1>4, <2>3 DEF C!ScanStore, C!TypeOK
<1>5. CASE C!Note
  <2> DEFINE t == call.task
             r == index[t]
             new == CASE call.kind = "add" ->
                             [r EXCEPT !.items = @ \cup {call.item}, !.has = r.here]
                      [] call.kind = "remove" -> [r EXCEPT !.items = @ \ {call.item}]
                      [] call.kind = "update" -> C!upsertTask(call.open, r)
                      [] OTHER -> C!deleteTask
  <2>1. index' = [index EXCEPT ![t] = new] /\ call' = C!NoTool /\ UNCHANGED <<graph, feed, scan, used>>
    BY <1>5 DEF C!Note
  <2>2. ASSUME t \in Tasks PROVE new \in C!RowOf
    <3>0. r \in C!RowOf /\ call.open \in BOOLEAN
      BY <1>5, <2>2 DEF C!Note, C!TypeOK
    <3>1. r \in C!RowOf /\ C!upsertTask(call.open, r) \in C!RowOf /\ C!deleteTask \in C!RowOf
      BY <3>0, UpsertType DEF C!deleteTask, C!NoRow, C!RowOf
    <3>2. CASE call.kind = "add"
      <4>1. [r EXCEPT !.items = @ \cup {call.item}, !.has = r.here] \in C!RowOf
        <5>1. call.item \in Items
          BY <1>5 DEF C!Note, C!TypeOK
        <5> QED BY <3>1, <5>1 DEF C!RowOf
      <4> QED BY <3>2, <4>1
    <3>3. CASE call.kind = "remove"
      <4>1. [r EXCEPT !.items = @ \ {call.item}] \in C!RowOf
        BY <3>1 DEF C!RowOf
      <4> QED BY <3>3, <4>1
    <3> QED BY <3>1, <3>2, <3>3
  <2>3. index' \in [Tasks -> C!RowOf]
    BY <2>1, <2>2 DEF C!TypeOK
  <2>4. since' \subseteq Tasks
    BY <1>5 DEF C!Note, C!TypeOK
  <2> QED BY <2>1, <2>3, <2>4 DEF C!TypeOK, C!NoTool
<1>6. CASE C!NoteFails
  BY <1>6, ChecklistUse DEF C!NoteFails, C!TypeOK, ChecklistUsed, C!NoTool
<1>7. ASSUME NEW t \in Tasks, C!ScanFetch(t) PROVE C!TypeOK'
  BY <1>7 DEF C!ScanFetch, C!TypeOK, C!TaskOf
<1>8. ASSUME NEW t \in Tasks, C!ScanFails(t) PROVE C!TypeOK'
  BY <1>8, ChecklistUse DEF C!ScanFails, C!TypeOK, ChecklistUsed
<1>9. ASSUME NEW t \in Tasks, C!Edit(t) PROVE C!TypeOK'
  <2>1. PICK task \in {[graph[t] EXCEPT !.open = ~@], [graph[t] EXCEPT !.here = FALSE]}
                   \cup {[graph[t] EXCEPT !.items = @ \cup {i}] : i \in Items}
                   \cup {[graph[t] EXCEPT !.items = @ \ {i}] : i \in Items} :
           C!Change(t, task)
    BY <1>9 DEF C!Edit
  <2>2. task \in C!TaskOf
    <3>1. graph[t] \in C!TaskOf
      BY DEF C!TypeOK
    <3>2. /\ [graph[t] EXCEPT !.open = ~@] \in C!TaskOf
          /\ [graph[t] EXCEPT !.here = FALSE] \in C!TaskOf
      BY <3>1 DEF C!TaskOf
    <3>3. \A i \in Items : /\ [graph[t] EXCEPT !.items = @ \cup {i}] \in C!TaskOf
                          /\ [graph[t] EXCEPT !.items = @ \ {i}] \in C!TaskOf
      BY <3>1 DEF C!TaskOf
    <3> QED BY <2>1, <3>2, <3>3
  <2> QED BY <1>9, <2>1, <2>2, ChecklistUse DEF C!Edit, C!Change, C!TypeOK, ChecklistUsed
<1>10. ASSUME NEW t \in Tasks, NEW i \in Items, NEW k \in C!Kinds, C!Tool(t, i, k) PROVE C!TypeOK'
  <2>1. PICK task \in C!TaskOf : C!Change(t, task)
    BY <1>10 DEF C!Tool, C!TypeOK, C!TaskOf
  <2>2. call' = [task |-> t, item |-> i, kind |-> k, open |-> graph'[t].open]
    BY <1>10 DEF C!Tool
  <2>4. graph' \in [Tasks -> C!TaskOf] /\ feed' \subseteq Tasks
    BY <2>1 DEF C!Change, C!TypeOK
  <2>3. call' \in [task : Tasks, item : Items, kind : C!Kinds, open : BOOLEAN]
    BY <2>2, <2>4 DEF C!TaskOf
  <2>5. used' \in ChecklistUsed
    BY <1>10, ChecklistUse DEF C!Tool
  <2>6. UNCHANGED <<index, scan, since>>
    BY <1>10 DEF C!Tool
  <2> QED BY <2>3, <2>4, <2>5, <2>6 DEF C!TypeOK, ChecklistUsed
<1>11. CASE UNCHANGED C!vars
  BY <1>11 DEF C!vars, C!TypeOK
<1> QED BY <1>1, <1>2, <1>3, <1>4, <1>5, <1>6, <1>7, <1>8, <1>9, <1>10, <1>11 DEF C!Next

-----------------------------------------------------------------------------
(* The marker.                                                              *)

LEMMA ChecklistInit == C!Init => Checklist
<1> SUFFICES ASSUME C!Init PROVE Checklist
  OBVIOUS
<1>1. C!TypeOK
  <2>1. graph \in [Tasks -> C!TaskOf]
    <3>1. [here : {TRUE}, open : BOOLEAN, items : SUBSET Items] \subseteq C!TaskOf
      BY DEF C!TaskOf
    <3> QED BY <3>1 DEF C!Init
  <2>2. index \in [Tasks -> C!RowOf]
    BY DEF C!Init, C!NoRow, C!RowOf
  <2>3. /\ feed \subseteq Tasks /\ call = C!NoTool
        /\ scan \in [due : SUBSET Tasks, task : Tasks \cup {None}, items : SUBSET Items]
        /\ used \in ChecklistUsed /\ since \subseteq Tasks
    BY Bounds DEF Limited, C!Init, C!NoScan, ChecklistUsed
  <2> QED BY <2>1, <2>2, <2>3 DEF C!TypeOK, ChecklistUsed
<1> QED BY <1>1, ToolsAssumption DEF C!Init, C!NoScan, Checklist, NoGhostRow, DueUnmarked,
       FetchIsFresh, C!MarkedIsFresh, Told

\* A task that changes in Graph is in the feed, whatever was said of it.
LEMMA ChangeKeeps ==
    ASSUME Checklist, NEW t \in Tasks, NEW task, C!Change(t, task), UNCHANGED <<index, scan, since>>
    PROVE  (NoGhostRow /\ DueUnmarked /\ FetchIsFresh /\ C!MarkedIsFresh)'
<1>1. feed' = feed \cup {t} /\ \A u \in Tasks : u # t => graph'[u] = graph[u]
  BY DEF C!Change, Checklist, C!TypeOK
<1> QED BY <1>1 DEF Checklist, NoGhostRow, DueUnmarked, FetchIsFresh, C!MarkedIsFresh, Told

LEMMA ChecklistNext ==
    ASSUME Checklist, [C!Next]_(C!vars)
    PROVE  Checklist'
<1> USE ToolsAssumption DEF Checklist
<1>0. C!TypeOK'
  BY ChecklistType
<1>1. CASE C!Delta
  <2>1. /\ feed' = {} /\ scan.task = None /\ scan.due = {}
        /\ UNCHANGED <<graph, scan, call, since>>
    BY <1>1 DEF C!Delta, C!NoScan
  <2>2. ASSUME NEW t \in Tasks, t \in feed
        PROVE  /\ index'[t].here => graph[t].here
               /\ ~index'[t].marked
    <3>1. index[t] \in C!RowOf
      BY DEF C!TypeOK
    <3>2. CASE ~graph[t].here
      <4>1. index'[t] = C!deleteTask
        BY <1>1, <2>2, <3>2 DEF C!Delta
      <4> QED BY <4>1 DEF C!deleteTask, C!NoRow
    <3>3. CASE graph[t].here
      <4>1. index'[t] = [C!upsertTask(graph[t].open, index[t]) EXCEPT !.marked = FALSE]
        BY <1>1, <2>2, <3>3 DEF C!Delta
      <4> QED BY <3>1, <3>3, <4>1 DEF C!upsertTask, C!RowOf
    <3> QED BY <3>2, <3>3
  <2>3. ASSUME NEW t \in Tasks, t \notin feed PROVE index'[t] = index[t]
    BY <1>1, <2>3 DEF C!Delta
  <2>4. NoGhostRow' /\ DueUnmarked' /\ FetchIsFresh'
    BY <2>1, <2>2, <2>3 DEF NoGhostRow, DueUnmarked, FetchIsFresh, Told
  <2>5. C!MarkedIsFresh'
    BY <2>1, <2>2, <2>3 DEF C!MarkedIsFresh
  <2> QED BY <1>0, <2>4, <2>5
<1>2. CASE C!Resync
  <2>1. /\ \A t \in Tasks : ~index'[t].here /\ ~index'[t].marked
        /\ feed' = {t \in Tasks : graph[t].here}
        /\ UNCHANGED <<graph, scan, since>>
    BY <1>2 DEF C!Resync, C!NoRow
  <2>2. NoGhostRow' /\ DueUnmarked' /\ C!MarkedIsFresh'
    BY <2>1 DEF NoGhostRow, DueUnmarked, C!MarkedIsFresh, Told
  <2>3. FetchIsFresh'
    BY <2>1 DEF FetchIsFresh, Told
  <2> QED BY <1>0, <2>2, <2>3
<1>3. CASE C!ScanBegin
  <2>1. PICK due \in SUBSET C!Due : scan' = [scan EXCEPT !.due = due]
    BY <1>3 DEF C!ScanBegin
  <2>2. scan'.task = None /\ scan'.due = due /\ UNCHANGED <<graph, feed, index, since>>
    BY <1>3, <2>1 DEF C!ScanBegin, C!NoScan
  <2>3. DueUnmarked'
    BY <2>2 DEF DueUnmarked, C!Due
  <2> QED BY <1>0, <2>2, <2>3 DEF NoGhostRow, FetchIsFresh, C!MarkedIsFresh, Told
<1>4. CASE C!ScanStore
  <2>1. /\ scan.task \in Tasks /\ scan'.task = None /\ scan'.due = scan.due
        /\ UNCHANGED <<graph, feed, since>>
        /\ index' = [index EXCEPT ![scan.task] = C!replaceChecklistItems(index[scan.task], scan.items)]
    BY <1>4 DEF C!ScanStore, C!TypeOK
  <2>2. \A t \in Tasks : t # scan.task => index'[t] = index[t]
    BY <2>1 DEF C!TypeOK
  <2>3. /\ index'[scan.task].items = scan.items
        /\ index'[scan.task].here = index[scan.task].here
        /\ index'[scan.task].has = (index[scan.task].here /\ scan.items # {})
    <3>1. index[scan.task] \in C!RowOf /\ index'[scan.task] = C!replaceChecklistItems(index[scan.task], scan.items)
      BY <2>1 DEF C!TypeOK
    <3> QED BY <3>1 DEF C!replaceChecklistItems, C!RowOf
  <2>4. NoGhostRow'
    BY <2>1, <2>2, <2>3 DEF NoGhostRow, Told
  <2>5. FetchIsFresh'
    BY <2>1 DEF FetchIsFresh, Told
  <2>6. ASSUME NEW t \in Told, index'[t].here, index'[t].marked
        PROVE  index'[t].items = graph[t].items /\ (index'[t].has <=> graph[t].items # {})
    <3>1. CASE t = scan.task
      <4>1. graph[t].here /\ scan.items = graph[t].items
        BY <2>3, <2>6, <3>1 DEF NoGhostRow, FetchIsFresh, Told
      <4> QED BY <2>3, <2>6, <3>1, <4>1
    <3>2. CASE t # scan.task
      BY <2>2, <2>6, <3>2 DEF C!MarkedIsFresh, Told
    <3> QED BY <3>1, <3>2
  <2>7. DueUnmarked'
    BY <2>1, <2>2 DEF DueUnmarked, C!TypeOK
  <2> QED BY <1>0, <2>1, <2>4, <2>5, <2>6, <2>7 DEF C!MarkedIsFresh, Told
<1>5. CASE C!Note
  <2> DEFINE u == call.task
             r == index[u]
  <2>1. /\ u \in Tasks /\ u \in feed \cup since'
        /\ since' \subseteq since \cup {u} /\ since \subseteq since'
        /\ UNCHANGED <<graph, feed, scan>>
        /\ \A t \in Tasks : t # u => index'[t] = index[t]
    BY <1>5 DEF C!Note, C!TypeOK
  <2>2. r.marked = FALSE => index'[u].marked = FALSE
    <3>1. r \in C!RowOf
      BY <2>1 DEF C!TypeOK
    <3>2. index'[u] \in {[r EXCEPT !.items = @ \cup {call.item}, !.has = r.here],
                         [r EXCEPT !.items = @ \ {call.item}],
                         C!upsertTask(call.open, r), C!deleteTask}
      BY <1>5, <2>1 DEF C!Note, C!TypeOK
    <3>3. CASE index'[u] = [r EXCEPT !.items = @ \cup {call.item}, !.has = r.here]
      BY <3>1, <3>3 DEF C!RowOf
    <3>4. CASE index'[u] = [r EXCEPT !.items = @ \ {call.item}]
      BY <3>1, <3>4 DEF C!RowOf
    <3>5. CASE index'[u] = C!upsertTask(call.open, r)
      BY <3>1, <3>5 DEF C!RowOf, C!upsertTask
    <3>6. CASE index'[u] = C!deleteTask
      BY <3>6 DEF C!deleteTask, C!NoRow
    <3> QED BY <3>2, <3>3, <3>4, <3>5, <3>6
  <2>3. DueUnmarked'
    <3>1. \A t \in Tasks : index[t].marked \in BOOLEAN
      BY DEF C!TypeOK, C!RowOf
    <3> QED BY <2>1, <2>2, <3>1 DEF DueUnmarked
  <2> QED BY <1>0, <2>1, <2>3 DEF NoGhostRow, FetchIsFresh, C!MarkedIsFresh, Told
<1>6. CASE C!NoteFails
  BY <1>0, <1>6 DEF C!NoteFails, NoGhostRow, DueUnmarked, FetchIsFresh, C!MarkedIsFresh, Told
<1>7. ASSUME NEW t \in Tasks, C!ScanFetch(t) PROVE Checklist'
  <2>1. /\ scan'.task = t /\ scan'.items = graph[t].items /\ scan'.due = scan.due \ {t}
        /\ since' = since \ {t} /\ UNCHANGED <<graph, feed, index>>
        /\ graph[t].here /\ t \in scan.due
    BY <1>7 DEF C!ScanFetch
  <2>2. ~index[t].marked
    BY <2>1 DEF DueUnmarked
  <2> QED BY <1>0, <2>1, <2>2 DEF NoGhostRow, DueUnmarked, FetchIsFresh, C!MarkedIsFresh, Told
<1>8. ASSUME NEW t \in Tasks, C!ScanFails(t) PROVE Checklist'
  <2>1. /\ scan'.task = scan.task /\ scan'.items = scan.items /\ scan'.due \subseteq scan.due
        /\ UNCHANGED <<graph, feed, index, since>>
    BY <1>8 DEF C!ScanFails, C!TypeOK
  <2> QED BY <1>0, <2>1 DEF NoGhostRow, DueUnmarked, FetchIsFresh, C!MarkedIsFresh, Told
<1>9. ASSUME NEW t \in Tasks, C!Edit(t) PROVE Checklist'
  <2>1. PICK task : C!Change(t, task)
    BY <1>9 DEF C!Edit
  <2>2. UNCHANGED <<index, scan, since>>
    BY <1>9 DEF C!Edit
  <2> QED BY <1>0, <2>1, <2>2, ChangeKeeps
<1>10. ASSUME NEW t \in Tasks, NEW i \in Items, NEW k \in C!Kinds, C!Tool(t, i, k) PROVE Checklist'
  <2>1. PICK task : C!Change(t, task)
    BY <1>10 DEF C!Tool
  <2>2. UNCHANGED <<index, scan, since>>
    BY <1>10 DEF C!Tool
  <2> QED BY <1>0, <2>1, <2>2, ChangeKeeps
<1>11. CASE UNCHANGED C!vars
  BY <1>0, <1>11 DEF C!vars, NoGhostRow, DueUnmarked, FetchIsFresh, C!MarkedIsFresh, Told
<1> QED BY <1>1, <1>2, <1>3, <1>4, <1>5, <1>6, <1>7, <1>8, <1>9, <1>10, <1>11 DEF C!Next

\* A task whose marker says "nothing to fetch", and of which the delta feed has
\* nothing new, has the checklist of Graph, however fetches, tools, other
\* clients, delta rounds and resyncs overtake each other: but for what a
\* write-through leaves that comes after the delta round which reported its
\* change, and only until the task's next fetch.
THEOREM MarkerNeverLies == Spec => []MarkedIsFresh
<1> DEFINE I == which = "checklist" => Checklist
<1>1. Init => I
  BY ChecklistInit DEF Init
<1>2. I /\ [Next]_vars => I'
  BY Same, ChecklistNext, ChecklistStep
<1>3. I => MarkedIsFresh
  BY DEF Checklist, MarkedIsFresh
<1> QED BY <1>1, <1>2, <1>3, PTL DEF Spec

-----------------------------------------------------------------------------
(* The retries of a request.                                                 *)

ClientCall ==
    [pc : {"sent", "answered", "ok", "failed", "reauth"}, kind : {"read", "write"},
     max : Nat, page : Nat, retried401 : BOOLEAN, retried429 : Nat,
     answer : {"none", "2xx", "401", "429", "claims", "4xx", "5xx"}]
ClientTypes ==
    /\ call \in ClientCall
    /\ used \in [expired : Nat, throttled : Nat, fatal : Nat]
    /\ graph \in Nat

\* How often the current request was sent again, for either reason, is what it
\* met so far, and it met nothing that no retry is for.
Counted(expired, throttled) ==
    /\ used.fatal = 0
    /\ used.expired = expired + (IF call.retried401 THEN 1 ELSE 0)
    /\ used.throttled = throttled + call.retried429

\* What is still to be sent, or was refused, has not been carried out.
Client ==
    /\ ClientTypes
    /\ call.retried429 <= call.max
    /\ call.pc = "sent" => graph = 0 /\ Counted(0, 0)
    /\ call.pc = "answered" =>
        /\ call.answer # "none"
        /\ call.answer = "401" => graph = 0 /\ Counted(1, 0)
        /\ call.answer = "429" => graph = 0 /\ Counted(0, 1)
        /\ call.answer \in {"claims", "4xx"} => graph = 0
        /\ call.answer \in {"claims", "4xx", "5xx"} => used.fatal = 1
    /\ G!AtMostOnce /\ G!Absorbs /\ G!WholeCollection

LEMMA ClientInit == G!Init => Client
BY ToolsAssumption DEF G!Init, G!Nothing, Client, ClientTypes, ClientCall, Counted, G!AtMostOnce,
       G!Absorbs, G!WholeCollection

LEMMA ClientTypesNext == ASSUME ClientTypes, [G!Next]_(G!vars) PROVE ClientTypes'
<1> USE DEF ClientTypes, ClientCall
<1>1. CASE G!Serve \/ G!Expired \/ G!Throttle \/ G!Refuse \/ G!Break
  <2>1. PICK a \in {"2xx", "401", "429", "claims", "4xx", "5xx"}, b \in BOOLEAN,
             what \in {"nothing", "expired", "throttled", "fatal"} : G!Answer(a, b, what)
    BY <1>1 DEF G!Serve, G!Expired, G!Throttle, G!Refuse, G!Break
  <2>2. call' \in ClientCall
    BY <2>1 DEF G!Answer
  <2>3. used' \in [expired : Nat, throttled : Nat, fatal : Nat] /\ graph' \in Nat
    BY <2>1 DEF G!Answer
  <2> QED BY <2>2, <2>3
<1>2. CASE G!Retry
  <2> DEFINE b == call.retried401 \/ call.answer = "401"
             n == IF call.answer = "401" THEN call.retried429 ELSE call.retried429 + 1
  <2>1. call' = [call EXCEPT !.pc = "sent", !.retried401 = b, !.retried429 = n]
        /\ UNCHANGED <<graph, used>>
    BY <1>2 DEF G!Retry
  <2>2. b \in BOOLEAN /\ n \in Nat
    OBVIOUS
  <2> HIDE DEF b, n
  <2> QED BY <2>1, <2>2
<1>3. CASE G!RefreshFails \/ G!Unreadable
  BY <1>3 DEF G!RefreshFails, G!Unreadable
<1>4. CASE G!GiveUp \/ G!Finish
  <2>1. PICK pc \in {"ok", "failed", "reauth"} : G!Ended(pc)
    BY <1>4 DEF G!GiveUp, G!Finish
  <2> QED BY <2>1 DEF G!Ended
<1>5. CASE G!NextPage
  <2>1. call.page + 1 \in Nat /\ FALSE \in BOOLEAN /\ 0 \in Nat
    OBVIOUS
  <2>2. call' = [call EXCEPT !.pc = "sent", !.page = call.page + 1, !.retried401 = FALSE,
                             !.retried429 = 0]
    BY <1>5 DEF G!NextPage
  <2>3. graph' \in Nat /\ used' \in [expired : Nat, throttled : Nat, fatal : Nat]
    BY <1>5 DEF G!NextPage, G!Nothing
  <2>4. call' \in ClientCall
    BY <2>1, <2>2, Zenon
  <2> QED BY <2>3, <2>4
<1>6. CASE UNCHANGED G!vars
  BY <1>6 DEF G!vars
<1> QED BY <1>1, <1>2, <1>3, <1>4, <1>5, <1>6 DEF G!Next

\* An answer that is not 2xx leaves the request's counters alone.
LEMMA Answered ==
    ASSUME Client, NEW a \in {"401", "429", "claims", "4xx", "5xx"}, NEW b \in BOOLEAN,
           NEW what \in {"expired", "throttled", "fatal"}, G!Answer(a, b, what)
    PROVE  /\ graph = 0 /\ Counted(0, 0)
           /\ call'.pc = "answered" /\ call'.answer = a
           /\ call'.retried401 = call.retried401 /\ call'.retried429 = call.retried429
           /\ call'.max = call.max
           /\ used' = [used EXCEPT ![what] = @ + 1]
           /\ graph' \in {0, 1} /\ (~b => graph' = 0)
<1>1. call.pc = "sent" /\ graph = 0 /\ Counted(0, 0)
  BY DEF Client, G!Answer
<1> QED BY <1>1 DEF Client, ClientTypes, ClientCall, G!Answer

LEMMA ClientNext == ASSUME Client, [G!Next]_(G!vars) PROVE Client'
<1>0. ClientTypes /\ ClientTypes'
  BY ClientTypesNext DEF Client
<1> USE DEF Client, Counted, G!AtMostOnce, G!Absorbs, G!WholeCollection
<1>1. CASE G!Serve
  <2>1. /\ call.pc = "sent" /\ call'.pc = "answered" /\ call'.answer = "2xx"
        /\ call'.retried429 = call.retried429 /\ call'.max = call.max
        /\ used' = used /\ graph' = graph + 1
    BY <1>0, <1>1 DEF G!Serve, G!Answer, ClientTypes, ClientCall
  <2> QED BY <1>0, <2>1
<1>2. CASE G!Expired
  <2>1. /\ Counted(0, 0) /\ call'.pc = "answered" /\ call'.answer = "401" /\ graph' = 0
        /\ call'.retried401 = call.retried401 /\ call'.retried429 = call.retried429
        /\ call'.max = call.max /\ used' = [used EXCEPT !.expired = @ + 1]
    BY <1>2, Answered DEF G!Expired
  <2> QED BY <1>0, <2>1 DEF ClientTypes, ClientCall
<1>3. CASE G!Throttle
  <2>1. /\ Counted(0, 0) /\ call'.pc = "answered" /\ call'.answer = "429" /\ graph' = 0
        /\ call'.retried401 = call.retried401 /\ call'.retried429 = call.retried429
        /\ call'.max = call.max /\ used' = [used EXCEPT !.throttled = @ + 1]
    BY <1>3, Answered DEF G!Throttle
  <2> QED BY <1>0, <2>1 DEF ClientTypes, ClientCall
<1>4. CASE G!Refuse
  <2>1. PICK a \in {"4xx", "claims"} : G!Answer(a, FALSE, "fatal")
    BY <1>4 DEF G!Refuse
  <2>2. /\ Counted(0, 0) /\ call'.pc = "answered" /\ call'.answer = a /\ graph' = 0
        /\ call'.retried401 = call.retried401 /\ call'.retried429 = call.retried429
        /\ call'.max = call.max /\ used' = [used EXCEPT !.fatal = @ + 1]
    BY <2>1, Answered
  <2> QED BY <1>0, <2>2 DEF ClientTypes, ClientCall
<1>5. CASE G!Break
  <2>1. PICK b \in BOOLEAN : G!Answer("5xx", b, "fatal")
    BY <1>5 DEF G!Break
  <2>2. /\ Counted(0, 0) /\ call'.pc = "answered" /\ call'.answer = "5xx" /\ graph' \in {0, 1}
        /\ call'.retried401 = call.retried401 /\ call'.retried429 = call.retried429
        /\ call'.max = call.max /\ used' = [used EXCEPT !.fatal = @ + 1]
    BY <2>1, Answered
  <2> QED BY <1>0, <2>2 DEF ClientTypes, ClientCall
<1>6. CASE G!Retry
  <2>1. /\ call.pc = "answered" /\ call'.pc = "sent" /\ UNCHANGED <<graph, used>>
        /\ call'.max = call.max /\ graph = 0
    BY <1>0, <1>6 DEF G!Retry, G!Again, ClientTypes, ClientCall
  <2>2. CASE call.answer = "401"
    <3>1. ~call.retried401 /\ call'.retried401 /\ call'.retried429 = call.retried429
      BY <1>0, <1>6, <2>2 DEF G!Retry, G!Again, ClientTypes, ClientCall
    <3> QED BY <1>0, <2>1, <2>2, <3>1 DEF ClientTypes, ClientCall
  <2>3. CASE call.answer = "429"
    <3>1. /\ call'.retried401 = call.retried401 /\ call.retried429 < call.max
          /\ call'.retried429 = call.retried429 + 1
      BY <1>0, <1>6, <2>3 DEF G!Retry, G!Again, ClientTypes, ClientCall
    <3> QED BY <1>0, <2>1, <2>3, <3>1 DEF ClientTypes, ClientCall
  <2> QED BY <1>6, <2>2, <2>3 DEF G!Retry, G!Again
<1>7. CASE G!RefreshFails
  <2>1. /\ call.pc = "answered" /\ call.answer = "401" /\ call'.pc = "failed" /\ graph' = graph
        /\ call'.retried429 = call.retried429 /\ call'.max = call.max
        /\ used' = [used EXCEPT !.fatal = @ + 1]
    BY <1>0, <1>7 DEF G!RefreshFails, ClientTypes, ClientCall
  <2> QED BY <1>0, <2>1 DEF ClientTypes, ClientCall
<1>8. CASE G!GiveUp
  <2>1. /\ call.pc = "answered" /\ call'.pc \in {"failed", "reauth"} /\ UNCHANGED <<graph, used>>
        /\ call'.retried429 = call.retried429 /\ call'.max = call.max
        /\ call'.answer = call.answer /\ ~G!Again /\ call.answer # "2xx"
    BY <1>0, <1>8 DEF G!GiveUp, G!Ended, ClientTypes, ClientCall
  <2>2. used.fatal > 0 \/ used.expired > 1 \/ used.throttled > call.max
    BY <1>0, <2>1 DEF G!Again, ClientTypes, ClientCall
  <2>3. call.answer # "5xx" => graph = 0
    BY <1>0, <2>1 DEF ClientTypes, ClientCall
  <2> QED BY <1>0, <2>1, <2>2, <2>3
<1>9. CASE G!NextPage
  <2>1. /\ call'.pc = "sent" /\ ~call'.retried401 /\ call'.retried429 = 0
        /\ call'.max = call.max /\ graph' = 0 /\ used' = G!Nothing
    BY <1>0, <1>9 DEF G!NextPage, ClientTypes, ClientCall
  <2> QED BY <1>0, <2>1 DEF G!Nothing, ClientTypes, ClientCall
<1>10. CASE G!Finish
  <2>1. /\ call.pc = "answered" /\ call'.pc = "ok" /\ UNCHANGED <<graph, used>>
        /\ call'.retried429 = call.retried429 /\ call'.max = call.max
        /\ call'.kind = call.kind /\ call'.page = call.page /\ G!LastPage
    BY <1>0, <1>10 DEF G!Finish, G!Ended, ClientTypes, ClientCall
  <2> QED BY <1>0, <2>1 DEF G!LastPage, ClientTypes, ClientCall
<1>11. CASE G!Unreadable
  <2>1. /\ call.pc = "answered" /\ call.answer = "2xx" /\ call'.pc = "failed" /\ graph' = graph
        /\ call'.retried429 = call.retried429 /\ call'.max = call.max
        /\ call'.answer = call.answer /\ used' = [used EXCEPT !.fatal = @ + 1]
    BY <1>0, <1>11 DEF G!Unreadable, ClientTypes, ClientCall
  <2> QED BY <1>0, <2>1 DEF ClientTypes, ClientCall
<1>12. CASE UNCHANGED G!vars
  BY <1>0, <1>12 DEF G!vars
<1> QED BY <1>1, <1>2, <1>3, <1>4, <1>5, <1>6, <1>7, <1>8, <1>9, <1>10, <1>11, <1>12 DEF G!Next

\* No retry of the Graph or Substrate client carries a write out twice, an
\* expired token and a throttle are absorbed in one request in any order, and a
\* read that answers has every page: for any retry budgets and any number of
\* pages and refusals.
THEOREM RetriesAreSafe == Spec => []Retries
<1> DEFINE I == which = "client" => Client
<1>1. Init => I
  BY ClientInit DEF Init
<1>2. I /\ [Next]_vars => I'
  BY Same, ClientNext, ClientStep
<1>3. I => Retries
  BY DEF Client, Retries
<1> QED BY <1>1, <1>2, <1>3, PTL DEF Spec

-----------------------------------------------------------------------------
(* My Day.                                                                   *)

MyDayTypes ==
    /\ index \in [Lists -> BOOLEAN \cup {None}]
    /\ DOMAIN scan = {"due", "list", "seen", "moved"}
    /\ scan.seen \in BOOLEAN /\ scan.moved \in BOOLEAN /\ call.day \in BOOLEAN

\* What a fetch has seen is Exchange's, or the list changed since and is noted.
FetchIsTrue ==
    scan.list # None =>
        IF scan.moved THEN scan.list \in since ELSE scan.seen = (scan.list \in graph)

MyDayOk == MyDayTypes /\ FetchIsTrue /\ D!WrongOnlySinceScan

LEMMA MyDayInit == D!Init => MyDayOk
<1> SUFFICES ASSUME D!Init PROVE MyDayOk
  OBVIOUS
<1>1. MyDayTypes
  BY DEF D!Init, D!NoScan, D!NoTool, MyDayTypes
<1>2. FetchIsTrue /\ D!WrongOnlySinceScan
  BY DEF D!Init, D!NoScan, FetchIsTrue, D!WrongOnlySinceScan
<1> QED BY <1>1, <1>2 DEF MyDayOk

\* A change in Exchange concerns no list that is not noted after it.
LEMMA ChangeIsNoted ==
    ASSUME MyDayOk, NEW l, NEW day, D!Change(l, day), index' = index
    PROVE  (D!WrongOnlySinceScan /\ FetchIsTrue)' /\ scan'.moved \in BOOLEAN
           /\ DOMAIN scan' = DOMAIN scan /\ scan'.seen = scan.seen
<1> DEFINE moved == scan.moved \/ scan.list = l
<1>1. /\ since' = since \cup {l} /\ \A k : k # l => (k \in graph' <=> k \in graph)
      /\ scan' = [scan EXCEPT !.moved = moved]
  BY DEF D!Change
<1>2. /\ scan'.list = scan.list /\ scan'.seen = scan.seen /\ DOMAIN scan' = DOMAIN scan
      /\ scan'.moved = moved
  <2>1. "moved" \in DOMAIN scan
    BY DEF MyDayOk, MyDayTypes
  <2> HIDE DEF moved
  <2> QED BY <1>1, <2>1
<1>3. FetchIsTrue'
  <2>1. ASSUME scan.list # None, moved PROVE scan.list \in since'
    BY <1>1, <2>1 DEF MyDayOk, FetchIsTrue
  <2>2. ASSUME scan.list # None, ~moved PROVE scan.seen = (scan.list \in graph')
    <3>1. scan.list # l /\ scan.seen = (scan.list \in graph)
      BY <2>2 DEF MyDayOk, FetchIsTrue
    <3> QED BY <1>1, <3>1
  <2> HIDE DEF moved
  <2> QED BY <1>2, <2>1, <2>2, Zenon DEF FetchIsTrue
<1>4. D!WrongOnlySinceScan'
  BY <1>1 DEF MyDayOk, D!WrongOnlySinceScan, D!list_my_day_tasks
<1> QED BY <1>2, <1>3, <1>4

LEMMA MyDayNext == ASSUME MyDayOk, [D!Next]_(D!vars) PROVE MyDayOk'
<1> USE DEF MyDayOk, MyDayTypes
<1>1. CASE D!Tick
  BY <1>1 DEF D!Tick, FetchIsTrue, D!WrongOnlySinceScan, D!list_my_day_tasks
<1>2. CASE D!ScanBegin
  <2>1. PICK due : scan' = [scan EXCEPT !.due = due]
    BY <1>2 DEF D!ScanBegin
  <2> QED BY <1>2, <2>1 DEF D!ScanBegin, FetchIsTrue, D!WrongOnlySinceScan, D!list_my_day_tasks
<1>3. CASE D!ScanFetch
  BY <1>3 DEF D!ScanFetch, FetchIsTrue, D!WrongOnlySinceScan, D!list_my_day_tasks
<1>4. CASE D!ScanFails
  <2>1. PICK due : scan' = D!Scanned(due)
    BY <1>4 DEF D!ScanFails
  <2> QED BY <1>4, <2>1 DEF D!ScanFails, D!Scanned, D!NoScan, FetchIsTrue, D!WrongOnlySinceScan,
              D!list_my_day_tasks
<1>5. CASE D!ScanStore
  <2>1. /\ scan.list # None /\ graph' = graph /\ call' = call
        /\ index' = IF scan.list \in OtherIds THEN index
                    ELSE D!updateMyDayFields(scan.list, scan.seen)
        /\ since' = IF scan.moved THEN since ELSE since \ {scan.list}
        /\ scan' = D!Scanned(scan.due)
    BY <1>5 DEF D!ScanStore
  <2>2. MyDayTypes' /\ FetchIsTrue'
    BY <2>1 DEF D!updateMyDayFields, D!Scanned, D!NoScan, FetchIsTrue
  <2>3. ASSUME NEW l \in Lists \ (since' \cup OtherIds), index'[l] # None
        PROVE  index'[l] = TRUE <=> l \in graph
    <3>1. CASE l = scan.list
      <4>1. ~scan.moved /\ scan.seen = (l \in graph)
        BY <2>1, <2>3, <3>1 DEF FetchIsTrue
      <4>2. index'[l] = scan.seen
        BY <2>1, <2>3, <3>1 DEF D!updateMyDayFields
      <4> QED BY <4>1, <4>2
    <3>2. CASE l # scan.list
      BY <2>1, <2>3, <3>2 DEF D!updateMyDayFields, D!WrongOnlySinceScan, D!list_my_day_tasks
    <3> QED BY <3>1, <3>2
  <2> QED BY <2>1, <2>2, <2>3 DEF D!WrongOnlySinceScan, D!list_my_day_tasks
<1>6. CASE D!Note
  <2>1. /\ UNCHANGED <<graph, scan>> /\ call' = D!NoTool
        /\ \/ /\ index' = D!updateMyDayFields(call.list, call.day)
              /\ since' = since \cup {call.list}
           \/ UNCHANGED <<index, since>>
    BY <1>6 DEF D!Note
  <2>2. MyDayTypes'
    BY <2>1 DEF D!updateMyDayFields, D!NoTool
  <2>3. FetchIsTrue'
    BY <2>1 DEF FetchIsTrue
  <2>4. D!WrongOnlySinceScan'
    BY <2>1 DEF D!updateMyDayFields, D!WrongOnlySinceScan, D!list_my_day_tasks
  <2> QED BY <2>2, <2>3, <2>4
<1>7. ASSUME NEW l \in Lists, D!Delta(l) PROVE MyDayOk'
  <2>1. /\ UNCHANGED <<graph, scan, call>> /\ since' = since \cup {l}
        /\ index' = [index EXCEPT ![l] = IF @ = None THEN FALSE ELSE None]
    BY <1>7 DEF D!Delta
  <2> QED BY <2>1 DEF FetchIsTrue, D!WrongOnlySinceScan, D!list_my_day_tasks
<1>8. ASSUME NEW l \in Lists, D!Edit(l) PROVE MyDayOk'
  BY <1>8, ChangeIsNoted DEF D!Edit
<1>9. ASSUME NEW l \in Lists, D!add_to_my_day(l) \/ D!remove_from_my_day(l) PROVE MyDayOk'
  <2>1. PICK day \in BOOLEAN : D!Patch(l, day)
    BY <1>9 DEF D!add_to_my_day, D!remove_from_my_day
  <2> QED BY <2>1, ChangeIsNoted DEF D!Patch
<1>10. CASE UNCHANGED D!vars
  BY <1>10 DEF D!vars, FetchIsTrue, D!WrongOnlySinceScan, D!list_my_day_tasks
<1> QED BY <1>1, <1>2, <1>3, <1>4, <1>5, <1>6, <1>7, <1>8, <1>9, <1>10 DEF D!Next

\* list_my_day_tasks is wrong only of a list that changed in Exchange, got its
\* row or was written through since the fetch of its last scan, or whose task
\* move_task re-parented: for any number of lists, scans, write-throughs,
\* changes and failures.
THEOREM MyDayIsNoted == Spec => []WrongOnlySinceScan
<1> DEFINE I == which = "my_day" => MyDayOk
<1>1. Init => I
  BY MyDayInit DEF Init
<1>2. I /\ [Next]_vars => I'
  BY Same, MyDayNext, MyDayStep
<1>3. I => WrongOnlySinceScan
  BY DEF MyDayOk, WrongOnlySinceScan
<1> QED BY <1>1, <1>2, <1>3, PTL DEF Spec

-----------------------------------------------------------------------------
(* The tools of one task: what they keep in any order.                       *)

TaskState ==
    [list : T!Here, default : BOOLEAN, task : T!Here, ver : Int, done : BOOLEAN,
     dated : BOOLEAN, recurring : BOOLEAN, parts : [T!Kinds -> Int]]
TaskCall ==
    [pc : {"idle", "asking", "reading", "resetting", "noting", "expanding", "linking"}
            \cup T!Answers,
     tool : T!Tools \cup {None}, date : BOOLEAN, etag : Int \cup {None},
     base : Int \cup {None}, reset : BOOLEAN, words : BOOLEAN, others : BOOLEAN,
     overwrote : BOOLEAN]
TaskTypes ==
    /\ graph \in TaskState
    /\ feed \subseteq {"list", "task"}
    /\ index \in [list : BOOLEAN, task : BOOLEAN, items : BOOLEAN]
    /\ call \in TaskCall
    /\ call.pc \in {"asking", "noting"} => call.tool \in T!Tools

\* A call with a completion date has a task before it that is not completed,
\* and behind it one that is, with the date; unless another client came between.
Dated ==
    /\ call.date \/ call.etag # None \/ call.pc \in {"reading", "resetting", "expanding"}
         => call.tool = T!update_task
    /\ call.date /\ ~call.others =>
         /\ call.pc = "asking" => ~graph.done
         /\ call.pc \in {"noting", "expanding", "linking", "ok"} => graph.done /\ graph.dated

\* An ETag that is still to be sent is the task's, as far as this call goes.
Tagged ==
    /\ call.etag # None /\ ~call.others /\ call.pc \in {"reading", "resetting", "asking"}
         => call.etag = graph.ver
    /\ call.reset => call.etag = None
    /\ T!RefusedForOthers

\* Each row is right or about to be reported; a list that is gone took its task
\* with it, whose row goes when the list is reported.
Reported ==
    /\ "list" \notin feed => (index.list <=> graph.list = "here")
    /\ "task" \notin feed => (index.task /\ graph.list # "gone" <=> graph.task = "here")
    /\ graph.list = "gone" => graph.task # "here"
    /\ graph.list = "gone" /\ feed = {} => ~index.task
    /\ call.pc = "noting" =>
         /\ call.tool.then \in {"flag", "upsert", "delete"}
         /\ T!Changed(call.tool) \subseteq feed
         /\ call.tool = T!delete_list => graph.list = "gone"

TaskOk == TaskTypes /\ Dated /\ Tagged /\ Reported

LEMMA GotoTypes ==
    ASSUME TaskTypes, NEW pc \in T!Answers \cup {"asking", "resetting", "noting", "expanding", "linking"},
           T!Goto(pc)
    PROVE  /\ call' \in TaskCall /\ call'.pc = pc
           /\ call'.tool = call.tool /\ call'.date = call.date /\ call'.etag = call.etag
           /\ call'.reset = call.reset /\ call'.others = call.others
BY DEF TaskTypes, TaskCall, T!Goto, T!Answers

LEMMA ToolRows ==
    ASSUME NEW t \in T!Tools
    PROVE  /\ t.on \in {"list", "task", "item", "link", "file"}
           /\ t.method \in {"GET", "POST", "PATCH", "DELETE"}
           /\ t.then \in {"nothing", "rules", "flag", "upsert", "delete"}
           /\ t.then \in {"flag", "upsert", "delete"} => t.method # "GET"
           /\ t.then = "delete" => t \in {T!delete_task, T!delete_list}
           /\ t.on = "list" => t \in {T!create_list, T!update_list, T!delete_list}
           /\ t.on = "task" /\ t.method # "GET" =>
                t \in {T!create_task, T!update_task, T!delete_task}
           /\ t.then = "flag" => t.on = "item"
           /\ t.then \in {"upsert", "delete"} => t.on \in {"list", "task"}
BY DEF T!Tools, T!Tool, T!get_task, T!create_task, T!update_task, T!delete_task,
       T!create_list, T!update_list, T!delete_list, T!list_checklist_items,
       T!create_checklist_item, T!update_checklist_item, T!delete_checklist_item,
       T!list_linked_resources, T!get_linked_resource, T!create_linked_resource,
       T!update_linked_resource, T!delete_linked_resource, T!list_attachments,
       T!get_attachment, T!remove_attachment, T!extract_links

LEMMA Rows ==
    /\ T!create_task.on = "task" /\ T!create_task.method = "POST" /\ T!create_task.then = "upsert"
    /\ T!update_task.on = "task" /\ T!update_task.method = "PATCH" /\ T!update_task.then = "upsert"
    /\ T!delete_task.on = "task" /\ T!delete_task.method = "DELETE" /\ T!delete_task.then = "delete"
    /\ T!create_list.on = "list" /\ T!create_list.method = "POST" /\ T!create_list.then = "upsert"
    /\ T!update_list.on = "list" /\ T!update_list.method = "PATCH" /\ T!update_list.then = "upsert"
    /\ T!delete_list.on = "list" /\ T!delete_list.method = "DELETE" /\ T!delete_list.then = "delete"
    /\ {T!create_task, T!update_task, T!delete_task, T!create_list, T!update_list,
        T!delete_list} \subseteq T!Tools
BY DEF T!Tools, T!Tool, T!create_task, T!update_task, T!delete_task, T!create_list, T!update_list,
       T!delete_list

\* What a request that is not a GET makes of the list and the task.
LEMMA AfterPart ==
    ASSUME graph \in TaskState, NEW k \in T!Kinds, NEW n \in Int
    PROVE  /\ T!Part(k, n) \in TaskState
           /\ T!Part(k, n).list = graph.list /\ T!Part(k, n).task = graph.task
           /\ T!Part(k, n).done = graph.done /\ T!Part(k, n).dated = graph.dated
<1> DEFINE g == [graph EXCEPT !.ver = @ + 1]
           p == [g.parts EXCEPT ![k] = graph.parts[k] + n]
           after == [g EXCEPT !.parts = p]
<1>1. /\ g \in TaskState /\ g.list = graph.list /\ g.task = graph.task
      /\ g.done = graph.done /\ g.dated = graph.dated
  BY DEF TaskState
<1>2. graph.parts \in [T!Kinds -> Int] /\ g.parts = graph.parts
  BY DEF TaskState
<1>3. T!Part(k, n) = after
  BY <1>2 DEF T!Part
<1> HIDE DEF g
<1>4. p \in [T!Kinds -> Int]
  BY <1>2
<1> HIDE DEF p
<1>5. /\ after \in TaskState /\ after.list = g.list /\ after.task = g.task
      /\ after.done = g.done /\ after.dated = g.dated
  BY <1>1, <1>4 DEF TaskState
<1> HIDE DEF after
<1> QED BY <1>1, <1>3, <1>5

LEMMA AfterList ==
    ASSUME graph \in TaskState, NEW t \in {T!create_list, T!update_list, T!delete_list}
    PROVE  /\ T!After(t) \in TaskState
           /\ t = T!update_list => T!After(t) = graph
           /\ t = T!create_list => T!After(t).list = "here" /\ T!After(t).task = graph.task
           /\ t = T!delete_list => T!After(t).list = "gone" /\ T!After(t).task = "gone"
<1>0. t.on = "list" /\ t.on \notin T!Kinds
  BY Rows DEF T!Kinds
<1>1. CASE t = T!delete_list
  <2> DEFINE after == [graph EXCEPT !.list = "gone", !.task = "gone"]
  <2>1. T!After(t) = after
    BY <1>0, <1>1, Rows DEF T!After
  <2>2. after \in TaskState /\ after.list = "gone" /\ after.task = "gone"
    BY DEF TaskState, T!Here
  <2> HIDE DEF after
  <2> QED BY <1>1, <2>1, <2>2, Rows
<1>2. CASE t = T!create_list
  <2> DEFINE after == [graph EXCEPT !.list = "here"]
  <2>1. T!After(t) = after
    BY <1>0, <1>2, Rows DEF T!After
  <2>2. after \in TaskState /\ after.list = "here" /\ after.task = graph.task
    BY DEF TaskState, T!Here
  <2> HIDE DEF after
  <2> QED BY <1>2, <2>1, <2>2, Rows
<1>3. CASE t = T!update_list
  <2>1. T!After(t) = graph
    BY <1>0, <1>3, Rows DEF T!After
  <2> QED BY <1>3, <2>1, Rows
<1> QED BY <1>1, <1>2, <1>3

LEMMA AfterTask ==
    ASSUME graph \in TaskState, call.date \in BOOLEAN,
           NEW t \in {T!create_task, T!update_task, T!delete_task}
    PROVE  /\ T!After(t) \in TaskState /\ T!After(t).list = graph.list
           /\ t = T!create_task => T!After(t).task = "here"
           /\ t = T!delete_task => T!After(t).task = "gone"
           /\ t = T!update_task => T!After(t).task = graph.task
           /\ t = T!update_task /\ call.date =>
                 T!After(t).done /\ (~graph.done => T!After(t).dated)
<1>0. t.on = "task" /\ t.on \notin T!Kinds
  BY Rows DEF T!Kinds
<1>1. CASE t = T!create_task
  <2> DEFINE ver == graph.ver + 1
             after == [graph EXCEPT !.task = "here", !.ver = ver]
  <2>1. T!After(t) = after
    BY <1>0, <1>1, Rows DEF T!After
  <2>2. ver \in Int
    BY DEF TaskState
  <2> HIDE DEF ver
  <2>3. after \in TaskState /\ after.list = graph.list /\ after.task = "here"
    BY <2>2 DEF TaskState, T!Here
  <2> HIDE DEF after
  <2> QED BY <1>1, <2>1, <2>3, Rows
<1>2. CASE t = T!delete_task
  <2> DEFINE ver == graph.ver + 1
             after == [graph EXCEPT !.task = "gone", !.ver = ver]
  <2>1. T!After(t) = after
    BY <1>0, <1>2, Rows DEF T!After
  <2>2. ver \in Int
    BY DEF TaskState
  <2> HIDE DEF ver
  <2>3. after \in TaskState /\ after.list = graph.list /\ after.task = "gone"
    BY <2>2 DEF TaskState, T!Here
  <2> HIDE DEF after
  <2> QED BY <1>2, <2>1, <2>3, Rows
<1>3. CASE t = T!update_task
  <2> DEFINE done == graph.done \/ call.date
             dated == graph.dated \/ (call.date /\ ~graph.done)
             ver == graph.ver + 1
             after == [graph EXCEPT !.ver = ver, !.done = done, !.dated = dated]
  <2>1. T!After(t) = after
    BY <1>0, <1>3, Rows DEF T!After
  <2>2. done \in BOOLEAN /\ dated \in BOOLEAN /\ (call.date => done)
        /\ (call.date /\ ~graph.done => dated)
    OBVIOUS
  <2>3. ver \in Int
    BY DEF TaskState
  <2> HIDE DEF done, dated, ver
  <2>4. after \in TaskState
    BY <2>2, <2>3 DEF TaskState
  <2>5. after.list = graph.list /\ after.task = graph.task
        /\ after.done = done /\ after.dated = dated
    BY DEF TaskState
  <2> HIDE DEF after
  <2> QED BY <1>3, <2>1, <2>2, <2>4, <2>5, Rows
<1> QED BY <1>1, <1>2, <1>3

LEMMA TaskInit == T!Init => TaskOk
<1> SUFFICES ASSUME T!Init PROVE TaskOk
  OBVIOUS
<1>1. PICK list \in {"none", "here"}, task \in {"none", "here"}, default \in BOOLEAN,
           done \in BOOLEAN, recurring \in BOOLEAN :
        /\ task = "here" => list = "here"
        /\ graph = [list |-> list, default |-> default, task |-> task, ver |-> 0, done |-> done,
                    dated |-> FALSE, recurring |-> recurring, parts |-> [k \in T!Kinds |-> 0]]
        /\ index = [list |-> list = "here", task |-> task = "here", items |-> FALSE]
  BY DEF T!Init
<1>2. graph \in TaskState
  BY <1>1 DEF TaskState, T!Here
<1> DEFINE a == list = "here"
           b == task = "here"
<1>3. a \in BOOLEAN /\ b \in BOOLEAN /\ index = [list |-> a, task |-> b, items |-> FALSE]
  BY <1>1
<1>4. index.list = a /\ index.task = b
  <2> HIDE DEF a, b
  <2> QED BY <1>3
<1>5. index \in [list : BOOLEAN, task : BOOLEAN, items : BOOLEAN]
  <2> HIDE DEF a, b
  <2> QED BY <1>3
<1>6. call \in TaskCall /\ call.pc = "idle" /\ ~call.date /\ call.etag = None /\ ~call.reset
  BY DEF T!Init, T!NoCall, TaskCall, T!Answers
<1>7. feed = {}
  BY DEF T!Init
<1>8. graph.list = list /\ graph.task = task
  BY <1>1
<1>9. Reported
  <2>1. (index.list <=> graph.list = "here") /\ (index.task <=> graph.task = "here")
    BY <1>4, <1>8
  <2>2. graph.list # "gone" /\ (graph.task = "here" => graph.list # "gone")
    BY <1>1, <1>8
  <2> QED BY <2>1, <2>2, <1>6, <1>7 DEF Reported
<1> QED BY <1>2, <1>5, <1>6, <1>7, <1>9 DEF TaskOk, TaskTypes, Dated, Tagged, T!RefusedForOthers

\* What changes nothing but how far the call is.
LEMMA GotoKeeps ==
    ASSUME TaskOk, T!Goto(call'.pc), UNCHANGED <<graph, feed>>, call'.pc # "noting",
           index'.list = index.list, index'.task = index.task,
           index' \in [list : BOOLEAN, task : BOOLEAN, items : BOOLEAN],
           call'.pc \in T!Answers \cup {"asking", "resetting", "expanding", "linking"},
           call'.pc \in {"resetting", "expanding"} => call.tool = T!update_task,
           call'.pc = "asking" => call.pc = "reading" /\ ~graph.done,
           call'.pc = "resetting" => call.pc = "reading",
           call'.pc \in {"ok", "expanding", "linking"} =>
              call.pc \in {"noting", "expanding", "linking"},
           call'.pc = "precondition_failed" => call.pc = "asking" /\ ~T!Matches
    PROVE  TaskOk'
<1>1. /\ call' \in TaskCall /\ call'.tool = call.tool /\ call'.date = call.date
      /\ call'.etag = call.etag /\ call'.reset = call.reset /\ call'.others = call.others
  BY GotoTypes DEF TaskOk
<1>2. TaskTypes'
  BY <1>1, Rows DEF TaskOk, TaskTypes, Dated, T!Answers
<1>3. Dated'
  BY <1>1 DEF TaskOk, Dated, T!Answers
<1>4. Tagged'
  BY <1>1 DEF TaskOk, Tagged, T!RefusedForOthers, T!Matches, T!Answers
<1>5. Reported'
  BY <1>1 DEF TaskOk, Reported
<1> QED BY <1>2, <1>3, <1>4, <1>5 DEF TaskOk

LEMMA GotoIs ==
    ASSUME TaskOk, NEW pc, T!Goto(pc)
    PROVE  call'.pc = pc /\ T!Goto(call'.pc)
BY DEF TaskOk, TaskTypes, TaskCall, T!Goto

LEMMA OnlyGoes ==
    ASSUME TaskOk, T!ReadTask \/ T!ResetRefused \/ T!Refuse \/ T!NoteFails \/ T!Expand
    PROVE  TaskOk'
<1>1. CASE T!ReadTask
  <2>1. /\ T!Goto(call'.pc) /\ UNCHANGED <<graph, feed, index>> /\ call.pc = "reading"
        /\ call'.pc \in {"not_found", "recurring", "resetting", "asking"}
        /\ call'.pc = "asking" => ~graph.done
    BY <1>1, GotoIs DEF T!ReadTask
  <2> QED BY <2>1, GotoKeeps DEF T!Answers, TaskOk, TaskTypes, Dated
<1>2. CASE T!ResetRefused
  <2>1. T!Goto(call'.pc) /\ UNCHANGED <<graph, feed, index>> /\ call'.pc = "failed"
    BY <1>2, GotoIs DEF T!ResetRefused
  <2> QED BY <2>1, GotoKeeps DEF T!Answers, TaskOk, TaskTypes
<1>3. CASE T!Refuse
  <2>1. /\ T!Goto(call'.pc) /\ UNCHANGED <<graph, feed, index>> /\ call.pc = "asking"
        /\ call'.pc \in {"not_found", "method_not_allowed", "failed", "precondition_failed"}
        /\ call'.pc = "precondition_failed" => ~T!Matches
    BY <1>3, GotoIs DEF T!Refuse, T!Refusal
  <2> QED BY <2>1, GotoKeeps DEF T!Answers, TaskOk, TaskTypes
<1>4. CASE T!NoteFails
  <2>1. /\ T!Goto(call'.pc) /\ UNCHANGED <<graph, feed, index>> /\ call.pc = "noting"
        /\ call'.pc = T!Onwards(call.tool)
    BY <1>4, GotoIs DEF T!NoteFails
  <2>2. /\ T!Onwards(call.tool) \in {"linking", "expanding", "ok"}
        /\ T!Onwards(call.tool) = "expanding" => call.tool = T!update_task
    BY Rows DEF T!Onwards
  <2> QED BY <2>1, <2>2, GotoKeeps DEF T!Answers, TaskOk, TaskTypes
<1>5. CASE T!Expand
  <2>1. PICK pc \in {"linking", "not_found", "failed"} : T!Goto(pc)
    BY <1>5 DEF T!Expand
  <2>2. /\ T!Goto(call'.pc) /\ UNCHANGED <<graph, feed, index>> /\ call.pc = "expanding"
        /\ call'.pc = pc
    BY <1>5, <2>1, GotoIs DEF T!Expand
  <2> QED BY <2>2, GotoKeeps DEF T!Answers, TaskOk, TaskTypes
<1> QED BY <1>1, <1>2, <1>3, <1>4, <1>5

LEMMA OthersAreSeen == ASSUME TaskOk, T!OtherClient PROVE TaskOk'
<1> DEFINE ver == graph.ver + 1
           nd == ~graph.done
           g == [graph EXCEPT !.ver = ver]
<1>1. PICK now \in {[graph EXCEPT !.ver = @ + 1],
                    [graph EXCEPT !.ver = @ + 1, !.done = ~@, !.dated = FALSE],
                    [graph EXCEPT !.ver = @ + 1, !.task = "gone"],
                    [graph EXCEPT !.ver = @ + 1, !.parts.item = 0]} : graph' = now
  BY DEF T!OtherClient
<1>2. ver \in Int /\ nd \in BOOLEAN
  BY DEF TaskOk, TaskTypes, TaskState
<1>3. now \in TaskState /\ now.list = graph.list /\ now.task \in {graph.task, "gone"}
  <2>1. CASE now = [graph EXCEPT !.ver = ver]
    <3> HIDE DEF ver
    <3> QED BY <1>2, <2>1 DEF TaskOk, TaskTypes, TaskState
  <2>2. CASE now = [graph EXCEPT !.ver = ver, !.done = nd, !.dated = FALSE]
    <3> HIDE DEF ver, nd
    <3> QED BY <1>2, <2>2 DEF TaskOk, TaskTypes, TaskState
  <2>3. CASE now = [graph EXCEPT !.ver = ver, !.task = "gone"]
    <3> HIDE DEF ver
    <3> QED BY <1>2, <2>3 DEF TaskOk, TaskTypes, TaskState, T!Here
  <2>4. CASE now = [graph EXCEPT !.ver = ver, !.parts.item = 0]
    <3> DEFINE p == [g.parts EXCEPT !.item = 0]
    <3>1. /\ g \in TaskState /\ g.list = graph.list /\ g.task = graph.task
          /\ g.parts \in [T!Kinds -> Int]
      <4> HIDE DEF ver
      <4> QED BY <1>2 DEF TaskOk, TaskTypes, TaskState
    <3>2. now = [g EXCEPT !.parts = p]
      BY <2>4
    <3> HIDE DEF g
    <3>3. p \in [T!Kinds -> Int]
      BY <3>1
    <3> HIDE DEF p
    <3> QED BY <3>1, <3>2, <3>3 DEF TaskState
  <2> QED BY <1>1, <2>1, <2>2, <2>3, <2>4
<1>4. /\ call' \in TaskCall /\ call'.pc = call.pc /\ call'.tool = call.tool
      /\ call'.date = call.date /\ call'.etag = call.etag /\ call'.reset = call.reset
      /\ call'.others
  BY DEF T!OtherClient, TaskOk, TaskTypes, TaskCall
<1>5. feed' = feed \cup {"task"} /\ index' = index
  BY DEF T!OtherClient
<1>6. TaskTypes'
  BY <1>1, <1>3, <1>4, <1>5 DEF TaskOk, TaskTypes
<1>7. Dated' /\ Tagged'
  BY <1>4 DEF TaskOk, Dated, Tagged, T!RefusedForOthers
<1>8. Reported'
  BY <1>1, <1>3, <1>4, <1>5 DEF TaskOk, Reported
<1> QED BY <1>6, <1>7, <1>8 DEF TaskOk

LEMMA SyncReports == ASSUME TaskOk, T!Sync PROVE TaskOk'
<1> DEFINE list == IF "list" \in feed THEN graph.list = "here" ELSE index.list
           task == IF "task" \in feed THEN graph.task = "here" ELSE index.task
           there == task /\ graph.list # "gone"
           items == index.items /\ "task" \notin feed
<1>1. index' = [list |-> list, task |-> there, items |-> items]
  BY DEF T!Sync
<1>2. list \in BOOLEAN /\ there \in BOOLEAN /\ items \in BOOLEAN
  BY DEF TaskOk, TaskTypes
<1>3. (list <=> graph.list = "here") /\ (there <=> graph.task = "here" /\ graph.list # "gone")
  BY DEF TaskOk, Reported
<1>4. index' \in [list : BOOLEAN, task : BOOLEAN, items : BOOLEAN]
      /\ index'.list = list /\ index'.task = there
  <2> HIDE DEF list, there, items
  <2> QED BY <1>1, <1>2
<1>5. UNCHANGED <<graph, call>> /\ feed' = {} /\ call.pc # "noting"
  BY DEF T!Sync
<1>6. TaskTypes' /\ Dated' /\ Tagged'
  BY <1>4, <1>5 DEF TaskOk, TaskTypes, Dated, Tagged, T!RefusedForOthers
<1>7. Reported'
  BY <1>3, <1>4, <1>5 DEF TaskOk, Reported
<1> QED BY <1>6, <1>7 DEF TaskOk

LEMMA CallBegins ==
    ASSUME TaskOk, NEW t \in T!Tools, NEW listed \in BOOLEAN, T!Begin(t, listed)
    PROVE  TaskOk'
<1>1. PICK date \in BOOLEAN, words \in BOOLEAN, etag \in {None, graph.ver} :
        /\ t # T!update_task => ~date /\ ~words /\ etag = None
        /\ call' = [T!NoCall EXCEPT !.tool = t, !.date = date, !.etag = etag,
                                    !.base = etag, !.words = words,
                                    !.pc = IF listed \/ index.task
                                           THEN T!First(t, date) ELSE "list_required"]
  BY DEF T!Begin
<1> DEFINE pc == IF listed \/ index.task THEN T!First(t, date) ELSE "list_required"
<1>2. /\ pc \in {"reading", "asking", "list_required"}
      /\ pc = "reading" => t = T!update_task
      /\ pc = "asking" /\ date => t # T!update_task
  BY DEF T!First
<1>3. etag \in Int \cup {None}
  BY DEF TaskOk, TaskTypes, TaskState
<1> HIDE DEF pc
<1>4. /\ call' \in TaskCall /\ call'.pc = pc /\ call'.tool = t /\ call'.date = date
      /\ call'.etag = etag /\ call'.reset = FALSE
  <2>1. call' = [T!NoCall EXCEPT !.tool = t, !.date = date, !.etag = etag,
                                 !.base = etag, !.words = words, !.pc = pc]
    BY <1>1 DEF pc
  <2> QED BY <1>2, <1>3, <2>1 DEF T!NoCall, TaskCall, T!Answers
<1>5. UNCHANGED <<graph, feed, index>>
  BY DEF T!Begin
<1>6. TaskTypes'
  BY <1>4, <1>5 DEF TaskOk, TaskTypes
<1>7. Dated' /\ Tagged'
  BY <1>1, <1>2, <1>4, <1>5 DEF Dated, Tagged, T!RefusedForOthers
<1>8. Reported'
  BY <1>2, <1>4, <1>5 DEF TaskOk, Reported
<1> QED BY <1>6, <1>7, <1>8 DEF TaskOk

LEMMA ResetSpendsTag == ASSUME TaskOk, T!ResetTask PROVE TaskOk'
<1> DEFINE ver == graph.ver + 1
           base == IF call.base = None THEN None ELSE graph.ver + 1
<1>1. /\ call.pc = "resetting" /\ graph.task = "here"
      /\ graph' = [graph EXCEPT !.ver = ver, !.done = FALSE, !.dated = FALSE]
      /\ call' = [call EXCEPT !.pc = "asking", !.reset = TRUE, !.etag = None, !.base = base]
      /\ feed' = feed \cup {"task"} /\ index' = index
  BY DEF T!ResetTask, T!Reopened
<1>2. ver \in Int /\ base \in Int \cup {None}
  BY DEF TaskOk, TaskTypes, TaskState
<1> HIDE DEF ver, base
<1>3. graph' \in TaskState /\ graph'.list = graph.list /\ graph'.task = graph.task
      /\ ~graph'.done
  BY <1>1, <1>2 DEF TaskOk, TaskTypes, TaskState
<1>4. /\ call' \in TaskCall /\ call'.pc = "asking" /\ call'.tool = call.tool
      /\ call'.date = call.date /\ call'.etag = None /\ call'.others = call.others
  BY <1>1, <1>2 DEF TaskOk, TaskTypes, TaskCall
<1>5. call.tool = T!update_task
  BY <1>1 DEF TaskOk, Dated
<1>6. TaskTypes'
  BY <1>1, <1>3, <1>4, <1>5, Rows DEF TaskOk, TaskTypes
<1>7. Dated' /\ Tagged'
  BY <1>3, <1>4, <1>5 DEF Dated, Tagged, T!RefusedForOthers
<1>8. Reported'
  BY <1>1, <1>3, <1>4 DEF TaskOk, Reported
<1> QED BY <1>6, <1>7, <1>8 DEF TaskOk

\* The request of the call's tool, answered or not.
LEMMA RequestIs ==
    ASSUME TaskOk, call.pc = "asking", T!There(call.tool), T!Allowed(call.tool),
           T!CarriedOut(call.tool)
    PROVE  /\ graph' \in TaskState /\ feed' \subseteq {"list", "task"}
           /\ feed \subseteq feed'
           /\ "list" \notin feed' => graph'.list = graph.list
           /\ "task" \notin feed' => graph'.task = graph.task \/ graph'.list = "gone"
           /\ graph'.list = "gone" => graph.list = "gone" \/ graph'.task = "gone"
           /\ graph'.list = "gone" => graph'.task # "here"
           /\ graph'.list = "gone" /\ feed' = {} => graph.list = "gone"
           /\ graph.list = "gone" => graph'.list = "gone"
           /\ call.tool.method # "GET" =>
                 /\ T!Changed(call.tool) \subseteq feed'
                 /\ call.tool = T!delete_list => graph'.list = "gone"
           /\ call.date /\ ~call.others => graph'.done /\ graph'.dated
<1> DEFINE t == call.tool
<1>0. t \in T!Tools /\ graph \in TaskState /\ feed \subseteq {"list", "task"}
      /\ call.date \in BOOLEAN /\ (graph.list = "gone" => graph.task # "here")
      /\ (call.date => t = T!update_task) /\ (call.date /\ ~call.others => ~graph.done)
  BY DEF TaskOk, TaskTypes, TaskCall, Dated, Reported
<1>1. CASE t.method = "GET"
  <2>1. UNCHANGED <<graph, feed>>
    BY <1>1 DEF T!CarriedOut
  <2>2. ~call.date
    BY <1>0, <1>1, Rows
  <2> QED BY <1>0, <1>1, <2>1, <2>2
<1>2. CASE t.method # "GET" /\ t.on \in T!Kinds
  <2>1. PICK n \in Int : T!After(t) = T!Part(t.on, n)
    <3> DEFINE n == CASE t.method = "POST" -> 1 [] t.method = "DELETE" -> -1 [] OTHER -> 0
    <3>1. n \in Int
      BY <1>0, <1>2, ToolRows
    <3>2. T!After(t) = T!Part(t.on, n)
      BY <1>2, Rows DEF T!After, T!Kinds
    <3> QED BY <3>1, <3>2
  <2>2. graph' = T!Part(t.on, n) /\ feed' = feed \cup {"task"}
        /\ T!Changed(t) = {"task"} /\ t # T!delete_list /\ ~call.date
    BY <1>0, <1>2, <2>1, Rows DEF T!CarriedOut, T!Changed, T!Kinds
  <2> QED BY <1>0, <1>2, <2>2, AfterPart
<1>3. CASE t \in {T!create_list, T!update_list, T!delete_list}
  <2>1. graph' = T!After(t) /\ feed' = feed \cup {"list"} /\ T!Changed(t) = {"list"}
        /\ ~call.date
    BY <1>0, <1>3, Rows DEF T!CarriedOut, T!Changed
  <2>2. t = T!create_list => graph.list = "none"
    BY <1>3, Rows DEF T!Allowed
  <2>3. CASE t = T!create_list
    <3>1. t # T!delete_list
      BY <2>3, Rows
    <3> QED BY <1>0, <1>3, <2>1, <2>2, <2>3, <3>1, AfterList
  <2>4. CASE t = T!update_list
    BY <1>0, <1>3, <2>1, <2>4, AfterList, Rows
  <2>5. CASE t = T!delete_list
    BY <1>0, <1>3, <2>1, <2>5, AfterList
  <2> QED BY <1>3, <2>3, <2>4, <2>5
<1>4. CASE t \in {T!create_task, T!update_task, T!delete_task}
  <2>1. graph' = T!After(t) /\ feed' = feed \cup {"task"} /\ T!Changed(t) = {"task"}
        /\ t # T!delete_list
    BY <1>0, <1>4, Rows DEF T!CarriedOut, T!Changed
  <2>2. t = T!create_task => graph.list = "here"
    BY <1>4, Rows DEF T!There
  <2> QED BY <1>0, <1>4, <2>1, <2>2, AfterTask, Rows
<1> QED BY <1>0, <1>1, <1>2, <1>3, <1>4, ToolRows DEF T!Kinds

\* After a request the index is behind by no more than the feed knows.
LEMMA RequestReported ==
    ASSUME TaskOk, call.pc = "asking", T!There(call.tool), T!Allowed(call.tool),
           T!CarriedOut(call.tool), index' = index, call'.tool = call.tool,
           call'.pc = "noting" => call.tool.then \in {"flag", "upsert", "delete"}
    PROVE  Reported'
<1>0. call.tool \in T!Tools
  BY DEF TaskOk, TaskTypes
<1>1. "list" \notin feed' => (index.list <=> graph'.list = "here")
  BY RequestIs DEF TaskOk, Reported
<1>2. "task" \notin feed' => (index.task /\ graph'.list # "gone" <=> graph'.task = "here")
  BY RequestIs DEF TaskOk, Reported
<1>3. (graph'.list = "gone" => graph'.task # "here")
      /\ (graph'.list = "gone" /\ feed' = {} => ~index.task)
  BY RequestIs DEF TaskOk, Reported
<1>4. call'.pc = "noting" =>
         /\ T!Changed(call.tool) \subseteq feed'
         /\ call.tool = T!delete_list => graph'.list = "gone"
  BY <1>0, RequestIs, ToolRows
<1>5. T!Changed(call'.tool) = T!Changed(call.tool)
  OBVIOUS
<1> QED BY <1>1, <1>2, <1>3, <1>4, <1>5 DEF Reported, T!Changed

LEMMA Served == ASSUME TaskOk, T!Serve PROVE TaskOk'
<1> DEFINE lost == call.base # None /\ call.base # graph.ver
           pc == T!Noted(call.tool)
<1>1. /\ call.pc = "asking" /\ T!There(call.tool) /\ T!Allowed(call.tool)
      /\ T!CarriedOut(call.tool) /\ index' = index
      /\ call' = [call EXCEPT !.pc = pc, !.overwrote = lost]
  BY DEF T!Serve
<1>2. call.tool \in T!Tools
  BY <1>1 DEF TaskOk, TaskTypes
<1>3. lost \in BOOLEAN /\ pc \in {"ok", "linking", "noting"}
      /\ (pc = "noting" => call.tool.then \in {"flag", "upsert", "delete"})
  BY <1>2, ToolRows DEF T!Noted
<1> HIDE DEF lost, pc
<1>4. /\ call' \in TaskCall /\ call'.pc = pc /\ call'.tool = call.tool
      /\ call'.date = call.date /\ call'.etag = call.etag /\ call'.reset = call.reset
      /\ call'.others = call.others
  BY <1>1, <1>3 DEF TaskOk, TaskTypes, TaskCall, T!Answers
<1>5. TaskTypes'
  BY <1>1, <1>2, <1>4, RequestIs DEF TaskOk, TaskTypes
<1>6. Dated' /\ Tagged'
  BY <1>1, <1>3, <1>4, RequestIs DEF TaskOk, Dated, Tagged, T!RefusedForOthers
<1>7. Reported'
  BY <1>1, <1>3, <1>4, RequestReported
<1> QED BY <1>5, <1>6, <1>7 DEF TaskOk

LEMMA FailedOrNot == ASSUME TaskOk, T!Fail PROVE TaskOk'
<1>1. CASE UNCHANGED <<graph, feed>>
  <2>1. T!Goto(call'.pc) /\ index' = index /\ call'.pc = "failed"
    BY GotoIs DEF T!Fail
  <2> QED BY <1>1, <2>1, GotoKeeps DEF T!Answers, TaskOk, TaskTypes
<1>2. CASE /\ call.pc = "asking" /\ T!There(call.tool) /\ T!Allowed(call.tool)
           /\ T!CarriedOut(call.tool)
  <2>1. T!Goto("failed") /\ index' = index
    BY DEF T!Fail
  <2>2. /\ call' \in TaskCall /\ call'.pc = "failed" /\ call'.tool = call.tool
        /\ call'.date = call.date /\ call'.etag = call.etag /\ call'.reset = call.reset
    BY <2>1, GotoTypes DEF TaskOk, T!Answers
  <2>3. TaskTypes'
    BY <1>2, <2>1, <2>2, RequestIs DEF TaskOk, TaskTypes
  <2>4. Dated' /\ Tagged'
    BY <2>2 DEF TaskOk, Dated, Tagged, T!RefusedForOthers
  <2>5. Reported'
    BY <1>2, <2>1, <2>2, RequestReported
  <2> QED BY <2>3, <2>4, <2>5 DEF TaskOk
<1>3. CASE T!Reopened
  <2> DEFINE ver == graph.ver + 1
  <2>1. T!Goto("failed") /\ index' = index
    BY DEF T!Fail
  <2>2. /\ call' \in TaskCall /\ call'.pc = "failed" /\ call'.tool = call.tool
        /\ call'.date = call.date /\ call'.etag = call.etag /\ call'.reset = call.reset
    BY <2>1, GotoTypes DEF TaskOk, T!Answers
  <2>3. /\ graph.task = "here" /\ feed' = feed \cup {"task"}
        /\ graph' = [graph EXCEPT !.ver = ver, !.done = FALSE, !.dated = FALSE]
    BY <1>3 DEF T!Reopened
  <2>4. ver \in Int
    BY DEF TaskOk, TaskTypes, TaskState
  <2> HIDE DEF ver
  <2>5. graph' \in TaskState /\ graph'.list = graph.list /\ graph'.task = graph.task
    BY <2>3, <2>4 DEF TaskOk, TaskTypes, TaskState
  <2>6. TaskTypes'
    BY <2>1, <2>2, <2>3, <2>5 DEF TaskOk, TaskTypes
  <2>7. Dated' /\ Tagged'
    BY <2>2 DEF TaskOk, Dated, Tagged, T!RefusedForOthers
  <2>8. Reported'
    BY <2>1, <2>2, <2>3, <2>5 DEF TaskOk, Reported
  <2> QED BY <2>6, <2>7, <2>8 DEF TaskOk
<1> QED BY <1>1, <1>2, <1>3 DEF T!Fail

\* A row is written while the change it is of is still to be reported.
LEMMA NotedKeeps ==
    ASSUME TaskOk, call.pc = "noting", UNCHANGED <<graph, feed>>, T!Goto(call'.pc),
           call'.pc \in {"linking", "expanding", "ok"},
           call'.pc = "expanding" => call.tool = T!update_task,
           index' \in [list : BOOLEAN, task : BOOLEAN, items : BOOLEAN],
           \/ /\ "list" \in feed
              /\ index'.task = index.task \/ (~index'.task /\ graph.list = "gone")
           \/ "task" \in feed /\ index'.list = index.list
    PROVE  TaskOk'
<1>1. /\ call' \in TaskCall /\ call'.tool = call.tool /\ call'.date = call.date
      /\ call'.etag = call.etag /\ call'.reset = call.reset /\ call'.others = call.others
  BY GotoTypes DEF TaskOk, T!Answers
<1>2. TaskTypes' /\ Dated' /\ Tagged'
  BY <1>1 DEF TaskOk, TaskTypes, Dated, Tagged, T!RefusedForOthers
<1>3. Reported'
  BY <1>1 DEF TaskOk, Reported
<1> QED BY <1>2, <1>3 DEF TaskOk

LEMMA NoteWritesRow == ASSUME TaskOk, T!Note PROVE TaskOk'
<1> DEFINE t == call.tool
           items == index.items \/ index.task
<1>1. call.pc = "noting" /\ t \in T!Tools /\ UNCHANGED <<graph, feed>>
      /\ call'.pc = T!Onwards(t) /\ T!Goto(call'.pc)
  BY GotoIs DEF T!Note, TaskOk, TaskTypes
<1>2. t.then \in {"flag", "upsert", "delete"} /\ T!Changed(t) \subseteq feed
      /\ (t = T!delete_list => graph.list = "gone") /\ t.method # "GET"
  BY <1>1, ToolRows DEF TaskOk, Reported
<1>3. /\ T!Onwards(t) \in {"linking", "expanding", "ok"}
      /\ T!Onwards(t) = "expanding" => t = T!update_task
  BY Rows DEF T!Onwards
<1>4. CASE t.then = "flag"
  <2>1. index' = [index EXCEPT !.items = items]
    BY <1>4, Rows, ToolRows, <1>1 DEF T!Note
  <2>2. items \in BOOLEAN
    BY DEF TaskOk, TaskTypes
  <2> HIDE DEF items
  <2>3. /\ index' \in [list : BOOLEAN, task : BOOLEAN, items : BOOLEAN]
        /\ index'.list = index.list /\ index'.task = index.task
    BY <2>1, <2>2 DEF TaskOk, TaskTypes
  <2> QED BY <1>1, <1>3, <2>3, GotoKeeps DEF T!Answers
<1>5. CASE t.on = "list"
  <2>1. index' \in [list : BOOLEAN, task : BOOLEAN, items : BOOLEAN] /\ "list" \in feed
        /\ index'.task \in {index.task, FALSE}
        /\ (index'.task = index.task \/ graph.list = "gone")
    <3>1. CASE t.then = "upsert"
      <4>1. index' = [index EXCEPT !.list = TRUE]
        BY <1>1, <1>5, <3>1, Rows DEF T!Note
      <4> QED BY <1>2, <1>5, <4>1 DEF TaskOk, TaskTypes, T!Changed
    <3>2. CASE t = T!delete_list
      <4>1. index' = [list |-> FALSE, task |-> FALSE, items |-> FALSE]
        BY <1>1, <1>5, <3>2, Rows DEF T!Note
      <4> QED BY <1>2, <1>5, <3>2, <4>1 DEF T!Changed
    <3> QED BY <1>1, <1>2, <1>5, <3>1, <3>2, ToolRows, Rows
  <2> QED BY <1>1, <1>2, <1>3, <1>5, <2>1, NotedKeeps DEF T!Changed
<1>6. CASE t.on = "task"
  <2>1. index' \in [list : BOOLEAN, task : BOOLEAN, items : BOOLEAN] /\ "task" \in feed
        /\ index'.list = index.list
    <3>1. CASE t.then = "upsert"
      <4>1. index' = [index EXCEPT !.task = TRUE, !.items = FALSE]
        BY <1>1, <1>6, <3>1, Rows DEF T!Note
      <4> QED BY <1>2, <1>6, <4>1 DEF TaskOk, TaskTypes, T!Changed
    <3>2. CASE t = T!delete_task
      <4>1. index' = [index EXCEPT !.task = FALSE, !.items = FALSE]
        BY <1>1, <1>6, <3>2, Rows DEF T!Note
      <4> QED BY <1>2, <1>6, <4>1 DEF TaskOk, TaskTypes, T!Changed
    <3> QED BY <1>1, <1>2, <1>6, <3>1, <3>2, ToolRows, Rows
  <2>2. call'.pc \in {"linking", "expanding", "ok"}
        /\ (call'.pc = "expanding" => call.tool = T!update_task)
    BY <1>1, <1>3
  <2> QED BY <1>1, <2>1, <2>2, NotedKeeps
<1> QED BY <1>1, <1>2, <1>4, <1>5, <1>6, ToolRows

LEMMA LinkIsReported == ASSUME TaskOk, T!Link PROVE TaskOk'
<1>1. call.pc = "linking" /\ call'.pc = "ok" /\ T!Goto(call'.pc) /\ index' = index
  BY GotoIs DEF T!Link
<1>2. CASE UNCHANGED <<graph, feed>>
  BY <1>1, <1>2, GotoKeeps DEF T!Answers, TaskOk, TaskTypes
<1>3. CASE graph' = T!Part("link", 1) /\ feed' = feed \cup {"task"}
  <2>1. graph' \in TaskState /\ graph'.list = graph.list /\ graph'.task = graph.task
        /\ graph'.done = graph.done /\ graph'.dated = graph.dated
    BY <1>3, AfterPart DEF T!Kinds, TaskOk, TaskTypes
  <2>2. /\ call' \in TaskCall /\ call'.tool = call.tool /\ call'.date = call.date
        /\ call'.etag = call.etag /\ call'.reset = call.reset /\ call'.others = call.others
    BY <1>1, GotoTypes DEF TaskOk, T!Answers
  <2>3. TaskTypes' /\ Dated' /\ Tagged'
    BY <1>1, <1>3, <2>1, <2>2 DEF TaskOk, TaskTypes, Dated, Tagged, T!RefusedForOthers
  <2>4. Reported'
    BY <1>1, <1>3, <2>1, <2>2 DEF TaskOk, Reported
  <2> QED BY <2>3, <2>4 DEF TaskOk
<1> QED BY <1>2, <1>3 DEF T!Link

LEMMA TaskNext == ASSUME TaskOk, [T!Next]_(T!vars) PROVE TaskOk'
<1>1. CASE UNCHANGED T!vars
  BY <1>1 DEF T!vars, TaskOk, TaskTypes, Dated, Tagged, Reported, T!RefusedForOthers, T!Changed
<1> QED BY <1>1, OthersAreSeen, SyncReports, CallBegins, OnlyGoes, ResetSpendsTag, Served,
           FailedOrNot, NoteWritesRow, LinkIsReported DEF T!Next

\* What the tools of one task keep, in any order of calls, failures and changes
\* by other clients.
LEMMA TaskKept == Spec => [](which = "task" => TaskOk)
<1> DEFINE I == which = "task" => TaskOk
<1>1. Init => I
  BY TaskInit DEF Init
<1>2. I /\ [Next]_vars => I'
  BY Same, TaskNext, TaskStep
<1> QED BY <1>1, <1>2, PTL DEF Spec

\* A completion date that update_task accepts is on the task, in whatever state
\* it was, and a call is refused for another client's change only: for any
\* number of calls, of changes by others and of failures.
THEOREM UpdatesAreExact == Spec => []UpdateIsExact
<1>1. (which = "task" => TaskOk) => UpdateIsExact
  BY DEF TaskOk, Dated, Tagged, UpdateIsExact, T!DateSticks, T!RefusedForOthers
<1> QED BY <1>1, TaskKept, PTL

-----------------------------------------------------------------------------
(* move_task: what is true of the tasks and their rows at every step.        *)

MoveCall ==
    [pc : M!Pcs, seen : SUBSET M!Parts, files : BOOLEAN, todo : SUBSET M!Parts,
     new : M!Ids \cup {None}, copied : SUBSET M!Parts, carried : BOOLEAN,
     late : {"no", "due", "done"}]
MoveTypes ==
    /\ graph \in [M!Ids -> M!Task \cup {None}]
    /\ feed \subseteq M!Ids
    /\ index \in [M!Ids -> M!Row \cup {None}]
    /\ call \in MoveCall
    /\ used \in [ids : M!Ids, calls : Nat, faults : Nat]

Copying == {"copying", "listing", "carrying", "deleting"}
Began   == Copying \cup {"aborting", "aborted", "orphan"}

\* Ids are given out in order, and the copy's is one of them.
Given ==
    /\ \A id \in M!Ids : id > used.ids => ~M!Exists(id)
    /\ call.pc \in Began \cup {"moved", "copied", "warned"} => call.new \in 1..used.ids

\* The source has what was seen of it; if it is gone, another task has, and not
\* the copy that an abort would delete.
Kept ==
    /\ M!Exists(M!Src) => call.seen \subseteq graph[M!Src].parts
    /\ ~M!Exists(M!Src) =>
         \E id \in M!Ids : /\ M!Exists(id) /\ call.seen \subseteq graph[id].parts
                           /\ call.pc \in Began => id # call.new

\* The source is there until it is moved or deleted, if no re-parent comes late.
Source ==
    /\ M!Exists(M!Src) =>
         /\ graph[M!Src].list = "from"
         /\ call.files => M!HasFiles(graph[M!Src].parts)
    /\ call.pc \in {"moving", "creating"} \cup Began /\ call.late # "done" => M!Exists(M!Src)
    /\ used.faults = 0 => call.late = "no"
    /\ used.faults = 0 /\ call.pc = "moving" =>
         /\ call.seen = graph[M!Src].parts \ Files
         /\ call.files = M!HasFiles(graph[M!Src].parts)
    /\ call.pc = "presumed" => ~M!Exists(M!Src)

\* The copy has what is copied, and what is not copied is still to do.
Copy ==
    /\ call.pc \in Copying =>
         /\ M!Exists(call.new) /\ graph[call.new].list = "to" /\ call.new \in feed
         /\ call.copied \subseteq graph[call.new].parts
         /\ call.seen \subseteq call.copied \cup call.todo
         /\ used.faults = 0 =>
              graph[call.new].parts = call.copied /\ index[call.new] # None
    /\ call.pc \in {"reading", "moving", "checking", "creating"} => call.copied = {}
    /\ call.pc \in {"listing", "carrying", "deleting"} => call.todo = {}
    /\ call.pc \in {"carrying", "deleting"} /\ call.files => M!HasFiles(call.seen)
    /\ call.carried => /\ call.pc \in {"deleting", "copied", "warned"}
                       /\ graph[call.new].day
    /\ call.pc = "aborted" => ~M!Exists(call.new)

\* The moved task, and its row until the feed reports it.
Arrived ==
    /\ call.pc \in {"moved", "copied"} =>
         /\ ~M!Exists(M!Src) /\ M!Exists(call.new) /\ graph[call.new].list = "to"
         /\ call.seen \subseteq graph[call.new].parts
         /\ call.files => M!HasFiles(graph[call.new].parts)
    /\ M!RowTellsParts

\* What tasks there are in the first call.
Only(S) == \A id \in M!Ids : M!Exists(id) => id \in S
First ==
    /\ used.calls = 0 => call.pc = "idle" /\ call.late = "no" /\ Only({M!Src})
    /\ used.calls = 1 /\ call.pc \in {"reading", "moving"} => call.late = "no"
    /\ used.calls = 1 /\ call.late # "done" =>
         /\ call.pc \in {"reading", "moving", "creating"} => Only({M!Src})
         /\ call.pc \in {"checking", "presumed", "guessed"} =>
              \E id \in M!Ids : /\ M!Exists(id) /\ Only({id})
                                /\ id # M!Src => graph[id].list = "to"
         /\ call.pc \in Began => Only({M!Src, call.new})
         /\ call.pc \in {"moved", "copied"} => Only({call.new})

Known == call.pc # "guessed" =>
            \A id \in M!Ids \ feed : M!Exists(id) <=> index[id] # None

MoveOk == MoveTypes /\ Given /\ Kept /\ Source /\ Copy /\ Arrived /\ First /\ Known

LEMMA FaultIs ==
    ASSUME MoveTypes, M!Fault
    PROVE  /\ used' \in [ids : M!Ids, calls : Nat, faults : Nat]
           /\ used'.ids = used.ids /\ used'.calls = used.calls /\ used'.faults # 0
BY DEF MoveTypes, M!Fault, M!Use

LEMMA MoveGoto ==
    ASSUME MoveTypes, NEW pc \in M!Pcs, M!Goto(pc)
    PROVE  /\ call' \in MoveCall /\ call'.pc = pc
           /\ call'.seen = call.seen /\ call'.files = call.files /\ call'.todo = call.todo
           /\ call'.new = call.new /\ call'.copied = call.copied
           /\ call'.carried = call.carried /\ call'.late = call.late
BY DEF MoveTypes, MoveCall, M!Goto

LEMMA NextId ==
    ASSUME MoveTypes, Given, used.ids < MaxIds
    PROVE  /\ M!NewId \in M!Ids /\ M!NewId > used.ids /\ M!NewId # M!Src
           /\ M!NewId \in 1..M!NewId /\ ~M!Exists(M!NewId)
           /\ \A id \in 1..used.ids : id # M!NewId /\ id \in 1..M!NewId
           /\ \A id \in M!Ids : id > M!NewId => id > used.ids /\ id # M!NewId
<1>1. used.ids \in Nat /\ used.ids + 1 \in 0..MaxIds
  BY MoveAssumption DEF MoveTypes, M!Ids
<1> QED BY <1>1, MoveAssumption DEF Given, M!NewId, M!Ids, M!Src

LEMMA Copies == M!Src \in M!Ids /\ \A n \in M!Ids : \A id \in 1..n : id \in M!Ids /\ id # M!Src
BY MoveAssumption DEF M!Ids, M!Src

\* The world after a re-parent, with the copy, with a part more, without a task.
LEMMA ReparentedIs ==
    ASSUME MoveTypes, Given, M!Exists(M!Src), used.ids < MaxIds
    PROVE  /\ M!Reparented \in [M!Ids -> M!Task \cup {None}]
           /\ M!Reparented[M!Src] = None /\ M!Reparented[M!NewId] # None
           /\ M!Reparented[M!NewId].list = "to"
           /\ M!Reparented[M!NewId].parts = graph[M!Src].parts
           /\ \A id \in M!Ids \ {M!Src, M!NewId} : M!Reparented[id] = graph[id]
<1> DEFINE new == [graph[M!Src] EXCEPT !.list = "to"]
<1>1. graph[M!Src] \in M!Task
  BY Copies DEF MoveTypes, M!Exists
<1>2. new \in M!Task /\ new.list = "to" /\ new.parts = graph[M!Src].parts
  BY <1>1 DEF M!Task
<1>3. new # None
  BY <1>2, MoveAssumption
<1>4. M!Reparented = [graph EXCEPT ![M!Src] = None, ![M!NewId] = new]
  BY DEF M!Reparented
<1> HIDE DEF new
<1> QED BY <1>2, <1>3, <1>4, NextId, Copies DEF MoveTypes

LEMMA WithCopyIs ==
    ASSUME MoveTypes, Given, used.ids < MaxIds
    PROVE  /\ M!WithCopy \in [M!Ids -> M!Task \cup {None}]
           /\ M!WithCopy[M!NewId] \in M!Task /\ M!WithCopy[M!NewId] # None
           /\ M!WithCopy[M!NewId].list = "to" /\ M!WithCopy[M!NewId].parts = {}
           /\ \A id \in M!Ids \ {M!NewId} : M!WithCopy[id] = graph[id]
<1> DEFINE new == [list |-> "to", parts |-> {}, day |-> FALSE]
<1>1. new \in M!Task /\ new.list = "to" /\ new.parts = {}
  BY DEF M!Task
<1>2. new # None
  BY <1>1, MoveAssumption
<1>3. M!WithCopy = [graph EXCEPT ![M!NewId] = new]
  BY DEF M!WithCopy
<1> HIDE DEF new
<1> QED BY <1>1, <1>2, <1>3, NextId, Copies DEF MoveTypes

LEMMA CopyHasIs ==
    ASSUME MoveTypes, call.new \in M!Ids, M!Exists(call.new), NEW p \in M!Parts
    PROVE  /\ M!CopyHas(p) \in [M!Ids -> M!Task \cup {None}] /\ M!CopyHas(p)[call.new] # None
           /\ M!CopyHas(p)[call.new].list = graph[call.new].list
           /\ M!CopyHas(p)[call.new].parts = graph[call.new].parts \cup {p}
           /\ \A id \in M!Ids \ {call.new} : M!CopyHas(p)[id] = graph[id]
<1> DEFINE old == graph[call.new]
           new == [old EXCEPT !.parts = @ \cup {p}]
<1>1. old \in M!Task
  BY DEF MoveTypes, M!Exists
<1>2. new \in M!Task /\ new.list = old.list /\ new.parts = old.parts \cup {p}
  BY <1>1 DEF M!Task
<1>3. new # None
  BY <1>2, MoveAssumption
<1>4. M!CopyHas(p) = [graph EXCEPT ![call.new] = new]
  BY DEF M!CopyHas
<1> HIDE DEF new
<1> QED BY <1>2, <1>3, <1>4 DEF MoveTypes

LEMMA WithoutIs ==
    ASSUME MoveTypes, NEW i \in M!Ids
    PROVE  /\ M!Without(i) \in [M!Ids -> M!Task \cup {None}] /\ M!Without(i)[i] = None
           /\ \A id \in M!Ids \ {i} : M!Without(i)[id] = graph[id]
BY DEF MoveTypes, M!Without

LEMMA MoveInit == M!Init => MoveOk
<1> SUFFICES ASSUME M!Init PROVE MoveOk
  OBVIOUS
<1>1. PICK parts \in SUBSET M!Parts, day \in BOOLEAN :
        LET src == [list |-> "from", parts |-> parts, day |-> day]
        IN  /\ graph = [id \in M!Ids |-> IF id = M!Src THEN src ELSE None]
            /\ index = [id \in M!Ids |-> IF id # M!Src THEN None ELSE
                          [list |-> "from", files |-> M!HasFiles(parts),
                           items |-> M!HasItems(parts)]]
  BY DEF M!Init
<1> DEFINE src == [list |-> "from", parts |-> parts, day |-> day]
           files == M!HasFiles(parts)
           items == M!HasItems(parts)
           row == [list |-> "from", files |-> files, items |-> items]
<1>2. src \in M!Task /\ src.list = "from" /\ src # None
  BY MoveAssumption DEF M!Task
<1>3. files \in BOOLEAN /\ items \in BOOLEAN
  BY DEF M!HasFiles, M!HasItems
<1>4. row \in M!Row /\ row # None
  <2> HIDE DEF files, items
  <2> QED BY <1>3, MoveAssumption DEF M!Row
<1>5. /\ graph = [id \in M!Ids |-> IF id = M!Src THEN src ELSE None]
      /\ index = [id \in M!Ids |-> IF id # M!Src THEN None ELSE row]
  BY <1>1
<1> HIDE DEF src, row
<1>6. /\ call \in MoveCall /\ call.pc = "idle" /\ call.seen = {} /\ call.late = "no"
      /\ ~call.files /\ ~call.carried
  BY DEF M!Init, M!NoCall, MoveCall, M!Pcs
<1>7. /\ used \in [ids : M!Ids, calls : Nat, faults : Nat]
      /\ used.ids = 0 /\ used.calls = 0 /\ feed = {}
  BY Copies DEF M!Init, M!Src
<1>8. MoveTypes
  BY <1>2, <1>4, <1>5, <1>6, <1>7 DEF MoveTypes
<1>9. M!Exists(M!Src) /\ Only({M!Src}) /\ graph[M!Src].list = "from"
  BY <1>2, <1>5, Copies DEF M!Exists, Only
<1>10. Given
  <2>1. \A id \in M!Ids : id > 0 => id # M!Src
    BY DEF M!Src, M!Ids
  <2> QED BY <1>5, <1>6, <1>7, <2>1 DEF Given, M!Exists, Began, Copying
<1>11. Known
  BY <1>2, <1>4, <1>5, <1>7 DEF Known, M!Exists
<1>12. Kept /\ Source /\ Copy /\ Arrived /\ First
  BY <1>6, <1>7, <1>9 DEF Kept, Source, Copy, Arrived, First, Began, Copying, M!RowTellsParts
<1> QED BY <1>8, <1>10, <1>11, <1>12 DEF MoveOk

\* A step that leaves the tasks and their rows alone.
LEMMA CallGoesOn ==
    ASSUME MoveOk, UNCHANGED <<graph, feed, index>>, call' \in MoveCall,
           used' \in [ids : M!Ids, calls : Nat, faults : Nat],
           used'.ids = used.ids,
           Source', Copy', First',
           M!Exists(M!Src) => call'.seen \subseteq graph[M!Src].parts,
           call'.seen \subseteq call.seen \/ M!Exists(M!Src),
           call'.pc \in Began => call.pc \in Began /\ call'.new = call.new,
           call'.pc \notin {"presumed", "guessed", "moved", "copied", "warned"},
           call.pc \notin {"presumed", "guessed"}
    PROVE  MoveOk'
<1>1. MoveTypes' /\ Given' /\ Known'
  BY DEF MoveOk, MoveTypes, Given, Known, M!Exists, Began, Copying
<1>2. Kept'
  BY DEF MoveOk, Kept, M!Exists
<1>3. Arrived'
  BY DEF Arrived, M!RowTellsParts
<1> QED BY <1>1, <1>2, <1>3 DEF MoveOk

LEMMA Crashes == ASSUME MoveOk, M!Crash PROVE MoveOk'
<1>1. /\ call' \in MoveCall /\ call'.pc = "idle" /\ call'.seen = {} /\ ~call'.files
      /\ ~call'.carried /\ call'.late = call.late
  BY DEF M!Crash, M!NoCall, MoveOk, MoveTypes, MoveCall, M!Pcs
<1>2. /\ used' \in [ids : M!Ids, calls : Nat, faults : Nat]
      /\ used'.ids = used.ids /\ used'.calls = used.calls /\ used'.faults # 0
  BY FaultIs DEF M!Crash, MoveOk
<1>3. UNCHANGED <<graph, feed, index>> /\ call.pc \notin M!Answers \cup {"idle"}
  BY DEF M!Crash, M!AtRest
<1>4. Source' /\ Copy' /\ First'
  BY <1>1, <1>2, <1>3 DEF MoveOk, Source, Copy, First, Only, M!Exists, Began, Copying
<1> QED BY <1>1, <1>2, <1>3, <1>4, CallGoesOn DEF M!Answers, Began, Copying

LEMMA MoveBegins == ASSUME MoveOk, M!Begin PROVE MoveOk'
<1>1. /\ call' \in MoveCall /\ call'.pc = "reading" /\ call'.seen = {} /\ ~call'.files
      /\ ~call'.carried /\ call'.late = call.late /\ call'.copied = {}
  BY DEF M!Begin, M!NoCall, MoveOk, MoveTypes, MoveCall, M!Pcs
<1>2. /\ used' \in [ids : M!Ids, calls : Nat, faults : Nat]
      /\ used'.ids = used.ids /\ used'.calls = used.calls + 1 /\ used'.faults = used.faults
  BY DEF M!Begin, M!Use, MoveOk, MoveTypes
<1>3. UNCHANGED <<graph, feed, index>>
      /\ call.pc \in {"idle", "failed", "list_not_found", "aborted", "orphan"}
  BY DEF M!Begin
<1>4. used.calls \in Nat
  BY DEF MoveOk, MoveTypes
<1>5. Source' /\ Copy'
  BY <1>1, <1>2, <1>3 DEF MoveOk, Source, Copy, M!Exists, Began, Copying
<1>6. First'
  BY <1>1, <1>2, <1>3, <1>4 DEF MoveOk, First, Only, M!Exists, Began, Copying
<1> QED BY <1>1, <1>2, <1>3, <1>5, <1>6, CallGoesOn DEF Began, Copying

\* The call ends or goes on in a way that asks nothing new.
LEMMA MoveStops ==
    ASSUME MoveOk, UNCHANGED <<graph, feed, index>>, used' = used \/ M!Fault,
           NEW pc \in {"failed", "list_not_found", "task_not_found", "aborting"}, M!Goto(pc),
           call.pc \notin M!Answers \cup {"idle"},
           call.pc # "deleting", pc = "aborting" => call.pc \in {"copying", "listing"}
    PROVE  MoveOk'
<1>1. /\ used' \in [ids : M!Ids, calls : Nat, faults : Nat]
      /\ used'.ids = used.ids /\ used'.calls = used.calls
      /\ used'.faults # 0 \/ used'.faults = used.faults
  BY FaultIs DEF MoveOk, MoveTypes
<1>2. /\ call' \in MoveCall /\ call'.pc = pc
      /\ call'.seen = call.seen /\ call'.files = call.files
      /\ call'.new = call.new /\ call'.carried = call.carried /\ call'.late = call.late
  BY MoveGoto DEF MoveOk, M!Pcs, M!Answers
<1>3. call.pc \notin {"presumed", "guessed", "moved", "copied", "warned", "idle"} /\ ~call.carried
  BY DEF MoveOk, Copy, M!Answers
<1>4. Source' /\ Copy' /\ First'
  BY <1>1, <1>2, <1>3 DEF MoveOk, Source, Copy, First, Only, M!Exists, Began, Copying
<1> QED BY <1>1, <1>2, <1>3, <1>4, CallGoesOn DEF MoveOk, Kept, Began, Copying

LEMMA SourceIsRead == ASSUME MoveOk, M!ReadSource PROVE MoveOk'
<1>0. UNCHANGED <<graph, feed, index>> /\ call.pc = "reading"
  BY DEF M!ReadSource
<1>1. CASE used' = used /\ M!Exists(M!Src)
  <2> DEFINE pc == IF MyDay THEN "moving" ELSE "creating"
             seen == graph[M!Src].parts \ Files
             files == M!HasFiles(graph[M!Src].parts)
  <2>1. \/ call' = [call EXCEPT !.pc = pc, !.seen = seen, !.files = files]
        \/ M!Fault /\ M!Goto("failed")
    BY <1>1 DEF M!ReadSource
  <2>2. graph[M!Src] \in M!Task
    BY <1>1, Copies DEF MoveOk, MoveTypes, M!Exists
  <2>3. /\ pc \in {"moving", "creating"} /\ pc \in M!Pcs /\ files \in BOOLEAN
        /\ seen \in SUBSET M!Parts /\ seen \subseteq graph[M!Src].parts
    BY <2>2 DEF M!HasFiles, M!Task, M!Pcs
  <2>4. seen = graph[M!Src].parts \ Files /\ files = M!HasFiles(graph[M!Src].parts)
    OBVIOUS
  <2>5. used'.faults # 0 \/ ~M!Fault
    BY FaultIs DEF MoveOk
  <2> HIDE DEF pc, seen, files
  <2>6. CASE call' = [call EXCEPT !.pc = pc, !.seen = seen, !.files = files]
    <3>1. /\ call' \in MoveCall /\ call'.pc = pc /\ call'.seen = seen /\ call'.files = files
          /\ call'.carried = call.carried /\ call'.late = call.late
          /\ call'.copied = call.copied
      BY <2>3, <2>6 DEF MoveOk, MoveTypes, MoveCall
    <3>2. used' \in [ids : M!Ids, calls : Nat, faults : Nat]
      BY <1>1 DEF MoveOk, MoveTypes
    <3>3. Source'
      BY <1>0, <1>1, <2>3, <2>4, <3>1 DEF MoveOk, Source, M!Exists
    <3>4. Copy' /\ First'
      BY <1>0, <1>1, <2>3, <3>1 DEF MoveOk, Copy, First, Only, M!Exists, Began, Copying
    <3> QED BY <1>0, <1>1, <2>3, <3>1, <3>2, <3>3, <3>4, CallGoesOn DEF Began, Copying
  <2>7. CASE M!Fault /\ M!Goto("failed")
    BY <1>0, <2>7, MoveStops DEF M!Answers
  <2> QED BY <2>1, <2>6, <2>7
<1>2. CASE used' = used /\ ~M!Exists(M!Src)
  <2>1. M!Goto("task_not_found") \/ (M!Fault /\ M!Goto("failed"))
    BY <1>2 DEF M!ReadSource, M!Goto
  <2> QED BY <1>0, <1>2, <2>1, MoveStops DEF M!Answers
<1>3. CASE M!Fault /\ M!Goto("failed")
  BY <1>0, <1>3, MoveStops DEF M!Answers
<1> QED BY <1>1, <1>2, <1>3 DEF M!ReadSource

LEMMA BareIs ==
    ASSUME NEW task \in M!Task PROVE M!Bare(task) \in M!Row /\ M!Bare(task) # None
<1> DEFINE files == M!HasFiles(task.parts)
<1>1. files \in BOOLEAN
  BY DEF M!HasFiles
<1>2. task.list \in {"from", "to"} /\ M!Bare(task) = [list |-> task.list, items |-> FALSE, files |-> files]
  BY DEF M!Bare, M!Task
<1> HIDE DEF files
<1>3. M!Bare(task) \in M!Row
  BY <1>1, <1>2 DEF M!Row
<1> QED BY <1>3, MoveAssumption

LEMMA MoveSync == ASSUME MoveOk, M!Sync PROVE MoveOk'
<1>1. /\ UNCHANGED <<graph, call, used>> /\ feed' = {} /\ call.pc \in M!Answers \cup {"idle"}
      /\ index' = [id \in M!Ids |-> IF id \notin feed THEN index[id]
                                    ELSE IF M!Exists(id) THEN M!Bare(graph[id]) ELSE None]
  BY DEF M!Sync, M!AtRest
<1>2. \A id \in M!Ids : M!Exists(id) => graph[id] \in M!Task
  BY DEF MoveOk, MoveTypes, M!Exists
<1>3. index' \in [M!Ids -> M!Row \cup {None}]
  BY <1>1, <1>2, BareIs DEF MoveOk, MoveTypes
<1>4. MoveTypes' /\ Given' /\ Kept' /\ Source' /\ First'
  BY <1>1, <1>3 DEF MoveOk, MoveTypes, Given, Kept, Source, First, Only, M!Exists
<1>5. Copy' /\ Arrived'
  BY <1>1 DEF MoveOk, Copy, Arrived, M!RowTellsParts, M!Exists, M!Answers, Copying
<1>6. Known'
  BY <1>1, <1>2, BareIs DEF MoveOk, Known, M!Exists
<1> QED BY <1>4, <1>5, <1>6 DEF MoveOk

LEMMA MoveEdited == ASSUME MoveOk, NEW p \in M!Parts, M!Edit(p) PROVE MoveOk'
<1> DEFINE new == [graph[M!Src] EXCEPT !.parts = @ \cup {p}]
<1>1. /\ M!Fault /\ M!Exists(M!Src) /\ graph' = [graph EXCEPT ![M!Src] = new]
      /\ feed' = feed \cup {M!Src} /\ UNCHANGED <<index, call>>
  BY DEF M!Edit
<1>2. graph[M!Src] \in M!Task
  BY <1>1, Copies DEF MoveOk, MoveTypes, M!Exists
<1>3. new \in M!Task /\ new.list = graph[M!Src].list /\ new.parts = graph[M!Src].parts \cup {p}
      /\ new # None
  BY <1>2, MoveAssumption DEF M!Task
<1> HIDE DEF new
<1>4. /\ graph' \in [M!Ids -> M!Task \cup {None}] /\ graph'[M!Src] = new
      /\ \A id \in M!Ids \ {M!Src} : graph'[id] = graph[id]
  BY <1>1, <1>3, Copies DEF MoveOk, MoveTypes
<1>5. /\ used' \in [ids : M!Ids, calls : Nat, faults : Nat]
      /\ used'.ids = used.ids /\ used'.calls = used.calls /\ used'.faults # 0
  BY <1>1, FaultIs DEF MoveOk
<1>6. \A id \in M!Ids : graph'[id] # None <=> graph[id] # None
  BY <1>1, <1>3, <1>4 DEF M!Exists
<1>7. MoveTypes' /\ Given' /\ Known'
  BY <1>1, <1>4, <1>5, <1>6, Copies DEF MoveOk, MoveTypes, Given, Known, M!Exists
<1>8. Kept'
  BY <1>1, <1>3, <1>4, <1>6, Copies DEF MoveOk, Kept, M!Exists
<1>9. Source'
  BY <1>1, <1>3, <1>4, <1>5, <1>6, Copies DEF MoveOk, Source, M!Exists, M!HasFiles
<1>10. Copy' /\ Arrived'
  <2>1. call.pc \in Began \cup {"moved", "copied", "warned"} =>
          call.new \in M!Ids /\ call.new # M!Src
    BY Copies DEF MoveOk, MoveTypes, Given
  <2>2. Copy'
    BY <1>1, <1>4, <1>5, <1>6, <2>1 DEF MoveOk, Copy, M!Exists, Began, Copying
  <2>3. Arrived'
    BY <1>1, <1>5 DEF MoveOk, Arrived, M!RowTellsParts
  <2> QED BY <2>2, <2>3
<1>11. First'
  BY <1>1, <1>5, <1>6 DEF MoveOk, First, Only, M!Exists
<1> QED BY <1>7, <1>8, <1>9, <1>10, <1>11 DEF MoveOk

LEMMA MoveLate == ASSUME MoveOk, M!LateCommit PROVE MoveOk'
<1>1. /\ call.late = "due" /\ M!Exists(M!Src) /\ used.ids < MaxIds
      /\ graph' = M!Reparented /\ feed' = feed \cup {M!Src, M!NewId} /\ index' = index
      /\ used' = [used EXCEPT !.ids = M!NewId] /\ call' = [call EXCEPT !.late = "done"]
  BY DEF M!LateCommit
<1> DEFINE n == M!NewId
<1>2. /\ n \in M!Ids /\ n # M!Src /\ ~M!Exists(n)
      /\ \A id \in 1..used.ids : id # n /\ id \in 1..n
      /\ \A id \in M!Ids : id > n => id > used.ids /\ id # n
  BY <1>1, NextId DEF MoveOk
<1>3. /\ graph' \in [M!Ids -> M!Task \cup {None}]
      /\ graph'[M!Src] = None /\ graph'[n] # None /\ graph'[n].parts = graph[M!Src].parts
      /\ \A id \in M!Ids \ {M!Src, n} : graph'[id] = graph[id]
  BY <1>1, ReparentedIs DEF MoveOk
<1>4. /\ used' \in [ids : M!Ids, calls : Nat, faults : Nat] /\ used'.ids = n
      /\ used'.calls = used.calls /\ used'.faults = used.faults
  BY <1>1, <1>2 DEF MoveOk, MoveTypes
<1>5. /\ call' \in MoveCall /\ call'.pc = call.pc /\ call'.seen = call.seen
      /\ call'.files = call.files /\ call'.todo = call.todo /\ call'.new = call.new
      /\ call'.copied = call.copied /\ call'.carried = call.carried /\ call'.late = "done"
  BY <1>1 DEF MoveOk, MoveTypes, MoveCall
<1> HIDE DEF n
<1>6. call.pc \in Began \cup {"moved", "copied", "warned"} =>
        call.new \in 1..used.ids /\ call.new \in M!Ids /\ call.new # M!Src /\ call.new # n
  BY <1>2, Copies DEF MoveOk, MoveTypes, Given
<1>7. MoveTypes' /\ Given'
  BY <1>1, <1>2, <1>3, <1>4, <1>5, <1>6, Copies DEF MoveOk, MoveTypes, Given, M!Exists, n
<1>8. Kept'
  BY <1>1, <1>2, <1>3, <1>5, <1>6 DEF MoveOk, Kept, M!Exists
<1>9. Source' /\ First'
  BY <1>1, <1>3, <1>4, <1>5 DEF MoveOk, Source, First, M!Exists
<1>10. Copy'
  BY <1>1, <1>3, <1>4, <1>5, <1>6 DEF MoveOk, Copy, M!Exists, Began, Copying
<1>11. Arrived' /\ Known'
  BY <1>1, <1>2, <1>3, <1>4, <1>5 DEF MoveOk, Source, Arrived, M!RowTellsParts, Known, M!Exists, n
<1> QED BY <1>7, <1>8, <1>9, <1>10, <1>11 DEF MoveOk

LEMMA WriteThroughIs ==
    ASSUME NEW rows, NEW u \in [ids : M!Ids, calls : Nat, faults : Nat],
           M!WriteThrough(rows, u)
    PROVE  /\ index' \in {rows, index}
           /\ used' \in [ids : M!Ids, calls : Nat, faults : Nat]
           /\ used'.ids = u.ids /\ used'.calls = u.calls
           /\ used'.faults = 0 => u.faults = 0 /\ index' = rows
BY DEF M!WriteThrough

LEMMA MoveReparents == ASSUME MoveOk, M!Reparent PROVE MoveOk'
<1> DEFINE n == M!NewId
           items == M!HasItems(call.seen)
           row == [list |-> "to", items |-> items, files |-> call.files]
           rows == [index EXCEPT ![M!Src] = None, ![n] = row]
           u == [used EXCEPT !.ids = n]
<1>1. /\ call.pc = "moving" /\ M!Exists(M!Src) /\ used.ids < MaxIds
      /\ graph' = M!Reparented /\ feed' = feed \cup {M!Src, n}
      /\ call' = [call EXCEPT !.pc = "moved", !.new = n]
      /\ M!WriteThrough(rows, u)
  BY DEF M!Reparent, M!Rekeyed
<1>2. /\ n \in M!Ids /\ n # M!Src /\ ~M!Exists(n) /\ n \in 1..n
      /\ \A id \in M!Ids : id > n => id > used.ids /\ id # n
  BY <1>1, NextId DEF MoveOk
<1>3. /\ graph' \in [M!Ids -> M!Task \cup {None}] /\ graph'[M!Src] = None
      /\ graph'[n] # None /\ graph'[n].list = "to" /\ graph'[n].parts = graph[M!Src].parts
      /\ \A id \in M!Ids \ {M!Src, n} : graph'[id] = graph[id]
  BY <1>1, ReparentedIs DEF MoveOk
<1>4. /\ call' \in MoveCall /\ call'.pc = "moved" /\ call'.seen = call.seen
      /\ call'.files = call.files /\ call'.new = n /\ call'.carried = call.carried
      /\ call'.late = call.late
  BY <1>1, <1>2 DEF MoveOk, MoveTypes, MoveCall, M!Pcs, M!Answers
<1>5. u \in [ids : M!Ids, calls : Nat, faults : Nat] /\ u.ids = n /\ u.calls = used.calls
      /\ u.faults = used.faults
  BY <1>2 DEF MoveOk, MoveTypes
<1>6. items \in BOOLEAN /\ call.files \in BOOLEAN
  BY DEF M!HasItems, MoveOk, MoveTypes, MoveCall
<1>7. row \in M!Row /\ row.items = items /\ row.files = call.files
  <2> HIDE DEF items
  <2> QED BY <1>6 DEF M!Row
<1> HIDE DEF row
<1>8. rows \in [M!Ids -> M!Row \cup {None}] /\ rows[n] = row
  BY <1>2, <1>7, Copies DEF MoveOk, MoveTypes
<1> HIDE DEF rows, u
<1>9. /\ index' \in {rows, index}
      /\ used' \in [ids : M!Ids, calls : Nat, faults : Nat] /\ used'.ids = n
      /\ used'.calls = used.calls
      /\ used'.faults = 0 => used.faults = 0 /\ index' = rows
  BY <1>1, <1>5, WriteThroughIs
<1>10. MoveTypes' /\ Given'
  <2> HIDE DEF n
  <2> QED BY <1>1, <1>2, <1>3, <1>4, <1>8, <1>9, Copies DEF MoveOk, MoveTypes, Given, M!Exists
<1>11. Kept'
  BY <1>1, <1>2, <1>3, <1>4 DEF MoveOk, Kept, M!Exists, Began, Copying
<1>12. Source'
  BY <1>1, <1>3, <1>4, <1>9 DEF MoveOk, Source, M!Exists, Began, Copying
<1>13. Copy'
  BY <1>1, <1>4 DEF MoveOk, Copy, Copying
<1>14. M!RowTellsParts'
  <2> SUFFICES ASSUME used'.faults = 0
               PROVE  /\ index'[n].items = M!HasItems(graph'[n].parts)
                      /\ index'[n].files = M!HasFiles(graph'[n].parts)
    BY <1>4 DEF M!RowTellsParts
  <2>1. call.seen = graph[M!Src].parts \ Files /\ call.files = M!HasFiles(graph[M!Src].parts)
    BY <1>1, <1>9 DEF MoveOk, Source
  <2>2. M!HasItems(graph[M!Src].parts) = items
    BY <2>1 DEF M!HasItems
  <2> QED BY <1>3, <1>7, <1>8, <1>9, <2>1, <2>2
<1>15. Arrived'
  BY <1>1, <1>3, <1>4, <1>14 DEF MoveOk, Source, Kept, Arrived, M!Exists
<1>16. First'
  BY <1>1, <1>2, <1>3, <1>4, <1>9 DEF MoveOk, First, Only, M!Exists, Began, Copying
<1>17. Known'
  <2>1. \A id \in M!Ids \ feed' : graph'[id] = graph[id] /\ index'[id] = index[id]
    BY <1>1, <1>3, <1>9 DEF MoveOk, MoveTypes, rows
  <2> QED BY <1>1, <2>1 DEF MoveOk, Known, M!Exists
<1> QED BY <1>10, <1>11, <1>12, <1>13, <1>15, <1>16, <1>17 DEF MoveOk

LEMMA MoveUnavailable == ASSUME MoveOk, M!Unavailable PROVE MoveOk'
<1>1. UNCHANGED <<graph, feed, index, used>> /\ call.pc = "moving" /\ M!Goto("creating")
  BY DEF M!Unavailable
<1>2. /\ call' \in MoveCall /\ call'.pc = "creating" /\ call'.seen = call.seen
      /\ call'.files = call.files /\ call'.carried = call.carried /\ call'.late = call.late
      /\ call'.copied = call.copied
  BY <1>1, MoveGoto DEF MoveOk, M!Pcs
<1>3. Source' /\ Copy' /\ First'
  BY <1>1, <1>2 DEF MoveOk, Source, Copy, First, Only, M!Exists, Began, Copying
<1> QED BY <1>1, <1>2, <1>3, CallGoesOn DEF MoveOk, MoveTypes, Kept, Began, Copying

LEMMA MoveUnconfirmed == ASSUME MoveOk, M!Unconfirmed PROVE MoveOk'
<1>0. call.pc = "moving" /\ index' = index
  BY DEF M!Unconfirmed
<1>1. CASE /\ M!Exists(M!Src) /\ used.ids < MaxIds
           /\ graph' = M!Reparented /\ feed' = feed \cup {M!Src, M!NewId}
           /\ used' = [used EXCEPT !.ids = M!NewId, !.faults = @ + 1]
           /\ M!Goto("checking")
  <2> DEFINE n == M!NewId
  <2>2. /\ n \in M!Ids /\ n # M!Src /\ ~M!Exists(n)
        /\ \A id \in M!Ids : id > n => id > used.ids /\ id # n
    BY <1>1, NextId DEF MoveOk
  <2>3. /\ graph' \in [M!Ids -> M!Task \cup {None}]
        /\ graph'[M!Src] = None /\ graph'[n] # None /\ graph'[n].parts = graph[M!Src].parts
        /\ graph'[n].list = "to"
        /\ \A id \in M!Ids \ {M!Src, n} : graph'[id] = graph[id]
    BY <1>1, ReparentedIs DEF MoveOk
  <2>4. /\ used' \in [ids : M!Ids, calls : Nat, faults : Nat] /\ used'.ids = n
        /\ used'.calls = used.calls /\ used'.faults # 0
    <3> DEFINE more == used.faults + 1
    <3>1. more \in Nat /\ more # 0
      BY DEF MoveOk, MoveTypes
    <3>2. used' = [used EXCEPT !.ids = n, !.faults = more]
      BY <1>1
    <3> HIDE DEF more, n
    <3> QED BY <2>2, <3>1, <3>2 DEF MoveOk, MoveTypes
  <2>5. /\ call' \in MoveCall /\ call'.pc = "checking" /\ call'.seen = call.seen
        /\ call'.files = call.files /\ call'.carried = call.carried /\ call'.late = call.late
        /\ call'.copied = call.copied
    BY <1>1, MoveGoto DEF MoveOk, M!Pcs
  <2> HIDE DEF n
  <2>6. MoveTypes' /\ Given'
    BY <1>0, <1>1, <2>2, <2>3, <2>4, <2>5, Copies
       DEF MoveOk, MoveTypes, Given, M!Exists, Began, Copying, n
  <2>7. Kept'
    BY <1>1, <2>2, <2>3, <2>5 DEF MoveOk, Kept, M!Exists, Began, Copying
  <2>8. Source' /\ Copy'
    BY <1>0, <1>1, <2>3, <2>4, <2>5 DEF MoveOk, Source, Copy, M!Exists, Began, Copying
  <2>9. Arrived'
    BY <1>0, <2>4, <2>5 DEF MoveOk, Arrived, M!RowTellsParts
  <2>10. First'
    BY <1>0, <2>2, <2>3, <2>4, <2>5 DEF MoveOk, First, Only, M!Exists, Began, Copying
  <2>11. Known'
    BY <1>0, <1>1, <2>3, <2>5 DEF MoveOk, Known, M!Exists, n
  <2> QED BY <2>6, <2>7, <2>8, <2>9, <2>10, <2>11 DEF MoveOk
<1>2. CASE /\ \E late \in {call.late, "due"} :
                call' = [call EXCEPT !.pc = "checking", !.late = late]
           /\ M!Fault /\ UNCHANGED <<graph, feed>>
  <2>1. PICK late \in {call.late, "due"} :
                call' = [call EXCEPT !.pc = "checking", !.late = late]
    BY <1>2
  <2>2. /\ call' \in MoveCall /\ call'.pc = "checking" /\ call'.seen = call.seen
        /\ call'.files = call.files /\ call'.carried = call.carried /\ call'.late = late
        /\ call'.copied = call.copied
    BY <2>1 DEF MoveOk, MoveTypes, MoveCall, M!Pcs
  <2>3. /\ used' \in [ids : M!Ids, calls : Nat, faults : Nat]
        /\ used'.ids = used.ids /\ used'.calls = used.calls /\ used'.faults # 0
    BY <1>2, FaultIs DEF MoveOk
  <2>4. Source' /\ Copy'
    BY <1>0, <1>2, <2>2, <2>3 DEF MoveOk, Source, Copy, M!Exists, Began, Copying
  <2>5. First'
    <3> SUFFICES ASSUME used'.calls = 1, call'.late # "done"
                 PROVE  M!Exists(M!Src)' /\ Only({M!Src})'
      BY <1>0, <2>2, <2>3, Copies DEF MoveOk, First, Began, Copying
    <3>1. call.late = "no"
      BY <1>0, <2>3 DEF MoveOk, First
    <3> QED BY <1>0, <1>2, <2>3, <3>1 DEF MoveOk, First, Source, Only, M!Exists
  <2> QED BY <1>0, <1>2, <2>2, <2>3, <2>4, <2>5, CallGoesOn DEF MoveOk, Kept, Began, Copying
<1> QED BY <1>1, <1>2 DEF M!Unconfirmed

LEMMA MoveRechecked == ASSUME MoveOk, M!Recheck PROVE MoveOk'
<1>1. PICK present \in M!recheckSource :
        /\ LET u == IF present = "unknown"
                    THEN [used EXCEPT !.faults = @ + 1] ELSE used
           IN  /\ M!Goto(M!Decide(present))
               /\ IF M!Decide(present) = "creating"
                  THEN used' = u /\ UNCHANGED index
                  ELSE M!WriteThrough([index EXCEPT ![M!Src] = None], u)
  BY DEF M!Recheck
<1>2. call.pc = "checking" /\ UNCHANGED <<graph, feed>>
  BY DEF M!Recheck
<1> DEFINE more == used.faults + 1
           u == IF present = "unknown" THEN [used EXCEPT !.faults = more] ELSE used
           rows == [index EXCEPT ![M!Src] = None]
<1>3. more \in Nat /\ more # 0
  BY DEF MoveOk, MoveTypes
<1>4. /\ u \in [ids : M!Ids, calls : Nat, faults : Nat] /\ u.ids = used.ids
      /\ u.calls = used.calls /\ (u.faults = used.faults \/ u.faults # 0)
  <2> HIDE DEF more
  <2> QED BY <1>3 DEF MoveOk, MoveTypes
<1>5. rows \in [M!Ids -> M!Row \cup {None}]
  BY Copies DEF MoveOk, MoveTypes
<1>6. CASE M!Decide(present) = "creating"
  <2>1. M!Exists(M!Src)
    BY <1>6 DEF M!Decide, M!recheckSource
  <2>2. M!Goto("creating") /\ used' = u /\ index' = index
    BY <1>1, <1>6
  <2> HIDE DEF u
  <2>3. /\ call' \in MoveCall /\ call'.pc = "creating" /\ call'.seen = call.seen
        /\ call'.files = call.files /\ call'.carried = call.carried /\ call'.late = call.late
        /\ call'.copied = call.copied
    BY <2>2, MoveGoto DEF MoveOk, M!Pcs
  <2>4. Source' /\ Copy' /\ First'
    BY <1>2, <1>4, <2>1, <2>2, <2>3, Copies
       DEF MoveOk, Source, Copy, First, Only, M!Exists, Began, Copying
  <2> QED BY <1>2, <1>4, <2>1, <2>2, <2>3, <2>4, CallGoesOn DEF MoveOk, Kept, Began, Copying
<1>7. ASSUME NEW pc \in {"presumed", "guessed"}, M!Decide(present) = pc PROVE MoveOk'
  <2>1. M!Goto(pc) /\ M!WriteThrough(rows, u)
    BY <1>1, <1>7
  <2>2. pc = "presumed" => ~M!Exists(M!Src)
    BY <1>7 DEF M!Decide, M!recheckSource
  <2> HIDE DEF u
  <2>3. /\ index' \in {rows, index} /\ used' \in [ids : M!Ids, calls : Nat, faults : Nat]
        /\ used'.ids = used.ids /\ used'.calls = used.calls
        /\ used'.faults = 0 => used.faults = 0
    <3> HIDE DEF rows
    <3> QED BY <1>4, <2>1, WriteThroughIs
  <2>4. /\ call' \in MoveCall /\ call'.pc = pc /\ call'.seen = call.seen
        /\ call'.files = call.files /\ call'.carried = call.carried /\ call'.late = call.late
    BY <2>1, MoveGoto DEF MoveOk, M!Pcs, M!Answers
  <2>5. Known'
    <3> SUFFICES ASSUME pc = "presumed", NEW id \in M!Ids \ feed
                 PROVE  M!Exists(id) <=> index'[id] # None
      BY <1>2, <2>4 DEF Known, M!Exists
    <3>1. M!Exists(id) <=> index[id] # None
      BY <1>2 DEF MoveOk, Known
    <3>2. index'[id] = index[id] \/ (id = M!Src /\ index'[id] = None)
      BY <2>3, Copies DEF MoveOk, MoveTypes
    <3> QED BY <2>2, <3>1, <3>2
  <2> HIDE DEF rows
  <2>6. MoveTypes' /\ Given' /\ Kept'
    BY <1>2, <1>5, <2>3, <2>4 DEF MoveOk, MoveTypes, Given, Kept, M!Exists, Began, Copying
  <2>7. Source' /\ Copy' /\ Arrived' /\ First'
    BY <1>2, <2>2, <2>3, <2>4
       DEF MoveOk, Source, Copy, Arrived, First, Only, M!RowTellsParts, M!Exists, Began, Copying
  <2> QED BY <2>5, <2>6, <2>7 DEF MoveOk
<1> QED BY <1>6, <1>7 DEF M!Decide

LEMMA MoveCreates == ASSUME MoveOk, M!Create PROVE MoveOk'
<1> DEFINE n == M!NewId
           row == M!Bare(M!WithCopy[n])
           rows == [index EXCEPT ![n] = row]
           u == [used EXCEPT !.ids = n]
<1>1. /\ call.pc = "creating" /\ used.ids < MaxIds
      /\ graph' = M!WithCopy /\ feed' = feed \cup {n}
      /\ call' = [call EXCEPT !.pc = "copying", !.new = n, !.todo = call.seen]
      /\ M!WriteThrough(rows, u)
  BY DEF M!Create
<1>2. /\ n \in M!Ids /\ n # M!Src /\ ~M!Exists(n) /\ n \in 1..n
      /\ \A id \in M!Ids : id > n => id > used.ids /\ id # n
  BY <1>1, NextId DEF MoveOk
<1>3. /\ graph' \in [M!Ids -> M!Task \cup {None}] /\ graph'[n] # None
      /\ graph'[n].list = "to" /\ graph'[n].parts = {}
      /\ \A id \in M!Ids \ {n} : graph'[id] = graph[id]
  BY <1>1, WithCopyIs DEF MoveOk
<1>4. row \in M!Row /\ row # None
  BY <1>1, WithCopyIs, BareIs DEF MoveOk
<1>5. u \in [ids : M!Ids, calls : Nat, faults : Nat] /\ u.ids = n /\ u.calls = used.calls
      /\ u.faults = used.faults
  BY <1>2 DEF MoveOk, MoveTypes
<1> HIDE DEF row
<1>6. /\ rows \in [M!Ids -> M!Row \cup {None}] /\ rows[n] = row
      /\ \A id \in M!Ids \ {n} : rows[id] = index[id]
  BY <1>2, <1>4 DEF MoveOk, MoveTypes
<1> HIDE DEF rows, u
<1>7. /\ index' \in {rows, index}
      /\ used' \in [ids : M!Ids, calls : Nat, faults : Nat] /\ used'.ids = n
      /\ used'.calls = used.calls
      /\ used'.faults = 0 => used.faults = 0 /\ index' = rows
  BY <1>1, <1>5, WriteThroughIs
<1>8. /\ call' \in MoveCall /\ call'.pc = "copying" /\ call'.seen = call.seen
      /\ call'.files = call.files /\ call'.new = n /\ call'.carried = call.carried
      /\ call'.late = call.late /\ call'.todo = call.seen /\ call'.copied = call.copied
  BY <1>1, <1>2 DEF MoveOk, MoveTypes, MoveCall, M!Pcs
<1> HIDE DEF n
<1>9. MoveTypes'
  BY <1>1, <1>2, <1>3, <1>6, <1>7, <1>8 DEF MoveOk, MoveTypes
<1>10. Given'
  BY <1>2, <1>3, <1>7, <1>8 DEF MoveOk, Given, M!Exists
<1>11. Kept'
  BY <1>1, <1>2, <1>3, <1>8, Copies DEF MoveOk, Kept, M!Exists
<1>12. Source'
  BY <1>1, <1>2, <1>3, <1>7, <1>8, Copies DEF MoveOk, Source, M!Exists
<1>13. Copy'
  BY <1>1, <1>3, <1>4, <1>6, <1>7, <1>8 DEF MoveOk, Copy, M!Exists, Copying
<1>14. Arrived'
  BY <1>8 DEF Arrived, M!RowTellsParts
<1>15. First'
  BY <1>1, <1>2, <1>3, <1>7, <1>8 DEF MoveOk, First, Only, M!Exists, Began, Copying
<1>16. Known'
  BY <1>1, <1>3, <1>6, <1>7, <1>8 DEF MoveOk, Known, M!Exists
<1> QED BY <1>9, <1>10, <1>11, <1>12, <1>13, <1>14, <1>15, <1>16 DEF MoveOk

LEMMA CreateFailed == ASSUME MoveOk, M!CreateFails PROVE MoveOk'
<1>0. call.pc = "creating" /\ index' = index
  BY DEF M!CreateFails
<1>1. CASE /\ used.ids < MaxIds /\ graph' = M!WithCopy /\ feed' = feed \cup {M!NewId}
           /\ used' = [used EXCEPT !.ids = M!NewId, !.faults = @ + 1]
           /\ M!Goto("failed")
  <2> DEFINE n == M!NewId
             more == used.faults + 1
  <2>1. /\ n \in M!Ids /\ n # M!Src /\ ~M!Exists(n)
        /\ \A id \in M!Ids : id > n => id > used.ids /\ id # n
    BY <1>1, NextId DEF MoveOk
  <2>2. /\ graph' \in [M!Ids -> M!Task \cup {None}]
        /\ \A id \in M!Ids \ {n} : graph'[id] = graph[id]
    BY <1>1, WithCopyIs DEF MoveOk
  <2>3. more \in Nat /\ more # 0
    BY DEF MoveOk, MoveTypes
  <2>4. used' = [used EXCEPT !.ids = n, !.faults = more] /\ feed' = feed \cup {n}
    BY <1>1
  <2> HIDE DEF n, more
  <2>5. /\ used' \in [ids : M!Ids, calls : Nat, faults : Nat] /\ used'.ids = n
        /\ used'.calls = used.calls /\ used'.faults # 0
    BY <2>1, <2>3, <2>4 DEF MoveOk, MoveTypes
  <2>6. /\ call' \in MoveCall /\ call'.pc = "failed" /\ call'.seen = call.seen
        /\ call'.files = call.files /\ call'.carried = call.carried /\ call'.late = call.late
    BY <1>1, MoveGoto DEF MoveOk, M!Pcs, M!Answers
  <2>7. MoveTypes' /\ Given'
    BY <1>0, <2>1, <2>2, <2>4, <2>5, <2>6 DEF MoveOk, MoveTypes, Given, M!Exists, Began, Copying
  <2>8. Kept'
    BY <2>1, <2>2, <2>6, Copies DEF MoveOk, Kept, M!Exists, Began, Copying
  <2>9. Source' /\ Copy' /\ Arrived' /\ First'
    BY <1>0, <2>1, <2>2, <2>5, <2>6, Copies
       DEF MoveOk, Source, Copy, Arrived, First, M!RowTellsParts, M!Exists, Began, Copying
  <2>10. Known'
    BY <1>0, <2>2, <2>4, <2>6 DEF MoveOk, Known, M!Exists
  <2> QED BY <2>7, <2>8, <2>9, <2>10 DEF MoveOk
<1>2. CASE /\ \E pc \in {"failed", "list_not_found"} : M!Goto(pc)
           /\ M!Fault /\ UNCHANGED <<graph, feed>>
  <2>1. PICK pc \in {"failed", "list_not_found"} : M!Goto(pc)
    BY <1>2
  <2> QED BY <1>0, <1>2, <2>1, MoveStops DEF M!Answers
<1> QED BY <1>1, <1>2 DEF M!CreateFails

\* A step that touches the copy and its row only.
LEMMA CopyChanges ==
    ASSUME MoveOk, call.pc \in Copying \cup {"aborting"},
           graph' \in [M!Ids -> M!Task \cup {None}], index' \in [M!Ids -> M!Row \cup {None}],
           \A id \in M!Ids \ {call.new} : graph'[id] = graph[id] /\ index'[id] = index[id],
           feed' = feed \cup {call.new},
           used' \in [ids : M!Ids, calls : Nat, faults : Nat],
           used'.ids = used.ids, used'.calls = used.calls,
           used'.faults # 0 \/ used'.faults = used.faults,
           call' \in MoveCall, call'.pc \in Began, call'.seen = call.seen,
           call'.files = call.files, call'.new = call.new, call'.late = call.late,
           Copy'
    PROVE  MoveOk'
<1>1. call.new \in 1..used.ids /\ call.new \in M!Ids /\ call.new # M!Src
  BY Copies DEF MoveOk, MoveTypes, Given, Began
<1>2. MoveTypes'
  BY <1>1 DEF MoveOk, MoveTypes
<1>3. Given'
  <2>1. \A id \in M!Ids : id > used.ids => id # call.new
    BY <1>1 DEF MoveOk, MoveTypes, M!Ids
  <2> QED BY <1>1, <2>1 DEF MoveOk, Given, M!Exists
<1>4. Kept' /\ Source'
  BY <1>1, Copies DEF MoveOk, Kept, Source, M!Exists, Began, Copying
<1>5. Arrived'
  BY DEF Arrived, M!RowTellsParts, Began, Copying
<1>6. First'
  BY <1>1 DEF MoveOk, First, Only, M!Exists, Began, Copying
<1>7. Known'
  BY <1>1 DEF MoveOk, Known, M!Exists, Copying
<1> QED BY <1>2, <1>3, <1>4, <1>5, <1>6, <1>7 DEF MoveOk

LEMMA PartIsCopied == ASSUME MoveOk, M!CopyPart \/ M!CopyBreaks PROVE MoveOk'
<1>0. /\ call.pc = "copying" /\ call.new \in M!Ids /\ M!Exists(call.new) /\ index' = index
      /\ ~call.carried
  BY Copies
     DEF M!CopyPart, M!CopyBreaks, M!Breaks, MoveOk, MoveTypes, Copy, Given, Began, Copying
<1>1. CASE M!CopyPart
  <2>1. PICK p \in M!Parts :
          \/ ~M!Copyable(p) /\ M!Goto("aborting") /\ UNCHANGED <<graph, feed>>
          \/ /\ graph' = M!CopyHas(p) /\ feed' = feed \cup {call.new}
             /\ call' = [call EXCEPT !.todo = @ \ {p}, !.copied = @ \cup {p}]
    BY <1>1 DEF M!CopyPart
  <2>2. used' = used
    BY <1>1 DEF M!CopyPart
  <2>3. CASE M!Goto("aborting") /\ UNCHANGED <<graph, feed>>
    BY <1>0, <2>2, <2>3, MoveStops DEF M!Answers
  <2>4. CASE /\ graph' = M!CopyHas(p) /\ feed' = feed \cup {call.new}
             /\ call' = [call EXCEPT !.todo = @ \ {p}, !.copied = @ \cup {p}]
    <3>1. /\ call' \in MoveCall /\ call'.pc = "copying" /\ call'.seen = call.seen
          /\ call'.files = call.files /\ call'.new = call.new /\ call'.late = call.late
          /\ call'.todo = call.todo \ {p} /\ call'.copied = call.copied \cup {p}
          /\ ~call'.carried
      BY <1>0, <2>4 DEF MoveOk, MoveTypes, MoveCall
    <3>2. /\ graph' \in [M!Ids -> M!Task \cup {None}] /\ graph'[call.new] # None
          /\ graph'[call.new].list = graph[call.new].list
          /\ graph'[call.new].parts = graph[call.new].parts \cup {p}
          /\ \A id \in M!Ids \ {call.new} : graph'[id] = graph[id]
      BY <1>0, <2>4, CopyHasIs DEF MoveOk
    <3>3. Copy'
      BY <1>0, <2>2, <2>4, <3>1, <3>2 DEF MoveOk, Copy, M!Exists, Copying
    <3>4. index' \in [M!Ids -> M!Row \cup {None}] /\ used' \in [ids : M!Ids, calls : Nat, faults : Nat]
      BY <1>0, <2>2 DEF MoveOk, MoveTypes
    <3> QED BY <1>0, <2>2, <2>4, <3>1, <3>2, <3>3, <3>4, CopyChanges DEF Began, Copying
  <2> QED BY <2>1, <2>3, <2>4
<1>2. CASE M!CopyBreaks
  <2>1. PICK p \in M!Parts : M!Breaks(M!CopyHas(p), {call.new}, "aborting")
    BY <1>2 DEF M!CopyBreaks
  <2>2. CASE UNCHANGED <<graph, feed>>
    BY <1>0, <2>1, <2>2, MoveStops DEF M!Answers, M!Breaks
  <2>3. CASE graph' = M!CopyHas(p) /\ feed' = feed \cup {call.new}
    <3>1. /\ call' \in MoveCall /\ call'.pc = "aborting" /\ call'.seen = call.seen
          /\ call'.files = call.files /\ call'.new = call.new /\ call'.late = call.late
          /\ ~call'.carried
      BY <1>0, <2>1, MoveGoto DEF MoveOk, M!Breaks, M!Pcs
    <3>2. /\ graph' \in [M!Ids -> M!Task \cup {None}]
          /\ \A id \in M!Ids \ {call.new} : graph'[id] = graph[id]
      BY <1>0, <2>3, CopyHasIs DEF MoveOk
    <3>3. Copy'
      BY <3>1 DEF Copy, Copying
    <3>4. /\ index' \in [M!Ids -> M!Row \cup {None}]
          /\ used' \in [ids : M!Ids, calls : Nat, faults : Nat]
          /\ used'.ids = used.ids /\ used'.calls = used.calls /\ used'.faults # 0
      BY <1>0, <2>1, FaultIs DEF MoveOk, MoveTypes, M!Breaks
    <3> QED BY <1>0, <2>3, <3>1, <3>2, <3>3, <3>4, CopyChanges DEF Began, Copying
  <2> QED BY <2>1, <2>2, <2>3 DEF M!Breaks
<1> QED BY <1>1, <1>2

LEMMA FilesAreNext == ASSUME MoveOk, M!PartsCopied PROVE MoveOk'
<1> DEFINE pc == IF call.files /\ call.seen \cap Files = {} THEN "listing"
                 ELSE IF MyDay THEN "carrying" ELSE "deleting"
<1>1. /\ UNCHANGED <<graph, feed, index, used>> /\ call.pc = "copying" /\ call.todo = {}
      /\ M!Goto(pc)
  BY DEF M!PartsCopied
<1>2. /\ pc \in {"listing", "carrying", "deleting"} /\ pc \in M!Pcs
      /\ pc # "listing" /\ call.files => M!HasFiles(call.seen)
  BY DEF M!Pcs, M!HasFiles
<1> HIDE DEF pc
<1>3. /\ call' \in MoveCall /\ call'.pc = pc
      /\ call'.seen = call.seen /\ call'.files = call.files /\ call'.todo = call.todo
      /\ call'.new = call.new /\ call'.copied = call.copied
      /\ call'.carried = call.carried /\ call'.late = call.late
  BY <1>1, <1>2, MoveGoto DEF MoveOk
<1>4. Copy'
  BY <1>1, <1>2, <1>3 DEF MoveOk, Copy, M!Exists, Copying
<1>5. Source' /\ First'
  BY <1>1, <1>2, <1>3 DEF MoveOk, Source, First, Only, M!Exists, Began, Copying
<1>6. used' \in [ids : M!Ids, calls : Nat, faults : Nat]
  BY <1>1 DEF MoveOk, MoveTypes
<1> QED BY <1>1, <1>2, <1>3, <1>4, <1>5, <1>6, CallGoesOn DEF MoveOk, Kept, Began, Copying

LEMMA FilesAreListed == ASSUME MoveOk, M!ListFiles PROVE MoveOk'
<1>0. UNCHANGED <<graph, feed, index>> /\ call.pc = "listing"
  BY DEF M!ListFiles
<1>1. CASE /\ M!Exists(M!Src) /\ UNCHANGED used
           /\ LET files == graph[M!Src].parts \cap Files
              IN  call' = [call EXCEPT !.pc = "copying", !.seen = @ \cup files, !.todo = files]
  <2> DEFINE files == graph[M!Src].parts \cap Files
  <2>1. graph[M!Src] \in M!Task
    BY <1>1, Copies DEF MoveOk, MoveTypes, M!Exists
  <2>2. files \in SUBSET M!Parts
    BY <2>1 DEF M!Task
  <2>3. call' = [call EXCEPT !.pc = "copying", !.seen = @ \cup files, !.todo = files]
    BY <1>1
  <2>4. files \subseteq graph[M!Src].parts
    OBVIOUS
  <2> HIDE DEF files
  <2>5. /\ call' \in MoveCall /\ call'.pc = "copying" /\ call'.seen = call.seen \cup files
        /\ call'.files = call.files /\ call'.todo = files /\ call'.new = call.new
        /\ call'.copied = call.copied /\ call'.carried = call.carried
        /\ call'.late = call.late
    BY <2>2, <2>3 DEF MoveOk, MoveTypes, MoveCall, M!Pcs
  <2>6. Copy'
    BY <1>0, <1>1, <2>5 DEF MoveOk, Copy, M!Exists, Copying
  <2>7. Source' /\ First'
    BY <1>0, <1>1, <2>5 DEF MoveOk, Source, First, Only, M!Exists, Began, Copying
  <2>8. used' \in [ids : M!Ids, calls : Nat, faults : Nat]
    BY <1>1 DEF MoveOk, MoveTypes
  <2> QED BY <1>0, <1>1, <2>4, <2>5, <2>6, <2>7, <2>8, CallGoesOn
          DEF MoveOk, Kept, Began, Copying
<1>2. CASE UNCHANGED used /\ M!Goto("aborting")
  BY <1>0, <1>2, MoveStops DEF M!Answers
<1>3. CASE \E pc \in {"aborting", "failed"} : M!Fault /\ M!Goto(pc)
  <2>1. PICK pc \in {"aborting", "failed"} : M!Fault /\ M!Goto(pc)
    BY <1>3
  <2> QED BY <1>0, <2>1, MoveStops DEF M!Answers
<1> QED BY <1>1, <1>2, <1>3 DEF M!ListFiles

LEMMA DayIsCarried == ASSUME MoveOk, M!Carry PROVE MoveOk'
<1> DEFINE old == graph[call.new]
           new == [old EXCEPT !.day = TRUE]
<1>0. /\ call.pc = "carrying" /\ call.new \in M!Ids /\ M!Exists(call.new)
      /\ UNCHANGED <<index, used>> /\ used \in [ids : M!Ids, calls : Nat, faults : Nat]
      /\ index \in [M!Ids -> M!Row \cup {None}]
  BY Copies DEF M!Carry, MoveOk, MoveTypes, Copy, Given, Began, Copying
<1>1. CASE M!Goto("deleting") /\ UNCHANGED <<graph, feed>>
  <2>1. /\ call' \in MoveCall /\ call'.pc = "deleting"
        /\ call'.seen = call.seen /\ call'.files = call.files /\ call'.todo = call.todo
        /\ call'.new = call.new /\ call'.copied = call.copied
        /\ call'.carried = call.carried /\ call'.late = call.late
    BY <1>1, MoveGoto DEF MoveOk, M!Pcs
  <2>2. Copy'
    BY <1>0, <1>1, <2>1 DEF MoveOk, Copy, M!Exists, Copying
  <2>3. Source' /\ First'
    BY <1>0, <1>1, <2>1 DEF MoveOk, Source, First, Only, M!Exists, Began, Copying
  <2> QED BY <1>0, <1>1, <2>1, <2>2, <2>3, CallGoesOn DEF MoveOk, Kept, Began, Copying
<1>2. CASE /\ graph' = [graph EXCEPT ![call.new].day = TRUE] /\ feed' = feed \cup {call.new}
           /\ call' = [call EXCEPT !.pc = "deleting", !.carried = TRUE]
  <2>1. old \in M!Task
    BY <1>0 DEF MoveOk, MoveTypes, M!Exists
  <2>2. new \in M!Task /\ new.list = old.list /\ new.parts = old.parts /\ new.day
    BY <2>1 DEF M!Task
  <2>3. new # None
    BY <2>2, MoveAssumption
  <2>4. graph' = [graph EXCEPT ![call.new] = new]
    BY <1>2
  <2> HIDE DEF new
  <2>5. /\ graph' \in [M!Ids -> M!Task \cup {None}] /\ graph'[call.new] = new
        /\ \A id \in M!Ids \ {call.new} : graph'[id] = graph[id]
    BY <1>0, <2>2, <2>4 DEF MoveOk, MoveTypes
  <2>6. /\ call' \in MoveCall /\ call'.pc = "deleting"
        /\ call'.seen = call.seen /\ call'.files = call.files /\ call'.todo = call.todo
        /\ call'.new = call.new /\ call'.copied = call.copied /\ call'.late = call.late
    BY <1>2 DEF MoveOk, MoveTypes, MoveCall, M!Pcs
  <2>7. Copy'
    <3>1. /\ graph'[call.new] # None /\ graph'[call.new].list = graph[call.new].list
          /\ graph'[call.new].parts = graph[call.new].parts /\ graph'[call.new].day
      BY <2>2, <2>3, <2>5
    <3> HIDE DEF old
    <3> QED BY <1>0, <1>2, <2>6, <3>1 DEF MoveOk, Copy, M!Exists, Copying
  <2> QED BY <1>0, <1>2, <2>5, <2>6, <2>7, CopyChanges DEF Began, Copying
<1> QED BY <1>1, <1>2 DEF M!Carry

LEMMA FlaggedIs ==
    ASSUME MoveOk, call.new \in M!Ids, NEW rows \in [M!Ids -> M!Row \cup {None}]
    PROVE  /\ M!Flagged(rows) \in [M!Ids -> M!Row \cup {None}]
           /\ \A id \in M!Ids \ {call.new} : M!Flagged(rows)[id] = rows[id]
           /\ M!Flagged(rows)[call.new] # None <=> rows[call.new] # None
           /\ rows[call.new] # None =>
                /\ M!Flagged(rows)[call.new].items = M!HasItems(call.copied)
                /\ M!Flagged(rows)[call.new].files = M!HasFiles(call.copied)
<1>1. CASE rows[call.new] = None
  BY <1>1 DEF M!Flagged
<1>2. CASE rows[call.new] # None
  <2> DEFINE items == M!HasItems(call.copied)
             files == M!HasFiles(call.copied)
             row == [rows[call.new] EXCEPT !.items = items, !.files = files]
  <2>1. items \in BOOLEAN /\ files \in BOOLEAN /\ rows[call.new] \in M!Row
    BY <1>2 DEF M!HasItems, M!HasFiles
  <2>2. row \in M!Row /\ row.items = items /\ row.files = files
    <3> HIDE DEF items, files
    <3> QED BY <2>1 DEF M!Row
  <2>3. row # None
    BY <2>2, MoveAssumption
  <2>4. M!Flagged(rows) = [rows EXCEPT ![call.new] = row]
    BY <1>2 DEF M!Flagged
  <2> HIDE DEF row
  <2> QED BY <1>2, <2>2, <2>3, <2>4
<1> QED BY <1>1, <1>2

\* The source is deleted, or another client has deleted it.
LEMMA SourceGoes ==
    ASSUME MoveOk, call.pc = "deleting", M!Exists(M!Src), graph' = M!Without(M!Src),
           feed' = feed \cup {M!Src}, index' \in [M!Ids -> M!Row \cup {None}],
           \A id \in M!Ids \ {M!Src} : index'[id] # None <=> index[id] # None,
           used' \in [ids : M!Ids, calls : Nat, faults : Nat],
           used'.ids = used.ids, used'.calls = used.calls,
           used'.faults = 0 => used.faults = 0,
           NEW pc \in {"copied", "warned"}, M!Goto(pc), M!RowTellsParts'
    PROVE  MoveOk'
<1>1. call.new \in 1..used.ids /\ call.new \in M!Ids /\ call.new # M!Src /\ M!Exists(call.new)
      /\ graph[call.new].list = "to" /\ call.seen \subseteq graph[call.new].parts
      /\ call.new \in feed
      /\ (call.files => M!HasFiles(graph[call.new].parts))
      /\ (call.carried => graph[call.new].day)
  BY Copies DEF MoveOk, MoveTypes, Given, Copy, M!HasFiles, Began, Copying
<1>2. /\ graph' \in [M!Ids -> M!Task \cup {None}] /\ graph'[M!Src] = None
      /\ \A id \in M!Ids \ {M!Src} : graph'[id] = graph[id]
  BY WithoutIs, Copies DEF MoveOk
<1>3. /\ call' \in MoveCall /\ call'.pc = pc
      /\ call'.seen = call.seen /\ call'.files = call.files /\ call'.new = call.new
      /\ call'.carried = call.carried /\ call'.late = call.late
  BY MoveGoto DEF MoveOk, M!Pcs, M!Answers
<1>4. MoveTypes' /\ Given'
  BY <1>1, <1>2, <1>3, Copies DEF MoveOk, MoveTypes, Given, M!Exists
<1>5. Kept' /\ Source'
  BY <1>1, <1>2, <1>3 DEF MoveOk, Kept, Source, M!Exists, Began, Copying
<1>6. Copy' /\ Arrived'
  BY <1>1, <1>2, <1>3 DEF MoveOk, Copy, Arrived, M!Exists, Copying
<1>7. First'
  BY <1>1, <1>2, <1>3 DEF MoveOk, First, Only, M!Exists, Began, Copying
<1>8. Known'
  BY <1>2, <1>3 DEF MoveOk, Known, M!Exists
<1> QED BY <1>4, <1>5, <1>6, <1>7, <1>8 DEF MoveOk

LEMMA SourceIsDeleted == ASSUME MoveOk, M!DeleteSource PROVE MoveOk'
<1> DEFINE less == [index EXCEPT ![M!Src] = None]
           rows == M!Flagged(less)
<1>1. /\ call.pc = "deleting" /\ M!Exists(M!Src) /\ graph' = M!Without(M!Src)
      /\ feed' = feed \cup {M!Src} /\ M!Goto("copied") /\ M!WriteThrough(rows, used)
  BY DEF M!DeleteSource
<1>2. call.new \in M!Ids /\ call.new # M!Src
  BY <1>1, Copies DEF MoveOk, MoveTypes, Given, Began, Copying
<1>3. /\ less \in [M!Ids -> M!Row \cup {None}] /\ less[call.new] = index[call.new]
      /\ \A id \in M!Ids \ {M!Src} : less[id] = index[id]
  BY <1>2, Copies DEF MoveOk, MoveTypes
<1> HIDE DEF less
<1>4. /\ rows \in [M!Ids -> M!Row \cup {None}]
      /\ \A id \in M!Ids \ {M!Src} : rows[id] # None <=> index[id] # None
      /\ index[call.new] # None =>
           /\ rows[call.new].items = M!HasItems(call.copied)
           /\ rows[call.new].files = M!HasFiles(call.copied)
  BY <1>2, <1>3, FlaggedIs
<1> HIDE DEF rows
<1>5. /\ index' \in {rows, index} /\ used' \in [ids : M!Ids, calls : Nat, faults : Nat]
      /\ used'.ids = used.ids /\ used'.calls = used.calls
      /\ used'.faults = 0 => used.faults = 0 /\ index' = rows
  BY <1>1, WriteThroughIs DEF MoveOk, MoveTypes
<1>6. M!RowTellsParts'
  <2> SUFFICES ASSUME used'.faults = 0
               PROVE  /\ index'[call.new].items = M!HasItems(graph'[call.new].parts)
                      /\ index'[call.new].files = M!HasFiles(graph'[call.new].parts)
    BY <1>1, MoveGoto DEF M!RowTellsParts, MoveOk, M!Pcs, M!Answers
  <2>1. graph[call.new].parts = call.copied /\ index[call.new] # None
    BY <1>1, <1>5 DEF MoveOk, Copy, Copying
  <2>2. graph'[call.new] = graph[call.new]
    BY <1>1, <1>2, WithoutIs, Copies DEF MoveOk
  <2> QED BY <1>4, <1>5, <2>1, <2>2
<1>7. index \in [M!Ids -> M!Row \cup {None}]
  BY DEF MoveOk, MoveTypes
<1> QED BY <1>1, <1>4, <1>5, <1>6, <1>7, SourceGoes

LEMMA SourceIsLeft == ASSUME MoveOk, M!DeleteBreaks PROVE MoveOk'
<1>1. /\ call.pc = "deleting" /\ M!Goto("warned") /\ index' = M!Flagged(index)
  BY DEF M!DeleteBreaks
<1>2. call.new \in 1..used.ids /\ call.new \in M!Ids /\ call.new # M!Src /\ call.new \in feed
  BY <1>1, Copies DEF MoveOk, MoveTypes, Given, Copy, Began, Copying
<1>3. /\ index' \in [M!Ids -> M!Row \cup {None}]
      /\ \A id \in M!Ids : index'[id] # None <=> index[id] # None
  BY <1>1, <1>2, FlaggedIs DEF MoveOk, MoveTypes
<1>4. /\ call' \in MoveCall /\ call'.pc = "warned"
      /\ call'.seen = call.seen /\ call'.files = call.files /\ call'.new = call.new
      /\ call'.carried = call.carried /\ call'.late = call.late
  BY <1>1, MoveGoto DEF MoveOk, M!Pcs, M!Answers
<1>5. M!RowTellsParts'
  BY <1>4 DEF M!RowTellsParts
<1>6. /\ used' \in [ids : M!Ids, calls : Nat, faults : Nat]
      /\ used'.ids = used.ids /\ used'.calls = used.calls
      /\ used'.faults = used.faults \/ used'.faults # 0
  <2>1. used' = used \/ M!Fault
    BY DEF M!DeleteBreaks
  <2> QED BY <2>1, FaultIs DEF MoveOk, MoveTypes
<1>7. CASE UNCHANGED <<graph, feed>>
  <2>1. MoveTypes' /\ Given'
    BY <1>2, <1>3, <1>4, <1>6, <1>7 DEF MoveOk, MoveTypes, Given, M!Exists
  <2>2. Kept' /\ Source'
    BY <1>1, <1>4, <1>6, <1>7 DEF MoveOk, Kept, Source, M!Exists, Began, Copying
  <2>3. Copy' /\ Arrived'
    BY <1>1, <1>4, <1>5, <1>7 DEF MoveOk, Copy, Arrived, Copying
  <2>4. First' /\ Known'
    BY <1>1, <1>3, <1>4, <1>6, <1>7 DEF MoveOk, First, Known, M!Exists, Began, Copying
  <2> QED BY <2>1, <2>2, <2>3, <2>4 DEF MoveOk
<1>8. CASE M!Exists(M!Src) /\ graph' = M!Without(M!Src) /\ feed' = feed \cup {M!Src}
  <2>1. used'.faults = 0 => used.faults = 0
    BY <1>6
  <2> QED BY <1>1, <1>3, <1>5, <1>6, <1>8, <2>1, SourceGoes
<1> QED BY <1>7, <1>8 DEF M!DeleteBreaks

LEMMA CopyIsDropped == ASSUME MoveOk, M!Abort \/ M!AbortBreaks PROVE MoveOk'
<1>1. call.pc = "aborting" /\ call.new \in 1..used.ids /\ call.new \in M!Ids
      /\ call.new # M!Src
  BY Copies DEF M!Abort, M!AbortBreaks, MoveOk, MoveTypes, Given, Began
<1>2. M!Without(call.new) \in [M!Ids -> M!Task \cup {None}] /\ M!Without(call.new)[call.new] = None
      /\ \A id \in M!Ids \ {call.new} : M!Without(call.new)[id] = graph[id]
  BY <1>1, WithoutIs DEF MoveOk
<1>3. ~call.carried /\ used \in [ids : M!Ids, calls : Nat, faults : Nat]
      /\ index \in [M!Ids -> M!Row \cup {None}]
  BY <1>1 DEF MoveOk, Copy, MoveTypes
<1>4. ASSUME NEW pc \in {"aborted", "orphan"}, M!Goto(pc)
      PROVE  /\ call' \in MoveCall /\ call'.pc = pc /\ call'.seen = call.seen
             /\ call'.files = call.files /\ call'.new = call.new
             /\ call'.carried = call.carried /\ call'.late = call.late
  BY <1>4, MoveGoto DEF MoveOk, M!Pcs, M!Answers
<1>5. CASE M!Abort
  <2> DEFINE rows == [index EXCEPT ![call.new] = None]
  <2>1. graph' = M!Without(call.new) /\ feed' = feed \cup {call.new} /\ M!Goto("aborted")
        /\ M!WriteThrough(rows, used)
    BY <1>5 DEF M!Abort
  <2>2. rows \in [M!Ids -> M!Row \cup {None}]
        /\ \A id \in M!Ids \ {call.new} : rows[id] = index[id]
    BY <1>3
  <2> HIDE DEF rows
  <2>3. /\ index' \in {rows, index} /\ used' \in [ids : M!Ids, calls : Nat, faults : Nat]
        /\ used'.ids = used.ids /\ used'.calls = used.calls
        /\ used'.faults # 0 \/ used'.faults = used.faults
    <3>1. used'.faults = 0 => used.faults = 0
      BY <1>3, <2>1, WriteThroughIs
    <3> QED BY <1>3, <2>1, <3>1, WriteThroughIs
  <2>4. Copy'
    BY <1>2, <1>3, <1>4, <2>1 DEF Copy, M!Exists, Copying
  <2> QED BY <1>1, <1>2, <1>3, <1>4, <2>1, <2>2, <2>3, <2>4, CopyChanges DEF Began
<1>6. CASE M!AbortBreaks
  <2>1. M!Fault /\ M!Goto("orphan") /\ index' = index
        /\ \/ graph' = M!Without(call.new) /\ feed' = feed \cup {call.new}
           \/ UNCHANGED <<graph, feed>>
    BY <1>6 DEF M!AbortBreaks, M!Breaks
  <2>2. /\ used' \in [ids : M!Ids, calls : Nat, faults : Nat]
        /\ used'.ids = used.ids /\ used'.calls = used.calls /\ used'.faults # 0
    BY <2>1, FaultIs DEF MoveOk
  <2>3. Copy'
    BY <1>3, <1>4, <2>1 DEF Copy, Copying
  <2>4. CASE graph' = M!Without(call.new) /\ feed' = feed \cup {call.new}
    BY <1>1, <1>2, <1>3, <1>4, <2>1, <2>2, <2>3, <2>4, CopyChanges DEF Began
  <2>5. CASE UNCHANGED <<graph, feed>>
    <3>1. Source' /\ First'
      BY <1>1, <1>4, <2>1, <2>2, <2>5
         DEF MoveOk, Source, First, Only, M!Exists, Began, Copying
    <3> QED BY <1>1, <1>4, <2>1, <2>2, <2>3, <2>5, <3>1, CallGoesOn DEF MoveOk, Kept, Began
  <2> QED BY <2>1, <2>4, <2>5
<1> QED BY <1>5, <1>6

LEMMA MoveNext == ASSUME MoveOk, [M!Next]_(M!vars) PROVE MoveOk'
<1>1. CASE UNCHANGED M!vars
  BY <1>1 DEF M!vars, MoveOk, MoveTypes, Given, Kept, Source, Copy, Arrived, First, Only, Known,
              M!RowTellsParts, M!Exists
<1> QED BY <1>1, MoveSync, MoveLate, Crashes, MoveEdited, MoveBegins, SourceIsRead,
           MoveReparents, MoveUnavailable, MoveUnconfirmed, MoveRechecked, MoveCreates,
           CreateFailed, PartIsCopied, FilesAreNext, FilesAreListed, DayIsCarried,
           SourceIsDeleted, SourceIsLeft, CopyIsDropped DEF M!Next

LEMMA MoveKept == Spec => [](which = "move" => MoveOk)
<1> DEFINE I == which = "move" => MoveOk
<1>1. Init => I
  BY MoveInit DEF Init
<1>2. I /\ [Next]_vars => I'
  BY Same, MoveNext, MoveStep
<1> QED BY <1>1, <1>2, PTL DEF Spec

\* move_task loses no part of the task, whatever fails, whenever the process
\* dies and however often the client calls again; its answer is true; and the
\* row of the moved task tells its parts.
THEOREM MovesAreSafe == Spec => []MoveIsSafe
<1>1. ASSUME MoveOk PROVE M!NothingLost
  <2>1. CASE M!Exists(M!Src)
    BY <1>1, <2>1, Copies DEF MoveOk, Kept, M!NothingLost
  <2>2. CASE ~M!Exists(M!Src)
    BY <1>1, <2>2 DEF MoveOk, Kept, M!NothingLost
  <2> QED BY <2>1, <2>2
<1>2. ASSUME MoveOk, call.late # "done", call.pc \in {"moved", "copied"}
      PROVE  /\ M!Exists(call.new) /\ graph[call.new].list = "to"
             /\ call.seen \subseteq graph[call.new].parts
             /\ call.files => M!HasFiles(graph[call.new].parts)
             /\ call.carried => graph[call.new].day
             /\ used.calls = 1 => M!Left = {call.new}
  <2>1. call.new \in M!Ids
    BY <1>2, Copies DEF MoveOk, MoveTypes, Given
  <2>2. M!Exists(call.new) /\ (used.calls = 1 => Only({call.new}))
    BY <1>2 DEF MoveOk, Arrived, First
  <2>3. used.calls = 1 => M!Left = {call.new}
    BY <2>1, <2>2 DEF Only, M!Left
  <2> QED BY <1>2, <2>3 DEF MoveOk, Arrived, Copy
<1>3. ASSUME MoveOk, call.late # "done", call.pc \in {"aborted", "orphan"}
      PROVE  /\ M!Exists(M!Src) /\ graph[M!Src].list = "from"
             /\ call.pc = "aborted" => ~M!Exists(call.new)
             /\ used.calls = 1 => M!Left \subseteq {M!Src, call.new}
  BY <1>3 DEF MoveOk, Source, Copy, First, Only, M!Left, Began
<1>4. ASSUME MoveOk, call.late # "done", call.pc \in {"presumed", "guessed"}, used.calls = 1
      PROVE  \E id \in M!Ids : /\ M!Left = {id}
                               /\ call.pc = "presumed" => /\ graph[id].list = "to"
                                                          /\ call.seen \subseteq graph[id].parts
  <2>1. PICK id \in M!Ids : M!Exists(id) /\ Only({id}) /\ (id # M!Src => graph[id].list = "to")
    BY <1>4 DEF MoveOk, First
  <2>2. M!Left = {id}
    BY <2>1 DEF Only, M!Left
  <2>3. ASSUME call.pc = "presumed"
        PROVE  graph[id].list = "to" /\ call.seen \subseteq graph[id].parts
    <3>1. id # M!Src /\ ~M!Exists(M!Src)
      BY <1>4, <2>1, <2>3 DEF MoveOk, Source
    <3>2. call.seen \subseteq graph[id].parts
      BY <1>4, <2>1, <3>1 DEF MoveOk, Kept, Only
    <3> QED BY <2>1, <3>1, <3>2
  <2> QED BY <2>2, <2>3
<1>5. ASSUME MoveOk PROVE M!AnswerIsTrue
  <2> SUFFICES ASSUME call.late # "done" PROVE M!AnswerIsTrue
    BY DEF M!AnswerIsTrue
  <2>1. CASE call.pc \in {"moved", "copied"}
    BY <1>2, <1>5, <2>1 DEF M!AnswerIsTrue
  <2>2. CASE call.pc \in {"aborted", "orphan"}
    BY <1>3, <1>5, <2>2 DEF M!AnswerIsTrue
  <2>3. CASE call.pc = "presumed"
    <3>1. ~M!Exists(M!Src)
      BY <1>5, <2>3 DEF MoveOk, Source
    <3>2. used.calls = 1 =>
            \E id \in M!Ids : /\ M!Left = {id} /\ graph[id].list = "to"
                             /\ call.seen \subseteq graph[id].parts
      BY <1>4, <1>5, <2>3
    <3> QED BY <2>3, <3>1, <3>2 DEF M!AnswerIsTrue
  <2>5. CASE call.pc = "guessed"
    <3>1. used.calls = 1 => \E id \in M!Ids : M!Left = {id}
      BY <1>4, <1>5, <2>5
    <3> QED BY <2>5, <3>1 DEF M!AnswerIsTrue
  <2>4. CASE call.pc \notin {"moved", "copied", "aborted", "orphan", "presumed", "guessed"}
    BY <2>4 DEF M!AnswerIsTrue
  <2> QED BY <2>1, <2>2, <2>3, <2>4, <2>5
<1>6. (which = "move" => MoveOk) => MoveIsSafe
  BY <1>1, <1>5 DEF MoveOk, Arrived, MoveIsSafe
<1> QED BY <1>6, MoveKept, PTL

\* Whatever a tool that moves, changes or deletes a task did not write to the
\* index, because it failed, died or was refused, the delta feed reports.
THEOREM IndexAlwaysCatchesUp == Spec => []IndexCatchesUp
<1>1. ASSUME MoveOk PROVE M!IndexCatchesUp
  BY <1>1 DEF MoveOk, Known, M!IndexCatchesUp
<1>2. ASSUME TaskOk PROVE T!IndexCatchesUp
  BY <1>2 DEF TaskOk, Reported, T!IndexCatchesUp
<1>3. (which = "move" => MoveOk) /\ (which = "task" => TaskOk) => IndexCatchesUp
  BY <1>1, <1>2 DEF IndexCatchesUp
<1> QED BY <1>3, MoveKept, TaskKept, PTL

-----------------------------------------------------------------------------
(* The configuration of lists.                                               *)

\* What a call has read of the config is the config, unless another call has
\* written it since.
FullOrEmpty == [Roster -> Names] \cup {[l \in Roster |-> None]}
ReadRight(r, now) ==
    /\ r.pc \in {"loading", "storing"} /\ r.tool = "list_lists" => r.seen \in FullOrEmpty
    /\ r.pc = "storing" => r.tool \in L!Tools /\ DOMAIN r.cfg = DOMAIN L!Default
    /\ r.pc = "storing" /\ r.tool = "list_lists" /\ ~r.raced =>
          r.cfg = [now EXCEPT !.overrides = L!pinClassifications(r.seen, now)]
    /\ r.pc = "storing" /\ r.tool # "list_lists" /\ ~r.raced =>
          \A f \in DOMAIN L!Default \ ({"overrides"} \cup r.changes) : r.cfg[f] = now[f]

Loaded == \A c \in Clients : ReadRight(call[c], kv)

\* A class that list_lists told is pinned, unless the config was set since.
Pinned == \A l \in Roster : used.edited = None /\ used.class[l] # None =>
                               kv.overrides[l] = used.class[l]

ConfigOk ==
    /\ graph \in [Roster -> Names] /\ index \in FullOrEmpty
    /\ DOMAIN kv = DOMAIN L!Default
    /\ DOMAIN call = Clients /\ \A c \in Clients : DOMAIN call[c] = DOMAIN L!NoCall
    /\ DOMAIN used = {"class", "edited", "renames", "calls", "faults"}
    /\ used.edited \in L!Tools \cup {None}
    /\ Loaded /\ Pinned

ConfigSafe == L!KeepsClass /\ L!SetsOwnFields

LEMMA ConfigFields ==
    /\ DOMAIN L!Default = {"patterns", "aliases", "overrides", "no_sync", "sync_flagged_emails"}
    /\ DOMAIN L!NoCall = {"pc", "tool", "seen", "cfg", "changes", "raced"}
BY DEF L!Default, L!NoCall

LEMMA ConfigInit == L!Init => ConfigOk
<1> SUFFICES ASSUME L!Init PROVE ConfigOk
  OBVIOUS
<1>1. graph \in [Roster -> Names] /\ index \in FullOrEmpty
  BY DEF L!Init, FullOrEmpty
<1>2. DOMAIN kv = DOMAIN L!Default /\ DOMAIN call = Clients
      /\ \A c \in Clients : call[c] = L!NoCall
  BY DEF L!Init
<1>3. DOMAIN used = {"class", "edited", "renames", "calls", "faults"} /\ used.edited = None
      /\ used.class = [l \in Roster |-> None]
  BY DEF L!Init
<1>4. L!NoCall.pc = "idle"
  BY DEF L!NoCall
<1>5. Loaded
  BY <1>2, <1>4 DEF Loaded, ReadRight
<1>6. Pinned
  BY <1>3 DEF Pinned
<1> QED BY <1>1, <1>2, <1>3, <1>5, <1>6 DEF ConfigOk

\* Only client c's call goes on.
LEMMA PutIs ==
    ASSUME ConfigOk, NEW c \in Clients, NEW new, DOMAIN new = DOMAIN L!NoCall, L!Put(c, new)
    PROVE  /\ DOMAIN call' = Clients /\ call'[c] = new
           /\ \A d \in Clients : DOMAIN call'[d] = DOMAIN L!NoCall
           /\ \A d \in Clients : d # c => call'[d] = call[d]
BY DEF ConfigOk, L!Put

\* A write: the calls that have read the config before it are raced.
LEMMA StoreIs ==
    ASSUME ConfigOk, NEW c \in Clients, L!Store(c)
    PROVE  /\ DOMAIN call' = Clients /\ kv' = call[c].cfg
           /\ call'[c].pc = "ok"
           /\ \A d \in Clients : DOMAIN call'[d] = DOMAIN L!NoCall
           /\ \A d \in Clients : d # c =>
                /\ call'[d].pc = call[d].pc /\ call'[d].tool = call[d].tool
                /\ call'[d].seen = call[d].seen /\ call'[d].cfg = call[d].cfg
                /\ call[d].pc = "storing" => call'[d].raced
<1>1. /\ DOMAIN call' = Clients /\ kv' = call[c].cfg
      /\ call'[c] = [call[c] EXCEPT !.pc = "ok"]
      /\ \A d \in Clients : d # c =>
            call'[d] = IF call[d].pc = "storing" THEN [call[d] EXCEPT !.raced = TRUE] ELSE call[d]
  BY DEF L!Store
<1>2. \A d \in Clients : DOMAIN call[d] = {"pc", "tool", "seen", "cfg", "changes", "raced"}
  BY ConfigFields DEF ConfigOk
<1> QED BY <1>1, <1>2, ConfigFields

\* After a write nobody who is to write has read what there is now.
LEMMA StoreKeepsLoaded ==
    ASSUME ConfigOk, NEW c \in Clients, L!Store(c)
    PROVE  Loaded'
<1>1. ASSUME NEW d \in Clients, d # c
      PROVE  /\ call'[d].pc = call[d].pc /\ call'[d].tool = call[d].tool
             /\ call'[d].seen = call[d].seen /\ call'[d].cfg = call[d].cfg
             /\ call[d].pc = "storing" => call'[d].raced
  BY <1>1, StoreIs
<1>2. call'[c].pc = "ok"
  BY StoreIs
<1>3. Loaded
  BY DEF ConfigOk
<1>4. ASSUME NEW d \in Clients PROVE ReadRight(call'[d], kv')
  <2>1. CASE d = c
    BY <1>2, <2>1 DEF ReadRight
  <2>2. CASE d # c
    BY <1>1, <1>3, <2>2 DEF Loaded, ReadRight
  <2> QED BY <2>1, <2>2
<1> QED BY <1>4 DEF Loaded, ReadRight, L!pinClassifications, L!classifyList

\* A step of one call that leaves the config alone.
LEMMA PutKeepsLoaded ==
    ASSUME ConfigOk, NEW c \in Clients, NEW new, DOMAIN new = DOMAIN L!NoCall, L!Put(c, new),
           kv' = kv, ReadRight(new, kv)
    PROVE  Loaded'
<1>1. ASSUME NEW d \in Clients PROVE ReadRight(call'[d], kv')
  <2>1. CASE d = c
    BY <2>1, PutIs
  <2>2. CASE d # c
    BY <2>2, PutIs DEF ConfigOk, Loaded
  <2> QED BY <2>1, <2>2
<1> QED BY <1>1 DEF Loaded, ReadRight, L!pinClassifications, L!classifyList

LEMMA SameLoaded == ASSUME ConfigOk, kv' = kv, call' = call PROVE Loaded'
<1>1. ASSUME NEW d \in Clients PROVE ReadRight(call'[d], kv')
  BY DEF ConfigOk, Loaded
<1> QED BY <1>1 DEF Loaded, ReadRight, L!pinClassifications, L!classifyList

LEMMA CountIs ==
    ASSUME ConfigOk, NEW b \in {"renames", "calls", "faults"}
    PROVE  /\ DOMAIN L!Count(b) = {"class", "edited", "renames", "calls", "faults"}
           /\ L!Count(b).edited = used.edited /\ L!Count(b).class = used.class
BY DEF ConfigOk, L!Count

LEMMA RosterIsRead == ASSUME ConfigOk PROVE L!Rosters \subseteq FullOrEmpty
BY DEF ConfigOk, L!Rosters, FullOrEmpty

\* A step that begins a call with the index or the config read.
LEMMA ConfigBegins ==
    ASSUME ConfigOk, NEW c \in Clients, NEW new,
           DOMAIN new = DOMAIN L!NoCall, L!Put(c, new), used' = L!Count("calls"),
           UNCHANGED <<graph, index, kv>>,
           new.pc \in {"loading", "storing"} /\ new.tool = "list_lists" =>
              new.pc = "loading" /\ new.seen \in FullOrEmpty,
           new.pc = "storing" /\ new.tool # "list_lists" =>
              /\ new.tool \in L!Tools /\ DOMAIN new.cfg = DOMAIN L!Default
              /\ \A f \in DOMAIN L!Default \ ({"overrides"} \cup new.changes) :
                    new.cfg[f] = kv[f]
    PROVE  ConfigOk' /\ ConfigSafe
<1>0. ReadRight(new, kv)
  BY DEF ReadRight, L!Tools
<1>1. Loaded'
  BY <1>0, PutKeepsLoaded
<1>2. Pinned'
  BY CountIs DEF ConfigOk, Pinned
<1>3. ConfigOk'
  BY <1>1, <1>2, PutIs, CountIs DEF ConfigOk
<1>4. ConfigSafe
  BY CountIs DEF ConfigSafe, L!KeepsClass, L!SetsOwnFields
<1> QED BY <1>3, <1>4

LEMMA ListBegins ==
    ASSUME ConfigOk, NEW c \in Clients, L!BeginList(c)
    PROVE  ConfigOk' /\ ConfigSafe
<1>1. PICK seen \in L!Rosters :
        L!Put(c, [L!NoCall EXCEPT !.pc = "loading", !.tool = "list_lists", !.seen = seen])
  BY DEF L!BeginList
<1> DEFINE new == [L!NoCall EXCEPT !.pc = "loading", !.tool = "list_lists", !.seen = seen]
<1>2. DOMAIN new = DOMAIN L!NoCall /\ new.pc = "loading" /\ new.seen = seen
  BY DEF L!NoCall
<1>3. UNCHANGED <<graph, index, kv>> /\ used' = L!Count("calls") /\ L!Put(c, new)
  BY <1>1 DEF L!BeginList
<1> HIDE DEF new
<1> QED BY <1>2, <1>3, RosterIsRead, ConfigBegins

LEMMA AliasBegins ==
    ASSUME ConfigOk, NEW c \in Clients,
           NEW a \in Aliases, NEW i, L!LoadForAlias(c, a, i)
    PROVE  ConfigOk' /\ ConfigSafe
<1> DEFINE l == L!resolveListId(i, L!Default, index)
           w == L!WithAlias(a, l)
           cold == [L!NoCall EXCEPT !.pc = "list_index_cold"]
           lost == [L!NoCall EXCEPT !.pc = "list_not_found"]
           new == [L!NoCall EXCEPT !.pc = "storing", !.tool = "set_list_alias",
                                   !.changes = {"aliases"}, !.cfg = w]
<1>1. UNCHANGED <<graph, index, kv>> /\ used' = L!Count("calls")
      /\ (L!Put(c, cold) \/ L!Put(c, lost) \/ L!Put(c, new))
  BY DEF L!LoadForAlias
<1>2. /\ DOMAIN cold = DOMAIN L!NoCall /\ cold.pc = "list_index_cold"
      /\ DOMAIN lost = DOMAIN L!NoCall /\ lost.pc = "list_not_found"
  BY DEF L!NoCall
<1>3. DOMAIN w = DOMAIN L!Default /\ \A f \in DOMAIN L!Default \ {"overrides", "aliases"} : w[f] = kv[f]
  BY ConfigFields DEF L!WithAlias, ConfigOk
<1> HIDE DEF l, w
<1>4. /\ DOMAIN new = DOMAIN L!NoCall /\ new.pc = "storing" /\ new.tool = "set_list_alias"
      /\ new.changes = {"aliases"} /\ new.cfg = w
  BY DEF L!NoCall
<1> HIDE DEF cold, lost, new
<1>5. CASE L!Put(c, new)
  BY <1>1, <1>3, <1>4, <1>5, ConfigBegins DEF L!Tools
<1>6. CASE L!Put(c, cold) \/ L!Put(c, lost)
  BY <1>1, <1>2, <1>6, ConfigBegins
<1> QED BY <1>1, <1>5, <1>6

LEMMA ConfigCallBegins ==
    ASSUME ConfigOk, NEW c \in Clients, L!LoadForConfig(c)
    PROVE  ConfigOk' /\ ConfigSafe
<1>1. PICK p \in Patterns, o \in [Roster -> Types \cup {None}], s \in SUBSET Roster,
           given \in {{"patterns"}, {"overrides"}, {"no_sync"}, {"sync_flagged_emails"}} :
        L!Put(c, [L!NoCall EXCEPT !.pc = "storing", !.tool = "set_list_config",
                      !.changes = given, !.cfg = L!WithGiven(given, p, o, s)])
  BY DEF L!LoadForConfig
<1> DEFINE w == L!WithGiven(given, p, o, s)
           new == [L!NoCall EXCEPT !.pc = "storing", !.tool = "set_list_config",
                                   !.changes = given, !.cfg = w]
<1>2. DOMAIN w = DOMAIN L!Default /\ \A f \in DOMAIN L!Default \ given : w[f] = kv[f]
  BY DEF L!WithGiven
<1> HIDE DEF w
<1>3. /\ DOMAIN new = DOMAIN L!NoCall /\ new.pc = "storing" /\ new.tool = "set_list_config"
      /\ new.changes = given /\ new.cfg = w
  BY DEF L!NoCall
<1>4. UNCHANGED <<graph, index, kv>> /\ used' = L!Count("calls") /\ L!Put(c, new)
  BY <1>1 DEF L!LoadForConfig, w
<1> HIDE DEF new
<1> QED BY <1>2, <1>3, <1>4, ConfigBegins DEF L!Tools

\* What list_lists tells of the lists it saw, and the pins it stores.
LEMMA PinIs ==
    ASSUME NEW seen, NEW cfg, NEW l \in Roster
    PROVE  /\ cfg.overrides[l] # None => L!classifyList(seen[l], cfg, l) = cfg.overrides[l]
           /\ cfg.overrides[l] = None =>
                 L!classifyList(seen[l], cfg, l) = L!ByPattern(seen[l], cfg.patterns)
           /\ seen[l] = None => L!pinClassifications(seen, cfg)[l] = cfg.overrides[l]
           /\ seen[l] # None =>
                 L!pinClassifications(seen, cfg)[l] = L!classifyList(seen[l], cfg, l)
           /\ seen[l] = None => L!Classified(seen, cfg)[l] = used.class[l]
           /\ seen[l] # None => L!Classified(seen, cfg)[l] = L!classifyList(seen[l], cfg, l)
BY DEF L!classifyList, L!pinClassifications, L!Classified

LEMMA SeenIs ==
    ASSUME NEW seen \in FullOrEmpty
    PROVE  \/ \A l \in Roster : seen[l] # None
           \/ (\A l \in Roster : seen[l] = None) /\ L!Unedited(seen) = used.edited
BY ConfigAssumption DEF FullOrEmpty, L!Unedited

LEMMA UneditedIs ==
    ASSUME NEW seen PROVE L!Unedited(seen) \in {used.edited, None}
BY DEF L!Unedited

\* list_lists answers from the pins: they are in w, and stay in it.
LEMMA ListAnswers ==
    ASSUME ConfigOk, NEW seen \in FullOrEmpty, NEW cfg,
           DOMAIN call' = Clients, \A d \in Clients : DOMAIN call'[d] = DOMAIN L!NoCall, Loaded',
           cfg = [kv EXCEPT !.overrides = L!pinClassifications(seen, kv)],
           kv' = cfg,
           used' = [used EXCEPT !.class = L!Classified(seen, cfg), !.edited = L!Unedited(seen)],
           UNCHANGED <<graph, index>>
    PROVE  ConfigOk' /\ ConfigSafe
<1> DEFINE pins == L!pinClassifications(seen, kv)
           class == L!Classified(seen, cfg)
           edited == L!Unedited(seen)
<1>1. /\ DOMAIN cfg = DOMAIN L!Default /\ cfg.overrides = pins /\ cfg.patterns = kv.patterns
      /\ \A f \in DOMAIN L!Default \ {"overrides"} : cfg[f] = kv[f]
  BY ConfigFields DEF ConfigOk
<1>2. /\ DOMAIN used' = {"class", "edited", "renames", "calls", "faults"}
      /\ used'.class = class /\ used'.edited = edited
  BY DEF ConfigOk
<1> DEFINE says(l) == L!classifyList(seen[l], cfg, l)
<1>a. ASSUME NEW l \in Roster
      PROVE  /\ cfg.overrides[l] # None => says(l) = cfg.overrides[l]
             /\ cfg.overrides[l] = None => says(l) = L!ByPattern(seen[l], cfg.patterns)
             /\ seen[l] # None => class[l] = says(l)
  <2>1. /\ cfg.overrides[l] # None => says(l) = cfg.overrides[l]
        /\ cfg.overrides[l] = None => says(l) = L!ByPattern(seen[l], cfg.patterns)
    BY DEF L!classifyList
  <2>2. seen[l] # None => class[l] = says(l)
    BY DEF L!Classified
  <2> QED BY <2>1, <2>2
<1> HIDE DEF says
<1>3. ASSUME NEW l \in Roster, kv.overrides[l] # None PROVE pins[l] = kv.overrides[l]
  BY <1>3, PinIs
<1>4. ASSUME NEW l \in Roster, seen[l] # None, class[l] # None PROVE class[l] = pins[l]
  <2>1. CASE pins[l] # None
    BY <1>1, <1>4, <1>a, <2>1
  <2>2. CASE pins[l] = None
    <3>1. kv.overrides[l] = None
      BY <1>3, <2>2
    <3>2. L!ByPattern(seen[l], kv.patterns) = None
      BY <1>4, <2>2, <3>1, PinIs
    <3>3. class[l] = None
      BY <1>1, <1>4, <1>a, <2>2, <3>2
    <3> QED BY <1>4, <3>3
  <2> QED BY <2>1, <2>2
<1>5. ASSUME NEW l \in Roster, seen[l] = None PROVE class[l] = used.class[l] /\ pins[l] = kv.overrides[l]
  BY <1>5, PinIs
<1>6. edited \in {used.edited, None}
  BY UneditedIs
<1> HIDE DEF pins, class, edited
<1>7. (\A l \in Roster : seen[l] # None) \/ ((\A l \in Roster : seen[l] = None) /\ edited = used.edited)
  BY SeenIs DEF edited
<1>8. Pinned'
  <2> SUFFICES ASSUME NEW l \in Roster, edited = None, class[l] # None PROVE pins[l] = class[l]
    BY <1>1, <1>2 DEF Pinned
  <2>1. CASE seen[l] # None
    BY <1>4, <2>1
  <2>2. CASE seen[l] = None
    BY <1>5, <1>7, <2>2 DEF ConfigOk, Pinned
  <2> QED BY <2>1, <2>2
<1>9. L!KeepsClass
  <2> SUFFICES ASSUME NEW l \in Roster, used.class[l] # None, used.class[l] # class[l],
                      used.edited = None, edited = None
               PROVE  FALSE
    BY <1>2, <1>6 DEF L!KeepsClass
  <2>1. kv.overrides[l] = used.class[l]
    BY DEF ConfigOk, Pinned
  <2>2. pins[l] = used.class[l]
    BY <1>3, <2>1
  <2>3. seen[l] # None
    BY <1>5
  <2>4. class[l] = cfg.overrides[l]
    BY <1>1, <1>a, <2>2, <2>3
  <2> QED BY <1>1, <2>2, <2>4
<1>10. L!SetsOwnFields
  BY <1>1 DEF L!SetsOwnFields
<1>11. ConfigOk'
  <2>1. used.edited \in L!Tools \cup {None}
    BY DEF ConfigOk
  <2>2. (graph \in [Roster -> Names] /\ index \in FullOrEmpty)'
    BY DEF ConfigOk
  <2> QED BY <1>1, <1>2, <1>6, <1>8, <2>1, <2>2 DEF ConfigOk
<1> QED BY <1>9, <1>10, <1>11 DEF ConfigSafe

LEMMA ListLoads ==
    ASSUME ConfigOk, NEW c \in Clients, L!LoadForList(c)
    PROVE  ConfigOk' /\ ConfigSafe
<1> DEFINE seen == call[c].seen
           cfg == [kv EXCEPT !.overrides = L!pinClassifications(seen, kv)]
           told == [call[c] EXCEPT !.pc = "ok"]
           new == [call[c] EXCEPT !.pc = "storing", !.cfg = cfg]
<1>1. seen \in FullOrEmpty /\ call[c].tool = "list_lists" /\ DOMAIN call[c] = DOMAIN L!NoCall
  BY DEF ConfigOk, Loaded, ReadRight, L!LoadForList
<1>2. UNCHANGED <<graph, index, kv>>
  BY DEF L!LoadForList
<1>3. /\ DOMAIN told = DOMAIN L!NoCall /\ told.pc = "ok"
      /\ DOMAIN new = DOMAIN L!NoCall /\ new.pc = "storing" /\ new.cfg = cfg
      /\ new.tool = "list_lists" /\ new.seen = seen
  BY <1>1, ConfigFields
<1>4. CASE cfg = kv
  <2>1. /\ L!Put(c, told)
        /\ used' = [used EXCEPT !.class = L!Classified(seen, kv), !.edited = L!Unedited(seen)]
    BY <1>4 DEF L!LoadForList
  <2> HIDE DEF told, seen
  <2>2. Loaded'
    <3>1. ReadRight(told, kv)
      BY <1>3 DEF ReadRight
    <3> QED BY <1>2, <1>3, <2>1, <3>1, PutKeepsLoaded
  <2>3. DOMAIN call' = Clients /\ \A d \in Clients : DOMAIN call'[d] = DOMAIN L!NoCall
    BY <1>3, <2>1, PutIs
  <2> HIDE DEF cfg
  <2>4. used' = [used EXCEPT !.class = L!Classified(seen, cfg), !.edited = L!Unedited(seen)]
    BY <1>4, <2>1
  <2> QED BY <1>1, <1>2, <1>4, <2>2, <2>3, <2>4, ListAnswers DEF cfg
<1>5. CASE cfg # kv
  <2>1. L!Put(c, new) /\ UNCHANGED used
    BY <1>5 DEF L!LoadForList
  <2> HIDE DEF new, seen
  <2>2. Loaded'
    <3>1. ReadRight(new, kv)
      <4>1. new.tool \in L!Tools /\ DOMAIN cfg = DOMAIN L!Default
        BY <1>3 DEF ConfigOk, L!Tools
      <4> QED BY <1>1, <1>3, <4>1 DEF ReadRight
    <3> QED BY <1>2, <1>3, <2>1, <3>1, PutKeepsLoaded
  <2>3. ConfigOk'
    BY <1>2, <1>3, <2>1, <2>2, PutIs DEF ConfigOk, Pinned
  <2>4. ConfigSafe
    BY <1>2, <2>1 DEF ConfigSafe, L!KeepsClass, L!SetsOwnFields
  <2> QED BY <2>3, <2>4
<1> QED BY <1>4, <1>5

LEMMA ListStores ==
    ASSUME ConfigOk, NEW c \in Clients, L!StorePins(c)
    PROVE  ConfigOk' /\ ConfigSafe
<1> DEFINE seen == call[c].seen
           cfg == call[c].cfg
           new == [call[c] EXCEPT !.pc = "ok"]
<1>1. /\ seen \in FullOrEmpty /\ DOMAIN call[c] = DOMAIN L!NoCall
      /\ DOMAIN cfg = DOMAIN L!Default
      /\ ~call[c].raced => cfg = [kv EXCEPT !.overrides = L!pinClassifications(seen, kv)]
  BY DEF ConfigOk, Loaded, ReadRight, L!StorePins
<1>2. UNCHANGED <<graph, index>>
  BY DEF L!StorePins
<1>3. DOMAIN new = DOMAIN L!NoCall /\ new.pc = "ok"
  BY <1>1, ConfigFields
<1>4. "list_lists" # None /\ "list_lists" \in L!Tools
  BY ConfigAssumption DEF L!Tools
<1> DEFINE edited == IF call[c].raced THEN "list_lists" ELSE L!Unedited(seen)
           noted == used' = [used EXCEPT !.class = L!Classified(seen, cfg), !.edited = edited]
<1>5. CASE L!Store(c) /\ ~call[c].raced /\ noted
  <2>1. used' = [used EXCEPT !.class = L!Classified(seen, cfg), !.edited = L!Unedited(seen)]
    BY <1>5
  <2>2. DOMAIN call' = Clients /\ (\A d \in Clients : DOMAIN call'[d] = DOMAIN L!NoCall)
        /\ Loaded' /\ kv' = cfg
    BY <1>5, StoreIs, StoreKeepsLoaded
  <2> HIDE DEF seen, cfg
  <2> QED BY <1>1, <1>2, <1>5, <2>1, <2>2, ListAnswers
<1>6. CASE L!Store(c) /\ call[c].raced /\ noted
  <2>1. used' = [used EXCEPT !.class = L!Classified(seen, cfg), !.edited = "list_lists"]
    BY <1>6
  <2>2. DOMAIN used' = {"class", "edited", "renames", "calls", "faults"}
        /\ used'.edited = "list_lists"
    BY <2>1 DEF ConfigOk
  <2>3. ConfigOk'
    BY <1>1, <1>2, <1>4, <1>6, <2>2, StoreIs, StoreKeepsLoaded DEF ConfigOk, Pinned
  <2>4. L!KeepsClass
    BY <1>4, <2>2 DEF L!KeepsClass
  <2>5. L!SetsOwnFields
    <3>1. call[c].pc = "storing" /\ call'[c].pc = "ok"
      BY <1>6, StoreIs DEF L!StorePins
    <3> QED BY <1>6, <3>1 DEF L!SetsOwnFields
  <2> QED BY <2>3, <2>4, <2>5 DEF ConfigSafe
<1>7. CASE /\ UNCHANGED kv /\ L!Put(c, new)
           /\ used' = [L!Count("faults") EXCEPT !.class = L!Classified(seen, cfg),
                                                 !.edited = "list_lists"]
  <2> HIDE DEF new
  <2>1. /\ DOMAIN used' = {"class", "edited", "renames", "calls", "faults"}
        /\ used'.edited = "list_lists"
    BY <1>7, CountIs
  <2>2. Loaded'
    <3>1. ReadRight(new, kv)
      BY <1>3 DEF ReadRight
    <3> QED BY <1>3, <1>7, <3>1, PutKeepsLoaded
  <2>3. ConfigOk'
    BY <1>2, <1>3, <1>4, <1>7, <2>1, <2>2, PutIs DEF ConfigOk, Pinned
  <2>4. ConfigSafe
    BY <1>4, <1>7, <2>1 DEF ConfigSafe, L!KeepsClass, L!SetsOwnFields
  <2> QED BY <2>3, <2>4
<1> QED BY <1>5, <1>6, <1>7 DEF L!StorePins

LEMMA ConfigStores ==
    ASSUME ConfigOk, NEW c \in Clients, L!StoreConfig(c)
    PROVE  ConfigOk' /\ ConfigSafe
<1> DEFINE edited == IF used.edited = "set_list_config" THEN used.edited ELSE call[c].tool
<1>1. /\ call[c].pc = "storing" /\ call[c].tool \in L!Tools /\ call[c].tool # "list_lists"
      /\ DOMAIN call[c].cfg = DOMAIN L!Default
      /\ ~call[c].raced => \A f \in DOMAIN L!Default \ ({"overrides"} \cup call[c].changes) :
                             call[c].cfg[f] = kv[f]
  BY DEF ConfigOk, Loaded, ReadRight, L!StoreConfig
<1>2. edited \in L!Tools /\ edited # None
  BY <1>1, ConfigAssumption DEF L!Tools
<1>3. UNCHANGED <<graph, index>> /\ L!Store(c) /\ used' = [used EXCEPT !.edited = edited]
  BY DEF L!StoreConfig
<1> HIDE DEF edited
<1>4. /\ DOMAIN used' = {"class", "edited", "renames", "calls", "faults"}
      /\ used'.edited = edited /\ used'.class = used.class
  BY <1>3 DEF ConfigOk
<1>5. ConfigOk'
  BY <1>1, <1>2, <1>3, <1>4, StoreIs, StoreKeepsLoaded DEF ConfigOk, Pinned
<1>6. L!KeepsClass
  BY <1>4 DEF L!KeepsClass
<1>7. L!SetsOwnFields
  <2>1. kv' = call[c].cfg /\ call'[c].pc = "ok"
    BY <1>3, StoreIs
  <2> QED BY <1>1, <2>1 DEF L!SetsOwnFields
<1> QED BY <1>5, <1>6, <1>7 DEF ConfigSafe

LEMMA ConfigNext ==
    ASSUME ConfigOk, [L!Next]_(L!vars)
    PROVE  ConfigOk' /\ ConfigSafe
<1>1. ASSUME NEW l \in Roster, NEW n \in Names, L!Rename(l, n) PROVE ConfigOk' /\ ConfigSafe
  <2>1. graph' \in [Roster -> Names] /\ UNCHANGED <<index, kv, call>> /\ used' = L!Count("renames")
    BY <1>1 DEF ConfigOk, L!Rename
  <2>2. Loaded' /\ Pinned'
    BY <2>1, CountIs, SameLoaded DEF ConfigOk, Pinned
  <2>3. ConfigOk'
    BY <2>1, <2>2, CountIs DEF ConfigOk
  <2> QED BY <2>1, <2>3, CountIs DEF ConfigSafe, L!KeepsClass, L!SetsOwnFields
<1>2. ASSUME index' \in FullOrEmpty, UNCHANGED <<graph, kv, call, used>>
      PROVE  ConfigOk' /\ ConfigSafe
  <2>1. Loaded' /\ Pinned'
    BY <1>2, SameLoaded DEF ConfigOk, Pinned
  <2> QED BY <1>2, <2>1 DEF ConfigOk, ConfigSafe, L!KeepsClass, L!SetsOwnFields
<1>3. CASE L!RefreshRoster
  BY <1>2, <1>3 DEF L!RefreshRoster, ConfigOk, FullOrEmpty
<1>4. CASE UNCHANGED L!vars
  BY <1>2, <1>4 DEF L!vars, ConfigOk
<1> QED BY <1>1, <1>3, <1>4, ListBegins, ListLoads, ListStores, ConfigCallBegins,
           ConfigStores, AliasBegins DEF L!Next

\* However many calls of the tools overlap, what list_lists told of a list changes
\* only after another tool wrote the config, or a pin could not be stored or was
\* stored over another call's write; and a call leaves the fields it does not name
\* as they were, unless another call wrote between its read and its write.
THEOREM ConfigIsKept == Spec => ConfigKept
<1>1. Init => (which = "config" => ConfigOk)
  BY ConfigInit DEF Init
<1>2. (which = "config" => ConfigOk) /\ [Next]_vars => (which = "config" => ConfigOk)'
  BY Same, ConfigStep, ConfigNext
<1>3. (which = "config" => ConfigOk) /\ [Next]_vars =>
         [which = "config" => L!KeepsClass /\ L!SetsOwnFields]_vars
  BY ConfigStep, ConfigNext DEF ConfigSafe
<1> QED BY <1>1, <1>2, <1>3, PTL DEF Spec, ConfigKept
=============================================================================

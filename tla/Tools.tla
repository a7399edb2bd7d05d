--------------------------------- MODULE Tools ---------------------------------
(***************************************************************************)
(* The Graph client, the tools and the caches they write through to: a     *)
(* behaviour is one of the eight modules, chosen at the start; the others' *)
(* variables are None.  Nothing is shared but the names.                   *)
(***************************************************************************)
EXTENDS Integers, Sequences, FiniteSets

CONSTANTS
    None,        \* null, undefined
    MaxCalls,    \* bound: calls of a tool, by component
    MaxFaults,   \* bound: what may fail, by component
    MaxEdits,    \* bound: changes by other clients, by component
    Budgets,     \* GraphClient: MAX_429_RETRIES of the callers
    Pages,       \* GraphClient: pages of a collection
    MaxBad,      \* GraphClient: bound, answers that are not 2xx
    Order,       \* MoveTask: the parts there are, in the order they are copied
    Links,       \* MoveTask: those that are linked resources
    Files,       \* MoveTask: those that are attachments
    Uncopyable,  \* MoveTask: those that cannot be copied
    MyDay,       \* MoveTask: ENABLE_MY_DAY
    MaxIds,      \* MoveTask: bound, ids Microsoft gives out
    MaxParts,    \* TaskTools: bound, parts of one kind a task has
    Roster,      \* ListConfig: lists, numbered in the order of the roster
    Names,       \* ListConfig: display names
    Types,       \* ListConfig: todo, reference, excluded
    Patterns,    \* ListConfig: values of "patterns"
    Aliases,     \* ListConfig: handles
    Clients,     \* ListConfig: calls at the same time
    MaxRenames,  \* ListConfig: bound, renames in Graph
    Lists,       \* QueryPages, MyDayCache: lists
    Class,       \* QueryPages: each list's class
    Numbered,    \* QueryPages, ManualOrder: tasks
    Limits,      \* QueryPages: page sizes
    MaxTime,     \* QueryPages: bound, modification times
    MaxQueries,  \* QueryPages: bound, queries begun
    Tasks,       \* ChecklistCache: tasks
    Items,       \* ChecklistCache: checklist items
    ScanTasks,   \* ChecklistCache: CHECKLIST_SCAN_MAX_TASKS_PER_CYCLE
    Broken,      \* MyDayCache: lists whose folder Exchange does not find
    ScanFolders, \* MyDayCache: MY_DAY_SCAN_MAX_FOLDERS_PER_CYCLE
    OtherIds,    \* MyDayCache: lists whose task was moved by move_task
    Window,      \* MyDayCache: ticks until a scanned list is due again
    Orders,      \* ManualOrder: orders there are before, or that "set" gives
    Done,        \* ManualOrder: completed tasks
    Renamed,     \* ManualOrder: tasks whose Substrate id is not the Graph id
    Nudge,       \* ManualOrder: ORDER_NUDGE_MS
    Now          \* ManualOrder: Date.now()

Limited == {"move", "task", "config", "checklist", "my_day", "order"}

ASSUME ToolsAssumption ==
    /\ MaxCalls \in [Limited -> Nat] /\ MaxFaults \in [Limited -> Nat]
    /\ MaxEdits \in [{"task", "checklist", "my_day"} -> Nat]
    /\ Budgets \subseteq Nat /\ None \notin Tasks /\ None \notin Lists

VARIABLES
    which, \* the component this behaviour is of
    graph, \* what Microsoft's services hold
    feed,  \* what changed since the index read the delta feed
    index, \* what the index holds
    call,  \* the call in progress, or the write-through that is due
    used,  \* how much of each bound is used up
    scan,  \* the scan in progress
    kv,    \* ListConfig: config:lists
    time,  \* QueryPages: the clock; MyDayCache: the age of each list's scan
    since  \* MyDayCache: lists that changed since the fetch of their last scan;
           \* ChecklistCache: tasks that a write-through was late for

vars == <<which, graph, feed, index, call, used, scan, kv, time, since>>

G == INSTANCE GraphClient WITH req <- call, done <- graph, met <- used

M == INSTANCE MoveTask WITH
        MaxCalls <- MaxCalls["move"], MaxFaults <- MaxFaults["move"], tasks <- graph

ASSUME MoveAssumption == MaxIds \in Nat /\ None \notin M!Task \cup M!Row

T == INSTANCE TaskTools WITH
        MaxOthers <- MaxEdits["task"],
        MaxCalls <- MaxCalls["task"], MaxFaults <- MaxFaults["task"]

L == INSTANCE ListConfig WITH
        Lists <- Roster, Classes <- Types, PatternLists <- Patterns,
        MaxCalls <- MaxCalls["config"], MaxFaults <- MaxFaults["config"],
        names <- graph, roster <- index, calls <- call, told <- used

ASSUME ConfigAssumption == None \notin Names \cup L!Tools

Q == INSTANCE QueryPages WITH
        Tasks <- Numbered,
        table <- index, clock <- time, pager <- call, queries <- used

ASSUME QueryAssumption ==
    /\ Numbered \subseteq Nat /\ Limits \subseteq Nat \ {0} /\ MaxTime \in Nat \ {0}
    /\ None \notin Q!Keys

C == INSTANCE ChecklistCache WITH
        Max <- ScanTasks, stray <- since, MaxEdits <- MaxEdits["checklist"],
        MaxCalls <- MaxCalls["checklist"], MaxFaults <- MaxFaults["checklist"],
        rows <- index, tool <- call

D == INSTANCE MyDayCache WITH
        MaxFolders <- ScanFolders, MaxEdits <- MaxEdits["my_day"],
        MaxCalls <- MaxCalls["my_day"], MaxFaults <- MaxFaults["my_day"],
        exo <- graph, rows <- index, age <- time, tool <- call

O == INSTANCE ManualOrder WITH
        Tasks <- Numbered,
        MaxCalls <- MaxCalls["order"], MaxFaults <- MaxFaults["order"],
        real <- graph, cache <- index

ASSUME OrderAssumption ==
    /\ IsFiniteSet(Numbered) /\ None \notin Int
    /\ Orders \subseteq Int /\ Nudge \in Nat \ {0} /\ Now \in Int

OnGraph     == which = "client" /\ UNCHANGED <<which, feed, index, scan, kv, time, since>>
OnMove      == which = "move" /\ UNCHANGED <<which, scan, kv, time, since>>
OnTask      == which = "task" /\ UNCHANGED <<which, scan, kv, time, since>>
OnConfig    == which = "config" /\ UNCHANGED <<which, feed, scan, time, since>>
OnQuery     == which = "query" /\ UNCHANGED <<which, graph, feed, scan, kv, since>>
OnChecklist == which = "checklist" /\ UNCHANGED <<which, kv, time>>
OnMyDay     == which = "my_day" /\ UNCHANGED <<which, feed, kv>>
OnOrder     == which = "order" /\ UNCHANGED <<which, feed, scan, kv, time, since>>

Init ==
    \/ /\ which = "client" /\ G!Init
       /\ feed = None /\ index = None /\ scan = None /\ kv = None
       /\ time = None /\ since = None
    \/ /\ which = "move" /\ M!Init
       /\ scan = None /\ kv = None /\ time = None /\ since = None
    \/ /\ which = "task" /\ T!Init
       /\ scan = None /\ kv = None /\ time = None /\ since = None
    \/ /\ which = "config" /\ L!Init
       /\ feed = None /\ scan = None /\ time = None /\ since = None
    \/ /\ which = "query" /\ Q!Init
       /\ graph = None /\ feed = None /\ scan = None /\ kv = None
       /\ since = None
    \/ /\ which = "checklist" /\ C!Init
       /\ kv = None /\ time = None
    \/ /\ which = "my_day" /\ D!Init
       /\ feed = None /\ kv = None
    \/ /\ which = "order" /\ O!Init
       /\ feed = None /\ scan = None /\ kv = None /\ time = None
       /\ since = None

Next ==
    \/ OnGraph /\ G!Serve
    \/ OnGraph /\ G!Expired
    \/ OnGraph /\ G!Throttle
    \/ OnGraph /\ G!Refuse
    \/ OnGraph /\ G!Break
    \/ OnGraph /\ G!Retry
    \/ OnGraph /\ G!RefreshFails
    \/ OnGraph /\ G!GiveUp
    \/ OnGraph /\ G!NextPage
    \/ OnGraph /\ G!Finish
    \/ OnGraph /\ G!Unreadable
    \/ OnMove /\ M!Sync
    \/ OnMove /\ M!LateCommit
    \/ OnMove /\ M!Crash
    \/ OnMove /\ \E p \in M!Parts : M!Edit(p)
    \/ OnMove /\ M!Begin
    \/ OnMove /\ M!ReadSource
    \/ OnMove /\ M!Reparent
    \/ OnMove /\ M!Unavailable
    \/ OnMove /\ M!Unconfirmed
    \/ OnMove /\ M!Recheck
    \/ OnMove /\ M!Create
    \/ OnMove /\ M!CreateFails
    \/ OnMove /\ M!CopyPart
    \/ OnMove /\ M!CopyBreaks
    \/ OnMove /\ M!PartsCopied
    \/ OnMove /\ M!ListFiles
    \/ OnMove /\ M!Carry
    \/ OnMove /\ M!DeleteSource
    \/ OnMove /\ M!DeleteBreaks
    \/ OnMove /\ M!Abort
    \/ OnMove /\ M!AbortBreaks
    \/ OnTask /\ T!OtherClient
    \/ OnTask /\ T!Sync
    \/ OnTask /\ \E t \in T!Tools, listed \in BOOLEAN : T!Begin(t, listed)
    \/ OnTask /\ T!ReadTask
    \/ OnTask /\ T!ResetTask
    \/ OnTask /\ T!ResetRefused
    \/ OnTask /\ T!Serve
    \/ OnTask /\ T!Refuse
    \/ OnTask /\ T!Fail
    \/ OnTask /\ T!Note
    \/ OnTask /\ T!NoteFails
    \/ OnTask /\ T!Expand
    \/ OnTask /\ T!Link
    \/ OnConfig /\ \E l \in Roster, n \in Names : L!Rename(l, n)
    \/ OnConfig /\ L!RefreshRoster
    \/ OnConfig /\ \E c \in Clients : L!BeginList(c)
    \/ OnConfig /\ \E c \in Clients : L!LoadForList(c)
    \/ OnConfig /\ \E c \in Clients : L!StorePins(c)
    \/ OnConfig /\ \E c \in Clients : L!LoadForConfig(c)
    \/ OnConfig /\ \E c \in Clients : L!StoreConfig(c)
    \/ OnConfig /\ \E c \in Clients, h \in Aliases, i \in Names \cup Roster :
                       L!LoadForAlias(c, h, i)
    \/ OnQuery /\ \E t \in Numbered, l \in Lists, c \in 1..MaxTime \cup {None} :
                      Q!Write(t, l, c)
    \/ OnQuery /\ \E t \in Numbered : Q!Delete(t)
    \/ OnQuery /\ \E lists \in {None} \cup {{l} : l \in Lists}, types, exclude \in Q!Scopes,
                      open \in BOOLEAN \cup {None}, n \in Limits :
                      Q!query_tasks(lists, types, exclude, open, n)
    \/ OnQuery /\ \E l \in Lists, n \in Limits : Q!get_pending_across_lists(Class[l], n)
    \/ OnQuery /\ \E l \in Lists, open \in BOOLEAN \cup {None}, n \in Limits :
                      Q!list_tasks(l, open, n)
    \/ OnQuery /\ \E l \in Lists, open \in BOOLEAN \cup {None}, n \in Limits :
                      Q!ColdPage(l, open, n)
    \/ OnQuery /\ Q!NextPage(call.open)
    \/ OnQuery /\ \E l \in Lists \cup {None}, type \in {Class[k] : k \in Lists} \cup {None},
                      after \in 1..MaxTime, n \in Limits :
                      Q!get_recently_completed(l, type, after, n)
    \/ OnQuery /\ \E lists \in {None} \cup {{l} : l \in Lists}, types, exclude \in Q!Scopes,
                      open \in BOOLEAN \cup {None}, n \in Limits :
                      Q!search_tasks(lists, types, exclude, open, n)
    \/ OnChecklist /\ C!Delta
    \/ OnChecklist /\ C!Resync
    \/ OnChecklist /\ C!ScanBegin
    \/ OnChecklist /\ C!ScanStore
    \/ OnChecklist /\ C!Note
    \/ OnChecklist /\ C!NoteFails
    \/ OnChecklist /\ \E t \in Tasks : C!ScanFetch(t)
    \/ OnChecklist /\ \E t \in Tasks : C!ScanFails(t)
    \/ OnChecklist /\ \E t \in Tasks : C!Edit(t)
    \/ OnChecklist /\ \E t \in Tasks, i \in Items, k \in C!Kinds : C!Tool(t, i, k)
    \/ OnMyDay /\ D!Tick
    \/ OnMyDay /\ D!ScanBegin
    \/ OnMyDay /\ D!ScanFetch
    \/ OnMyDay /\ D!ScanFails
    \/ OnMyDay /\ D!ScanStore
    \/ OnMyDay /\ D!Note
    \/ OnMyDay /\ \E l \in Lists : D!Delta(l)
    \/ OnMyDay /\ \E l \in Lists : D!Edit(l)
    \/ OnMyDay /\ \E l \in Lists : D!add_to_my_day(l)
    \/ OnMyDay /\ \E l \in Lists : D!remove_from_my_day(l)
    \/ OnOrder /\ \E k \in {"task", "item", "my_day"}, t \in Numbered, p \in O!Positions :
                      O!Begin(k, t, p)
    \/ OnOrder /\ O!ReadTasks
    \/ OnOrder /\ O!ReadItems
    \/ OnOrder /\ O!ReadDay
    \/ OnOrder /\ O!ReadReference
    \/ OnOrder /\ O!ReadFails
    \/ OnOrder /\ O!Patch
    \/ OnOrder /\ O!PatchFails
    \/ OnOrder /\ O!Note
    \/ OnOrder /\ O!Scan
    \/ OnOrder /\ \E t \in Numbered, o \in Orders : O!Move(t, o)

Spec == Init /\ [][Next]_vars

-----------------------------------------------------------------------------
(* Properties: those of the modules, each of the behaviours it is about.     *)

\* Everything has its type.
TypesOK ==
    /\ which = "client" => G!TypeOK
    /\ which = "move" => M!TypeOK
    /\ which = "task" => T!TypeOK
    /\ which = "config" => L!TypeOK
    /\ which = "query" => Q!TypeOK
    /\ which = "checklist" => C!TypeOK
    /\ which = "my_day" => D!TypeOK
    /\ which = "order" => O!TypeOK

\* The requests: no retry carries a write out twice, an expired token and a
\* throttle are absorbed in any order, and a read has every page.
Retries == which = "client" => G!AtMostOnce /\ G!Absorbs /\ G!WholeCollection

\* move_task: no part of the task is ever lost, and the answer is true.
MoveIsSafe == which = "move" => M!NothingLost /\ M!AnswerIsTrue /\ M!RowTellsParts

\* update_task: an accepted completion date is on the task, and a call is
\* refused for another client's change only.
UpdateIsExact == which = "task" => T!DateSticks /\ T!RefusedForOthers

\* Whatever a tool did not write to the index, the delta feed reports.
IndexCatchesUp ==
    /\ which = "move" => M!IndexCatchesUp
    /\ which = "task" => T!IndexCatchesUp

\* Lists keep their class when they are renamed, and a config field changes
\* only in a call that sets it, unless calls overlap.
ConfigKept == [][which = "config" => L!KeepsClass /\ L!SetsOwnFields]_vars

\* Pages of a query: every row once, and none from outside its scope.
PagesExact == which = "query" => Q!PagesComplete /\ Q!NothingElse

\* A checklist whose marker says "nothing to fetch" is Graph's, but for late
\* write-throughs.
MarkedIsFresh == which = "checklist" => C!MarkedIsFresh

\* My Day membership is wrong only of what changed since the last scan.
WrongOnlySinceScan == which = "my_day" => D!WrongOnlySinceScan

\* The reordered task is where it was asked to be.
AsAsked == which = "order" => O!AsAsked

\* "Treated as moved ... delta sync will reconcile" (register-tools.ts:1355-1357):
\* what a move answered with ok leaves wrong in the index, the feed reports.
DeltaReconciles == which = "move" => M!DeltaReconciles

\* "A mutation is the ONLY way has_checklist becomes 1" (index-core.ts:479-480):
\* the flag a mutation has set stays while the task has items.
ChecklistFlagLasts == [][which = "task" => T!FlagLasts]_vars

\* "Sends If-Match to avoid clobbering concurrent edits" (register-tools.ts:1096):
\* with an ETag, update_task changes only the task the caller has seen.
OverwritesNothing == which = "task" => T!OverwritesNothing
=============================================================================

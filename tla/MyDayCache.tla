------------------------------ MODULE MyDayCache ------------------------------
(***************************************************************************)
(* My Day membership of tasks, which only Exchange knows and the index     *)
(* caches (src/core/index/index-core.ts:72-108, 498-537, 1350-1420,        *)
(* 2090-2175, src/core/mcp/register-tools.ts:3680-3902,                    *)
(* src/core/graph/substrate-client.ts).                                    *)
(*                                                                         *)
(* There is no delta for it: a calm cycle reads whole lists, the one       *)
(* scanned longest ago first, some per cycle, each once per window.  Two   *)
(* tools change membership and write it through, at any time in a scan.    *)
(* One task of each list stands for all, and one day.  Time is the age of  *)
(* each list's last scan, up to the age that list_my_day_tasks calls       *)
(* stale.                                                                  *)
(***************************************************************************)
EXTENDS Naturals, Sequences, FiniteSets, SequencesExt

CONSTANTS
    Lists,      \* lists that are not skipped
    Broken,     \* those whose folder Exchange does not find
    OtherIds,   \* those whose task was moved by move_task: its Exchange id is not
                \* the id of its row
    MaxFolders, \* MY_DAY_SCAN_MAX_FOLDERS_PER_CYCLE
    Window,     \* ticks until a scanned list is due again
    None,       \* NULL, undefined
    MaxEdits,   \* bound: changes by other clients
    MaxCalls,   \* bound: calls of a tool
    MaxFaults   \* bound: requests and write-throughs that fail

VARIABLES
    exo,  \* Exchange: lists whose task is in My Day
    rows, \* tasks table: whether the list's task has a row, and is committed
    age,  \* sync_state "myday:{list}": ticks since last_synced_at
    scan, \* the batch in progress
    tool, \* the write-through that is due
    used, \* how much of each bound is used up
    since \* (not in the code) lists whose task changed in Exchange, got a row
          \* or was written through since the fetch of their last scan

vars == <<exo, rows, age, scan, tool, used, since>>

StaleAge == 3 * Window + 1
NoScan == [due |-> <<>>, list |-> None, seen |-> FALSE, moved |-> FALSE]
NoTool == [list |-> None, day |-> FALSE]

TypeOK ==
    /\ exo \subseteq Lists
    /\ rows \in [Lists -> BOOLEAN \cup {None}]
    /\ age \in [Lists -> 0..StaleAge \cup {None}]
    /\ scan \in [due : Seq(Lists), list : Lists \cup {None}, seen : BOOLEAN,
                 moved : BOOLEAN]
    /\ tool \in [list : Lists \cup {None}, day : BOOLEAN]
    /\ used \in [edits : 0..MaxEdits, calls : 0..MaxCalls, faults : 0..MaxFaults]
    /\ since \subseteq Lists

Init ==
    /\ exo \in SUBSET Lists
    /\ rows \in [Lists -> {FALSE, None}]
    /\ age = [l \in Lists |-> None]
    /\ scan = NoScan
    /\ tool = NoTool
    /\ used = [edits |-> 0, calls |-> 0, faults |-> 0]
    /\ since = Lists

Use(b, bound) == used[b] < bound /\ used' = [used EXCEPT ![b] = @ + 1]

-----------------------------------------------------------------------------
(* The scan.                                                                *)

\* isScanDue()
isScanDue(l) == age[l] = None \/ age[l] >= Window

\* Longest ago first; never counts as longest of all.
Older(a, b) == age[a] = None \/ (age[b] # None /\ age[a] >= age[b])

\* selectDueScanLists(): the batches it may select; ties are in roster order.
selectDueScanLists ==
    LET due == {l \in Lists : isScanDue(l)}
        n   == IF Cardinality(due) < MaxFolders THEN Cardinality(due) ELSE MaxFolders
    IN  {SubSeq(s, 1, n) : s \in {t \in SetToSeqs(due) :
            \A i, j \in DOMAIN t : i < j => Older(t[i], t[j])}}

\* Time passes; no scan is in progress.
Tick ==
    /\ scan = NoScan
    /\ \E l \in Lists : age[l] \notin {None, StaleAge}
    /\ age' = [l \in Lists |-> IF age[l] \in {None, StaleAge} THEN age[l] ELSE age[l] + 1]
    /\ UNCHANGED <<exo, rows, scan, tool, used, since>>

\* A calm cycle begins its batch.
ScanBegin ==
    /\ scan = NoScan
    /\ \E due \in selectDueScanLists \ {<<>>} : scan' = [scan EXCEPT !.due = due]
    /\ UNCHANGED <<exo, rows, age, tool, used, since>>

Scanned(due) == [NoScan EXCEPT !.due = due]

\* The tasks of the next list are fetched.
ScanFetch ==
    /\ scan.due # <<>> /\ scan.list = None
    /\ Head(scan.due) \notin Broken
    /\ scan' = [due |-> Tail(scan.due), list |-> Head(scan.due),
                seen |-> Head(scan.due) \in exo, moved |-> FALSE]
    /\ UNCHANGED <<exo, rows, age, tool, used, since>>

\* That fails: the age stays, the error is recorded, the batch goes on; a 403
\* ends the batch.
ScanFails ==
    /\ scan.due # <<>> /\ scan.list = None
    /\ \/ /\ Head(scan.due) \in Broken /\ UNCHANGED used
          /\ scan' = Scanned(Tail(scan.due))
       \/ /\ Use("faults", MaxFaults)
          /\ \E due \in {<<>>, Tail(scan.due)} : scan' = Scanned(due)
    /\ UNCHANGED <<exo, rows, age, tool, since>>

\* Mutant of updateMyDayFields: only members are written.
updateMembersOnly(l, day) ==
    IF rows[l] = None \/ ~day THEN rows ELSE [rows EXCEPT ![l] = day]

\* updateMyDayFields(): nothing happens to a task without a row.
updateMyDayFields(l, day) ==
    IF rows[l] = None THEN rows ELSE [rows EXCEPT ![l] = day]

\* What was fetched is written, by Exchange id, and the list's age is 0.
ScanStore ==
    /\ scan.list # None
    /\ rows' = IF scan.list \in OtherIds THEN rows
               ELSE updateMyDayFields(scan.list, scan.seen)
    /\ age' = [age EXCEPT ![scan.list] = 0]
    /\ since' = IF scan.moved THEN since ELSE since \ {scan.list}
    /\ scan' = Scanned(scan.due)
    /\ UNCHANGED <<exo, tool, used>>

\* The delta feed or a tool brings the task's row, or takes it.
Delta(l) ==
    /\ Use("edits", MaxEdits)
    /\ rows' = [rows EXCEPT ![l] = IF @ = None THEN FALSE ELSE None]
    /\ since' = since \cup {l}
    /\ UNCHANGED <<exo, age, scan, tool>>

-----------------------------------------------------------------------------
(* Reads.                                                                   *)

list_my_day_tasks == {l \in Lists : rows[l] = TRUE}

\* getMyDayScanState(): the oldest age there is.
getMyDayScanState ==
    LET ages == {age[l] : l \in Lists} \ {None} IN IF ages = {} THEN None ELSE Max(ages)

\* The advisory of list_my_day_tasks.
Stale == getMyDayScanState \in {None, StaleAge}

-----------------------------------------------------------------------------
(* Changes of membership.                                                   *)

Change(l, day) ==
    /\ exo' = IF day THEN exo \cup {l} ELSE exo \ {l}
    /\ since' = since \cup {l}
    /\ scan' = [scan EXCEPT !.moved = @ \/ scan.list = l]

\* Another client, or the end of the day.
Edit(l) ==
    /\ Use("edits", MaxEdits)
    /\ Change(l, l \notin exo)
    /\ UNCHANGED <<rows, age, tool>>

\* The PATCH of a tool.
Patch(l, day) ==
    /\ tool = NoTool /\ Use("calls", MaxCalls)
    /\ Change(l, day)
    /\ tool' = [list |-> l, day |-> day]
    /\ UNCHANGED <<rows, age>>

add_to_my_day(l)      == Patch(l, TRUE)
remove_from_my_day(l) == Patch(l, FALSE)

\* The write-through, by the id the caller gave; if it fails, the tool answers an
\* error.
Note ==
    /\ tool # NoTool
    /\ \/ /\ rows' = updateMyDayFields(tool.list, tool.day)
          /\ since' = since \cup {tool.list}
          /\ UNCHANGED used
       \/ Use("faults", MaxFaults) /\ UNCHANGED <<rows, since>>
    /\ tool' = NoTool
    /\ UNCHANGED <<exo, age, scan>>

Next == \/ Tick \/ ScanBegin \/ ScanFetch \/ ScanFails \/ ScanStore \/ Note
        \/ \E l \in Lists : Delta(l)
        \/ \E l \in Lists : Edit(l)
        \/ \E l \in Lists : add_to_my_day(l)
        \/ \E l \in Lists : remove_from_my_day(l)

Spec == Init /\ [][Next]_vars

\* Calm cycles go on, and what they fetch is stored.
FairSpec == Spec /\ WF_vars(Tick) /\ WF_vars(ScanBegin) /\ WF_vars(ScanFetch)
                 /\ WF_vars(ScanFails) /\ WF_vars(ScanStore) /\ WF_vars(Note)

-----------------------------------------------------------------------------
(* Properties.                                                              *)

\* list_my_day_tasks tells other than Exchange only of a task that changed, got
\* its row or was written through since the fetch of the list's last scan,
\* whichever way scans, write-throughs and other clients overtake each other; a
\* re-parented task is excepted, whose row no scan finds.
WrongOnlySinceScan ==
    \A l \in Lists \ (since \cup OtherIds) : rows[l] # None => (l \in list_my_day_tasks <=> l \in exo)

\* "worst-case freshness across the roster, so a single lagging list keeps the
\* advisory honest" (index-core.ts:1379-1381): what is not called stale was
\* scanned, all of it, within three windows.
AdvisoryHonest == ~Stale => \A l \in Lists : age[l] \notin {None, StaleAge}

\* "guarantees every list reaches the front ... without ever starving a list"
\* (index-core.ts:91-95): a list that Exchange does not refuse is scanned.
EveryListScanned == \A l \in Lists \ Broken : <>(age[l] # None)
=============================================================================

------------------------------- MODULE ListIndex -------------------------------
(***************************************************************************)
(* What the index promises of one list, whatever way the changes come: a   *)
(* copy of the list that is complete up to some moment, which only         *)
(* advances; or no moment at all, and then reads do not use the copy.      *)
(* There are no links, pages, budgets, errors or restarts here: DeltaSync  *)
(* has them, and implements this.                                          *)
(***************************************************************************)
EXTENDS Integers

CONSTANTS
    Tasks, \* task ids of the list
    None   \* no moment: the copy is not used

VARIABLES
    clock, \* number of changes made to the list
    graph, \* the list: each task's last change, and whether it exists
    rows,  \* the copy: the version of each task (0: no row), and who wrote it
    upto   \* the moment up to which the copy is complete

vars == <<clock, graph, rows, upto>>

NoRow == [ver |-> 0, by |-> "delta"]

Init ==
    /\ clock = 0 /\ upto = None
    /\ graph = [t \in Tasks |-> [ver |-> 0, alive |-> FALSE]]
    /\ rows = [t \in Tasks |-> NoRow]

\* Somebody creates, updates or deletes task t.
Change(t) ==
    /\ clock' = clock + 1
    /\ graph[t].ver = 0 \/ graph[t].alive
    /\ \E alive \in BOOLEAN : graph' = [graph EXCEPT ![t] = [ver |-> clock + 1, alive |-> alive]]
    /\ UNCHANGED <<rows, upto>>

\* A row the copy may take over: a version the task had, not older than the one
\* the copy took over before; none only of a task that is gone for good.
MayReplace(old, new, task) ==
    /\ new.by = "delta" /\ new.ver <= task.ver
    /\ new.ver = 0 => ~task.alive /\ task.ver > 0
    /\ old.by = "delta" /\ new.ver > 0 => old.ver <= new.ver

\* The copy has every change up to the moment m; of a tool's row it is not said.
Complete(copy, m) ==
    m # None => \A t \in Tasks :
        graph[t].ver <= m => \/ copy[t].by = "tool"
                             \/ copy[t].ver = IF graph[t].alive THEN graph[t].ver ELSE 0

\* Some rows are taken over, and the moment advances if it can.
CatchUp ==
    /\ rows' \in [Tasks -> [ver : 0..clock, by : {"delta", "tool"}]]
    /\ \A t \in Tasks : rows'[t] = rows[t] \/ MayReplace(rows[t], rows'[t], graph[t])
    /\ upto' \in 0..clock \cup {None}
    /\ upto # None => upto' # None /\ upto <= upto'
    /\ Complete(rows', upto')
    /\ UNCHANGED <<clock, graph>>

\* A tool's own change is noted, at once or late.
Note(t) ==
    /\ \E v \in 0..graph[t].ver : rows' = [rows EXCEPT ![t] = [ver |-> v, by |-> "tool"]]
    /\ UNCHANGED <<clock, graph, upto>>

\* The copy is given up and begun anew.
Purge ==
    /\ rows' = [t \in Tasks |-> NoRow]
    /\ upto' = None
    /\ UNCHANGED <<clock, graph>>

Next == CatchUp \/ Purge \/ \E t \in Tasks : Change(t) \/ Note(t)

Spec == Init /\ [][Next]_vars
=============================================================================

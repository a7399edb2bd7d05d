-------------------------------- MODULE MCTools --------------------------------
(* The tools and caches on small instances: a move of a task with an item, a *)
(* link and two files, one of them a reference; one list with two names, two *)
(* sets of patterns and one alias; three tasks in two lists of different     *)
(* classes, pages of one; one task whose two items come and go; two lists,   *)
(* one scanned per cycle, the other re-parented; three tasks with room between two of them, one     *)
(* completed, one renamed.                                                   *)
EXTENDS Tools, TLC

CONSTANTS i1, f1, f2, l1, l2, n1, n2, t1, a, b, todo, reference, inbox, c1, c2

Calls  == [move |-> 2, task |-> 2, config |-> 3, checklist |-> 3, my_day |-> 1, order |-> 1]
Faults == [move |-> 2, task |-> 1, config |-> 1, checklist |-> 1, my_day |-> 1, order |-> 1]
Edits  == [task |-> 1, checklist |-> 1, my_day |-> 1]

AllBudgets == 0..2
Parts      == <<i1, l1, f1, f2>>
OneList    == {1}
TwoLists   == {l1, l2}
Classes    == (l1 :> todo) @@ (l2 :> reference)
PatternSet == {<<>>, <<[names |-> {n1}, type |-> todo],
                       [names |-> {n1, n2}, type |-> reference]>>}
Three      == 1..3
=============================================================================

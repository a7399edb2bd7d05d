------------------------------ MODULE MCSyncCycle ------------------------------
(* SyncCycle on small instances: at most one list has more than one page.   *)
EXTENDS SyncCycle

ThreeLists == 1..3
OnePage3   == [l \in ThreeLists |-> 1]
OneLarge   == [l \in ThreeLists |-> IF l = 1 THEN 2 ELSE 1]
Nobody     == {}
FirstList  == {1}
OneMore3   == [l \in ThreeLists |-> {1}]
UpToTwo    == [l \in ThreeLists |-> IF l = 1 THEN {1, 2} ELSE {1}]
=============================================================================

---------------------------- MODULE NodeHostProofs ----------------------------
(***************************************************************************)
(* The two halves of the Node host, each for every value of its constants. *)
(*                                                                         *)
(* Scheduler: a persisted alarm is never forgotten, whatever the delays    *)
(* and however many fires, changes and restarts.  Each of the things that  *)
(* lead to the alarm hands over to another before it goes.  The answer of  *)
(* the read at startup, which replaces the timer, could break that; so the *)
(* inductive invariant adds that until then nothing has happened: the      *)
(* alarm is the one that was read, and there is no timer and no fire to    *)
(* lose.                                                                   *)
(*                                                                         *)
(* InstanceLock: the lease works for any number of processes and any       *)
(* lease.  Inductive invariant: a process that is not overdue holds the    *)
(* row, and the row is no older than the process is late.  The age is what *)
(* makes it inductive: only an expired row is taken over, and by then its  *)
(* holder is overdue.                                                      *)
(***************************************************************************)
EXTENDS Scheduler, InstanceLock, TLAPS

\* Nothing is on its way in a process that has just begun, or that is no more.
Fresh == timer = None /\ queue = 0 /\ fire.pc = "idle"
BootIsFresh == boot.pending => Fresh /\ boot.seen = alarm
DownIsFresh == status = "down" => Fresh /\ ~ensuring /\ ~boot.pending

IInv == TypeOK /\ AlarmHasTimer /\ BootIsFresh /\ DownIsFresh

\* An alarm of any length leaves a timer of at most the cap.
Armable == \A at \in Delay : Armed(at) \in (0..Cap) \cup {None}

\* The timer that arm() leaves behind, and that there is one.
LEMMA ArmedType == Armable /\ Armed(None) = None
BY SchedulerAssumption DEF Armable, Armed, Delay

LEMMA ArmedIsTimer ==
    ASSUME status = "up", NEW at \in Delay PROVE Armed(at) # None
BY SchedulerAssumption DEF Armed, Delay

\* The values that stand for nothing have the types.
LEMMA RestType ==
    /\ Idle \in Fire
    /\ [pc |-> "run", seen |-> None] \in Fire
    /\ NoBoot \in [pending : BOOLEAN, seen : Delay \cup {None}]
BY DEF Idle, Fire, NoBoot

\* A change of the alarm keeps the types.
LEMMA ChangeType ==
    ASSUME TypeOK, NEW at \in Delay \cup {None}, ChangeAlarm(at)
    PROVE  /\ alarm' \in Delay \cup {None}
           /\ timer' \in (0..Cap) \cup {None}
           /\ boot' \in [pending : BOOLEAN, seen : Delay \cup {None}]
           /\ dropped' \in BOOLEAN
BY ArmedType DEF ChangeAlarm, Arm, Armable, NoBoot

\* The alarm, the timer and the chain keep their types.
LEMMA TypeStep == ASSUME TypeOK, [Next]_vars PROVE TypeOK'
<1> USE DEF TypeOK, stored, arming, memory
<1>1. CASE StartUp
  BY <1>1 DEF StartUp
<1>2. CASE BootRead
  BY <1>2, ArmedType DEF BootRead, Arm, Armable, NoBoot
<1>3. CASE BootThrows
  BY <1>3, SchedulerAssumption DEF BootThrows, Drop, NoBoot
<1>4. CASE Stop
  BY <1>4, SchedulerAssumption DEF Stop
<1>5. ASSUME Lost, faults' = faults \/ (faults < MaxFaults /\ faults' = faults + 1)
      PROVE  TypeOK'
  <2>1. faults' \in 0..MaxFaults /\ queue' \in 0..MaxQueue
    BY <1>5, SchedulerAssumption DEF Lost
  <2>. QED
    BY <1>5, <2>1, RestType DEF Lost
<1>6. CASE Prompt
  BY <1>6, ChangeType, SchedulerAssumption DEF Prompt, Delay
<1>7. CASE Heartbeat \/ ColdRead
  BY <1>7 DEF Heartbeat, ColdRead, Ensure
<1>8. CASE SignIn
  BY <1>8 DEF SignIn
<1>9. CASE EnsureSet
  BY <1>9, ChangeType, SchedulerAssumption DEF EnsureSet, Delay
<1>10. CASE Refuse
  BY <1>10 DEF Refuse
<1>11. CASE Reset
  BY <1>11, ChangeType DEF Reset
<1>12. CASE Tick
  BY <1>12, SchedulerAssumption DEF Tick, Delay, Fire
<1>13. CASE TimerFires
  BY <1>13, SchedulerAssumption DEF TimerFires
<1>14. CASE FireReads
  BY <1>14, SchedulerAssumption DEF FireReads, Fire
<1>15. CASE FireReturns
  BY <1>15, ArmedType DEF FireReturns, Arm, Armable, Idle, Fire
<1>16. CASE FireClears
  BY <1>16, ChangeType DEF FireClears, Fire
<1>17. CASE FireThrows
  BY <1>17, SchedulerAssumption DEF FireThrows, Drop, Idle, Fire
<1>18. CASE RunSkips \/ RunBegins
  BY <1>18, RestType DEF RunSkips, RunBegins
<1>19. CASE RunEnds
  BY <1>19, ChangeType, SchedulerAssumption DEF RunEnds, Delay, Idle, Fire
<1>20. CASE RunFails
  BY <1>20 DEF RunFails, Idle, Fire
<1>21. CASE RunRetries
  BY <1>21, ChangeType, SchedulerAssumption DEF RunRetries, Delay, Idle, Fire
<1>22. CASE UNCHANGED vars
  BY <1>22 DEF vars
<1>. QED
  BY <1>1, <1>2, <1>3, <1>4, <1>5, <1>6, <1>7, <1>8, <1>9, <1>10, <1>11,
     <1>12, <1>13, <1>14, <1>15, <1>16, <1>17, <1>18, <1>19, <1>20, <1>21,
     <1>22 DEF Next, Chain, Exit, Crash

\* A database nobody has used yet has the types.
LEMMA InitType == Init => TypeOK
<1> SUFFICES ASSUME Init PROVE TypeOK
  OBVIOUS
<1> USE DEF Init
<1>1. None \in Delay \cup {None} /\ None \in (0..Cap) \cup {None}
  OBVIOUS
<1>2. 0 \in 0..MaxQueue /\ 0 \in 0..MaxFaults
  BY SchedulerAssumption
<1>. QED
  BY <1>1, <1>2, RestType DEF TypeOK

\* Every reachable state has the types.
THEOREM TypeCorrect == Spec => []TypeOK
  BY InitType, TypeStep, PTL DEF Spec

\* While the scheduler runs, changing the alarm leaves no alarm or a timer.
LEMMA ChangeArms ==
    ASSUME status' = status, NEW at \in Delay \cup {None}, ChangeAlarm(at)
    PROVE  AlarmHasTimer'
BY ArmedIsTimer DEF ChangeAlarm, Arm, AlarmHasTimer

\* What leads to the alarm hands over before it goes.
LEMMA TimerStep == ASSUME IInv, [Next]_vars PROVE AlarmHasTimer'
<1> USE DEF IInv, TypeOK, stored, arming, memory
<1>1. CASE StartUp
  BY <1>1 DEF StartUp, AlarmHasTimer
<1>2. CASE BootRead
  BY <1>2, ArmedIsTimer DEF BootRead, Arm, AlarmHasTimer, BootIsFresh
<1>3. CASE BootThrows
  BY <1>3, SchedulerAssumption DEF BootThrows, Drop, AlarmHasTimer
<1>4. CASE Stop
  BY <1>4 DEF Stop, AlarmHasTimer
<1>5. CASE Lost
  BY <1>5 DEF Lost, AlarmHasTimer
<1>6. CASE Prompt
  BY <1>6, ChangeArms, SchedulerAssumption DEF Prompt, Delay
<1>7. CASE Heartbeat \/ ColdRead \/ SignIn
  BY <1>7 DEF Heartbeat, ColdRead, Ensure, SignIn, AlarmHasTimer
<1>8. CASE EnsureSet
  BY <1>8, ChangeArms, SchedulerAssumption DEF EnsureSet, Delay
<1>9. CASE Refuse
  BY <1>9 DEF Refuse, AlarmHasTimer
<1>10. CASE Reset
  BY <1>10, ChangeArms DEF Reset
<1>11. CASE Tick
  BY <1>11, SchedulerAssumption DEF Tick, Delay, Fire, AlarmHasTimer
<1>12. CASE TimerFires
  BY <1>12, SchedulerAssumption DEF TimerFires, AlarmHasTimer
<1>13. CASE FireReads
  BY <1>13 DEF FireReads, AlarmHasTimer
<1>14. CASE FireReturns
  BY <1>14, ArmedIsTimer DEF FireReturns, Arm, Fire, AlarmHasTimer
<1>15. CASE FireClears
  BY <1>15, ChangeArms DEF FireClears
<1>16. CASE FireThrows
  BY <1>16, SchedulerAssumption DEF FireThrows, Drop, AlarmHasTimer
<1>17. CASE RunSkips \/ RunBegins
  BY <1>17 DEF RunSkips, RunBegins, AlarmHasTimer
<1>18. CASE RunEnds
  BY <1>18, ChangeArms, SchedulerAssumption DEF RunEnds, Delay
<1>19. CASE RunFails
  BY <1>19 DEF RunFails, Idle, AlarmHasTimer
<1>20. CASE RunRetries
  BY <1>20, ChangeArms, SchedulerAssumption
     DEF RunRetries, Delay, Idle, AlarmHasTimer
<1>21. CASE UNCHANGED vars
  BY <1>21 DEF vars, AlarmHasTimer
<1>. QED
  BY <1>1, <1>2, <1>3, <1>4, <1>5, <1>6, <1>7, <1>8, <1>9, <1>10, <1>11,
     <1>12, <1>13, <1>14, <1>15, <1>16, <1>17, <1>18, <1>19, <1>20, <1>21
     DEF Next, Chain, Exit, Crash

\* Whatever begins ends the read at startup, and only a process begins it.
LEMMA FreshStep ==
    ASSUME IInv, [Next]_vars PROVE BootIsFresh' /\ DownIsFresh'
<1> USE DEF IInv, TypeOK, stored, arming, memory,
        BootIsFresh, DownIsFresh, Fresh, NoBoot
<1>1. CASE StartUp
  BY <1>1, SchedulerAssumption DEF StartUp
<1>2. CASE BootRead
  BY <1>2, SchedulerAssumption DEF BootRead
<1>3. CASE BootThrows
  BY <1>3, SchedulerAssumption DEF BootThrows, Drop
<1>4. CASE Stop
  BY <1>4, SchedulerAssumption DEF Stop
<1>5. CASE Lost
  BY <1>5, SchedulerAssumption DEF Lost, Idle
<1>6. CASE Prompt
  BY <1>6, SchedulerAssumption DEF Prompt, ChangeAlarm, Running
<1>7. CASE Heartbeat \/ ColdRead \/ SignIn
  BY <1>7, SchedulerAssumption DEF Heartbeat, ColdRead, Ensure, SignIn, Running
<1>8. CASE EnsureSet
  BY <1>8, SchedulerAssumption DEF EnsureSet, ChangeAlarm
<1>9. CASE Refuse
  BY <1>9, SchedulerAssumption DEF Refuse
<1>10. CASE Reset
  BY <1>10, SchedulerAssumption DEF Reset, ChangeAlarm, Running
<1>11. CASE Tick
  BY <1>11, SchedulerAssumption DEF Tick, Fire
<1>12. CASE TimerFires
  BY <1>12, SchedulerAssumption DEF TimerFires
<1>13. CASE FireReads
  BY <1>13, SchedulerAssumption DEF FireReads
<1>14. CASE FireReturns
  BY <1>14, SchedulerAssumption DEF FireReturns, Idle
<1>15. CASE FireClears
  BY <1>15, SchedulerAssumption DEF FireClears, ChangeAlarm
<1>16. CASE FireThrows
  BY <1>16, SchedulerAssumption DEF FireThrows, Idle
<1>17. CASE RunSkips \/ RunBegins
  BY <1>17, SchedulerAssumption DEF RunSkips, RunBegins, Idle
<1>18. CASE RunEnds
  BY <1>18, SchedulerAssumption DEF RunEnds, ChangeAlarm, Idle
<1>19. CASE RunFails
  BY <1>19, SchedulerAssumption DEF RunFails, Idle
<1>20. CASE RunRetries
  BY <1>20, SchedulerAssumption DEF RunRetries, ChangeAlarm, Idle
<1>21. CASE UNCHANGED vars
  BY <1>21, SchedulerAssumption DEF vars
<1>. QED
  BY <1>1, <1>2, <1>3, <1>4, <1>5, <1>6, <1>7, <1>8, <1>9, <1>10, <1>11,
     <1>12, <1>13, <1>14, <1>15, <1>16, <1>17, <1>18, <1>19, <1>20, <1>21
     DEF Next, Chain, Exit, Crash

\* A persisted alarm is never forgotten.
THEOREM AlarmIsFollowed == Spec => []AlarmHasTimer
<1>1. Init => IInv
  BY InitType DEF Init, IInv, AlarmHasTimer, BootIsFresh, DownIsFresh, Fresh,
                  Idle, NoBoot
<1>2. IInv /\ [Next]_vars => IInv'
  BY TypeStep, TimerStep, FreshStep DEF IInv
<1>3. IInv => AlarmHasTimer
  BY DEF IInv
<1>. QED
  BY <1>1, <1>2, <1>3, PTL DEF Spec

\* A run that failed leaves an alarm: only the retry and a fault end it in a
\* process that goes on.
THEOREM FailedRunLeavesAlarm == Spec => RunLeavesAlarm
<1>1. TypeOK /\ [Next]_vars => [RetryIsArmed]_vars
  <2> SUFFICES ASSUME TypeOK, Next, fire.pc = "failed", fire'.pc = "idle",
                      status' # "down", faults' = faults
               PROVE  IF fire.seen = None THEN alarm' # None ELSE alarm' = alarm
    BY DEF RetryIsArmed
  <2>1. CASE RunRetries
    BY <2>1, SchedulerAssumption DEF RunRetries, ChangeAlarm
  <2>2. CASE FireThrows \/ Crash \/ Exit
    BY <2>2 DEF FireThrows, Crash, Exit, Lost, TypeOK
  <2>3. CASE FireReads \/ FireReturns \/ FireClears \/ RunSkips \/ RunBegins \/ RunEnds \/ RunFails
    BY <2>3 DEF FireReads, FireReturns, FireClears, RunSkips, RunBegins, RunEnds, RunFails
  <2>4. CASE Tick
    BY <2>4 DEF Tick, TypeOK, Fire
  <2>5. ASSUME \/ StartUp \/ BootRead \/ BootThrows \/ Stop \/ Prompt \/ Heartbeat \/ ColdRead
               \/ SignIn \/ EnsureSet \/ Refuse \/ Reset \/ TimerFires
        PROVE  FALSE
    BY <2>5 DEF StartUp, BootRead, BootThrows, Stop, Prompt, Heartbeat, ColdRead, SignIn,
                Ensure, EnsureSet, Refuse, Reset, TimerFires, memory
  <2> QED BY <2>1, <2>2, <2>3, <2>4, <2>5 DEF Next, Chain
<1>. QED
  BY <1>1, TypeCorrect, PTL DEF Spec, RunLeavesAlarm

-----------------------------------------------------------------------------
(* The lease row.                                                           *)

\* Overdue is the only way not to hold the row, and its age tells.
Covered == \A p \in up : late[p] < Ttl => holder = p /\ age <= late[p]

Lease == LockTypeOK /\ Covered

\* The lease row and the processes keep their types.
LEMMA LockTypeStep == ASSUME LockTypeOK, [LockNext]_lockVars PROVE LockTypeOK'
<1> USE LockAssumption DEF LockTypeOK
<1>1. CASE Elapse
  BY <1>1 DEF Elapse, Later
<1>2. CASE PowerLoss
  BY <1>2 DEF PowerLoss
<1>3. ASSUME NEW p \in Procs, Acquire(p) PROVE LockTypeOK'
  BY <1>3 DEF Acquire
<1>4. ASSUME NEW p \in Procs, Beat(p) PROVE LockTypeOK'
  BY <1>4 DEF Beat
<1>5. ASSUME NEW p \in Procs, BeatLost(p) PROVE LockTypeOK'
  BY <1>5 DEF BeatLost, Release, Leave
<1>6. ASSUME NEW p \in Procs, Quit(p) PROVE LockTypeOK'
  BY <1>6 DEF Quit, Release, Leave
<1>7. ASSUME NEW p \in Procs, Kill(p) PROVE LockTypeOK'
  BY <1>7 DEF Kill, Leave
<1>8. CASE UNCHANGED lockVars
  BY <1>8 DEF lockVars
<1>. QED
  BY <1>1, <1>2, <1>3, <1>4, <1>5, <1>6, <1>7, <1>8 DEF LockNext

\* A process that ends takes nothing from another that is not overdue.
LEMMA LeaveStep ==
    ASSUME Lease, NEW p \in Procs, Leave(p),
           \/ holder = p
           \/ holder' = holder /\ age' = age
    PROVE  Covered'
BY LockAssumption DEF Lease, LockTypeOK, Covered, Leave

\* Every step keeps the invariant.
LEMMA CoveredStep == ASSUME Lease, [LockNext]_lockVars PROVE Covered'
<1> USE LockAssumption DEF Lease, LockTypeOK
<1>1. CASE Elapse
  BY <1>1 DEF Elapse, Later, Covered
<1>2. CASE PowerLoss
  BY <1>2 DEF PowerLoss, Covered
<1>3. ASSUME NEW p \in Procs, Acquire(p) PROVE Covered'
  <2>1. \A q \in up : ~(late[q] < Ttl)
    BY <1>3 DEF Acquire, Covered
  <2>. QED BY <1>3, <2>1 DEF Acquire, Covered
<1>4. ASSUME NEW p \in Procs, Beat(p) PROVE Covered'
  BY <1>4 DEF Beat, Covered
<1>5. ASSUME NEW p \in Procs, BeatLost(p) PROVE Covered'
  BY <1>5, LeaveStep DEF BeatLost, Release
<1>6. ASSUME NEW p \in Procs, Quit(p) PROVE Covered'
  BY <1>6, LeaveStep DEF Quit, Release
<1>7. ASSUME NEW p \in Procs, Kill(p) PROVE Covered'
  BY <1>7, LeaveStep DEF Kill
<1>8. CASE UNCHANGED lockVars
  BY <1>8 DEF lockVars, Covered
<1>. QED
  BY <1>1, <1>2, <1>3, <1>4, <1>5, <1>6, <1>7, <1>8 DEF LockNext

\* The invariant holds in every reachable state.
THEOREM LeaseInvariant == LockSpec => []Lease
<1>1. LockInit => Lease
  BY LockAssumption DEF LockInit, Lease, LockTypeOK, Covered
<1>2. Lease /\ [LockNext]_lockVars => Lease'
  BY LockTypeStep, CoveredStep DEF Lease
<1>. QED
  BY <1>1, <1>2, PTL DEF LockSpec

\* A process whose last written beat is younger than the lease holds it.
THEOREM PunctualAlwaysHolds == LockSpec => []PunctualHolds
<1>1. Lease => PunctualHolds
  BY DEF Lease, Covered, PunctualHolds
<1>. QED
  BY <1>1, LeaseInvariant, PTL

\* If no process is ever as late as the lease is long, one runs at a time:
\* with a lease of three beats, one beat in a row may fail, not two.
THEOREM OneProcessWhileInTime == ASSUME MaxLate < Ttl PROVE LockSpec => []OneProcess
<1> DEFINE InTime == \A p \in up : late[p] <= MaxLate
<1>1. LockInit => InTime
  BY DEF LockInit
<1>2. Lease /\ InTime /\ [LockNext]_lockVars => InTime'
  <2> SUFFICES ASSUME Lease, InTime, [LockNext]_lockVars PROVE InTime'
    OBVIOUS
  <2> USE LockAssumption DEF Lease, LockTypeOK
  <2>1. CASE Elapse
    BY <2>1 DEF Elapse, Later
  <2>2. CASE PowerLoss
    BY <2>2 DEF PowerLoss
  <2>3. ASSUME NEW p \in Procs, Acquire(p) PROVE InTime'
    BY <2>3 DEF Acquire
  <2>4. ASSUME NEW p \in Procs, Beat(p) PROVE InTime'
    BY <2>4 DEF Beat
  <2>5. ASSUME NEW p \in Procs, Leave(p) PROVE InTime'
    BY <2>5 DEF Leave
  <2>6. CASE UNCHANGED lockVars
    BY <2>6 DEF lockVars
  <2>. QED
    BY <2>1, <2>2, <2>3, <2>4, <2>5, <2>6 DEF LockNext, BeatLost, Quit, Kill
<1>3. Lease /\ InTime => OneProcess
  BY LockAssumption DEF Lease, LockTypeOK, Covered, OneProcess
<1>. QED
  BY <1>1, <1>2, <1>3, LeaseInvariant, PTL DEF LockSpec
=============================================================================

------------------------------ MODULE MCNodeHost ------------------------------
(* The Node host on small instances.  A behaviour is of the lock, which four  *)
(* processes contend for, or of the scheduler in one process that holds it.   *)
(*                                                                            *)
(* One unit of the lock is a beat (20 s); the lease is three.  One unit of    *)
(* the scheduler is the 2 s of MID_CYCLE_REARM_MS; the interval is longer     *)
(* than the cap, so that an alarm is reached in steps.                        *)
EXTENDS Scheduler, InstanceLock

MCRearm == {1, 5}

VARIABLE part

hostVars == <<part, vars, lockVars>>

HostInit ==
    /\ part \in {"lock", "scheduler"}
    /\ Init
    /\ IF part = "lock" THEN LockInit
       ELSE /\ holder = CHOOSE p \in Procs : TRUE
            /\ up = {holder} /\ age = 0 /\ late = [p \in Procs |-> 0]

OnLock      == part = "lock" /\ UNCHANGED <<part, vars>>
OnScheduler == part = "scheduler" /\ UNCHANGED <<part, lockVars>>

HostNext == (OnLock /\ LockNext) \/ (OnScheduler /\ Next)

\* The fairness of the parts.
HostSpec ==
    /\ HostInit /\ [][HostNext]_hostVars
    /\ WF_hostVars(OnLock /\ Elapse)
    /\ \A p \in Procs : WF_hostVars(OnLock /\ (Beat(p) \/ BeatLost(p)))
    /\ WF_hostVars(OnLock /\ \E p \in Procs : Acquire(p))
    /\ WF_hostVars(OnScheduler /\ StartUp) /\ WF_hostVars(OnScheduler /\ BootRead)
    /\ WF_hostVars(OnScheduler /\ Exit) /\ WF_hostVars(OnScheduler /\ Heartbeat)
    /\ WF_hostVars(OnScheduler /\ EnsureSet) /\ WF_hostVars(OnScheduler /\ Tick)
    /\ WF_hostVars(OnScheduler /\ TimerFires) /\ WF_hostVars(OnScheduler /\ FireReads)
    /\ WF_hostVars(OnScheduler /\ (FireReturns \/ FireClears))
    /\ WF_hostVars(OnScheduler /\ (RunSkips \/ RunBegins))
    /\ WF_hostVars(OnScheduler /\ (RunEnds \/ RunFails))
    /\ WF_hostVars(OnScheduler /\ RunRetries)
=============================================================================

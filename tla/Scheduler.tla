------------------------------- MODULE Scheduler -------------------------------
(***************************************************************************)
(* The Node host's stand-in for a Durable Object alarm and for the cron    *)
(* trigger: a timer that follows the alarm stored in SQLite, a chain of    *)
(* runs that never overlap, and a heartbeat (src/hosts/node/http.ts        *)
(* startScheduler, src/hosts/node/state-store.ts), through shutdowns,      *)
(* crashes and restarts (src/hosts/node/main.ts).                          *)
(*                                                                         *)
(* Times are relative: the alarm, the timer and an alarm that was read are *)
(* the delay that is left, which Tick takes down; 0 is due or overdue.     *)
(* core.alarm() is a run that begins and then ends or throws: what it does *)
(* in between is SyncCycle.  `wanted` and `dropped` belong to the model:    *)
(* somebody asked for a run that has not begun, and a read of the alarm    *)
(* failed, after which nothing has armed the timer.                        *)
(***************************************************************************)
EXTENDS Integers

CONSTANTS
    None,       \* JavaScript's null
    Soon,       \* delay of Date.now() + 1
    Rearm,      \* the delays a run that ends may ask for
    Retry,      \* ALARM_RETRY_MS
    Cap,        \* MAX_DELAY_MS, the longest a setTimeout can wait
    MaxDelay,   \* no delay above is longer
    MaxQueue,   \* bound: fires that wait for a run to end
    MaxFaults   \* bound: shutdowns, crashes and failed reads

ASSUME SchedulerAssumption ==
    /\ MaxDelay \in Nat /\ Soon \in 0..MaxDelay /\ Retry \in 0..MaxDelay
    /\ Rearm \subseteq 0..MaxDelay
    /\ Cap \in Nat \ {0} /\ MaxQueue \in Nat \ {0} /\ MaxFaults \in Nat
    /\ None \notin Int

VARIABLES
    alarm,    \* SQLite: do_state.__alarm__
    auth,     \* SQLite: tokens are stored and no re-authorization is required
    status,   \* the process: "down", "up", "stopping" (stop() was called)
    timer,    \* `timer`, the pending setTimeout
    queue,    \* `running`: fires chained behind the one at work
    fire,     \* the fire() at work, and the alarm it read
    boot,     \* what the read at startup found, until its answer is used
    ensuring, \* an ensureSyncing() that found no alarm and is to set one
    wanted, dropped,
    faults

stored == <<alarm, auth>>
arming == <<timer, dropped>>
memory == <<arming, queue, fire, boot, ensuring>>
vars   == <<stored, status, memory, wanted, faults>>

Delay  == 0..MaxDelay
Idle   == [pc |-> "idle", seen |-> None]
Fire   == [pc : {"idle", "read", "cleared", "run", "failed"},
           seen : Delay \cup {None}]
NoBoot == [pending |-> FALSE, seen |-> None]

TypeOK ==
    /\ alarm \in Delay \cup {None}
    /\ auth \in BOOLEAN
    /\ status \in {"down", "up", "stopping"}
    /\ timer \in (0..Cap) \cup {None}
    /\ queue \in 0..MaxQueue
    /\ fire \in Fire
    /\ boot \in [pending : BOOLEAN, seen : Delay \cup {None}]
    /\ ensuring \in BOOLEAN /\ wanted \in BOOLEAN /\ dropped \in BOOLEAN
    /\ faults \in 0..MaxFaults

Init ==
    /\ alarm = None /\ auth = FALSE /\ status = "down"
    /\ timer = None /\ queue = 0 /\ fire = Idle /\ boot = NoBoot
    /\ ensuring = FALSE /\ wanted = FALSE /\ dropped = FALSE
    /\ faults = 0

Running == status # "down"

-----------------------------------------------------------------------------
(* The store tells the scheduler of every change of the alarm.              *)

\* The timer arm(at) leaves behind: none once stopped, else at most Cap long.
Armed(at) ==
    CASE at = None \/ status # "up" -> None
      [] at # None /\ status = "up" /\ at <= Cap -> at
      [] OTHER -> Cap

Arm(at) == timer' = Armed(at) /\ dropped' = FALSE

\* A read of the alarm failed with no other timer or fire on its way.
Drop == dropped' = (alarm # None /\ timer = None /\ queue = 0)

\* setAlarm(), deleteAlarm(): newer than what the read at startup found.
ChangeAlarm(at) ==
    /\ alarm' = at /\ Arm(at) /\ boot' = NoBoot

-----------------------------------------------------------------------------
(* Start and stop.                                                          *)

\* startScheduler(): the listener is registered and the alarm is being read.
StartUp ==
    /\ status = "down"
    /\ status' = "up"
    /\ boot' = [pending |-> TRUE, seen |-> alarm]
    /\ UNCHANGED <<stored, arming, queue, fire, ensuring, wanted, faults>>

\* Mutant: the persisted alarm is not picked up.
BootReadIgnored ==
    /\ boot.pending
    /\ boot' = NoBoot
    /\ UNCHANGED <<stored, status, arming, queue, fire, ensuring, wanted, faults>>

\* The read at startup answers, and has not been overtaken by a change.
BootRead ==
    /\ boot.pending
    /\ boot' = NoBoot
    /\ Arm(boot.seen)
    /\ UNCHANGED <<stored, status, queue, fire, ensuring, wanted, faults>>

\* It throws.
BootThrows ==
    /\ boot.pending /\ faults < MaxFaults
    /\ boot' = NoBoot /\ faults' = faults + 1
    /\ Drop
    /\ UNCHANGED <<stored, status, timer, queue, fire, ensuring, wanted>>

\* stop(): no timer and no heartbeat any more; a run at work is waited for.
Stop ==
    /\ status = "up" /\ faults < MaxFaults
    /\ status' = "stopping" /\ faults' = faults + 1
    /\ timer' = None
    /\ UNCHANGED <<stored, queue, fire, boot, ensuring, dropped, wanted>>

\* What a process that ends loses; the alarm and the tokens are in SQLite.
Lost ==
    /\ status' = "down"
    /\ timer' = None /\ queue' = 0 /\ fire' = Idle /\ boot' = NoBoot
    /\ ensuring' = FALSE /\ dropped' = FALSE
    /\ UNCHANGED <<stored, wanted>>

\* The shutdown is over, or its time is: withTimeout() waits no longer.
Exit  == status = "stopping" /\ Lost /\ UNCHANGED faults
Crash == Running /\ faults < MaxFaults /\ faults' = faults + 1 /\ Lost

-----------------------------------------------------------------------------
(* The rest of the process: notifications, tools, the sign-in, the cron.    *)

\* A notification, resync() or recreateSubscriptions(): setAlarm(now + 1).
Prompt ==
    /\ Running
    /\ ChangeAlarm(Soon)
    /\ wanted' = auth
    /\ UNCHANGED <<auth, status, queue, fire, ensuring, faults>>

\* ensureSyncing() reads the alarm: from the heartbeat until stop() clears it,
\* from a cold read, and, with the tokens stored, from a sign-in.
Ensure ==
    /\ ~ensuring /\ alarm = None
    /\ ensuring' = TRUE
    /\ UNCHANGED <<alarm, status, arming, queue, fire, boot, faults>>

Heartbeat == status = "up" /\ Ensure /\ UNCHANGED <<auth, wanted>>
ColdRead  == Running /\ Ensure /\ wanted' = auth /\ UNCHANGED auth

SignIn ==
    /\ Running /\ ~auth
    /\ auth' = TRUE /\ wanted' = TRUE
    /\ ensuring' = (ensuring \/ alarm = None)
    /\ UNCHANGED <<alarm, status, arming, queue, fire, boot, faults>>

\* ... and sets one, if none was there.
EnsureSet ==
    /\ ensuring
    /\ ensuring' = FALSE
    /\ ChangeAlarm(Soon)
    /\ UNCHANGED <<auth, status, queue, fire, wanted, faults>>

\* Microsoft refuses the refresh token: runs do nothing until a sign-in.
Refuse ==
    /\ Running /\ auth
    /\ auth' = FALSE /\ wanted' = FALSE
    /\ UNCHANGED <<alarm, status, memory, faults>>

\* resetIdentity() deletes the alarm of the account that leaves, and with it
\* the tokens; the sign-in that follows asks for the next run.
Reset ==
    /\ Running
    /\ ChangeAlarm(None)
    /\ auth' = FALSE /\ wanted' = FALSE
    /\ UNCHANGED <<status, queue, fire, ensuring, faults>>

Tick ==
    LET Less(d) == IF d = None \/ d = 0 THEN d ELSE d - 1 IN
    /\ alarm' = Less(alarm) /\ timer' = Less(timer)
    /\ fire' = [fire EXCEPT !.seen = Less(@)]
    /\ boot' = [boot EXCEPT !.seen = Less(@)]
    /\ UNCHANGED <<auth, status, queue, ensuring, wanted, dropped, faults>>

-----------------------------------------------------------------------------
(* The runs.                                                                *)

\* The timer fires, and a fire() is chained behind those at work.
TimerFires ==
    /\ timer = 0 /\ queue < MaxQueue
    /\ timer' = None /\ queue' = queue + 1
    /\ UNCHANGED <<stored, status, fire, boot, ensuring, dropped, wanted, faults>>

\* fire() reads the alarm ...
FireReads ==
    /\ fire.pc = "idle" /\ queue > 0
    /\ queue' = queue - 1
    /\ fire' = [pc |-> "read", seen |-> alarm]
    /\ UNCHANGED <<stored, status, arming, boot, ensuring, wanted, faults>>

\* Mutant: a fire that comes too early forgets to step on.
FireReturnsEarly ==
    /\ fire.pc = "read"
    /\ status = "up" => fire.seen # 0
    /\ fire' = Idle
    /\ UNCHANGED <<stored, status, arming, queue, boot, ensuring, wanted, faults>>

\* ... stops there if there is nothing to do, or it is too early ...
FireReturns ==
    /\ fire.pc = "read"
    /\ \/ /\ (status = "stopping" \/ fire.seen = None)
          /\ UNCHANGED <<arming>>
       \/ /\ status = "up" /\ fire.seen # None /\ fire.seen > 0
          /\ Arm(fire.seen)
    /\ fire' = Idle
    /\ UNCHANGED <<stored, status, queue, boot, ensuring, wanted, faults>>

\* ... else deletes it, as a Durable Object does before its handler runs ...
FireClears ==
    /\ fire.pc = "read" /\ status = "up" /\ fire.seen = 0
    /\ ChangeAlarm(None)
    /\ fire' = [fire EXCEPT !.pc = "cleared"]
    /\ UNCHANGED <<auth, status, queue, ensuring, wanted, faults>>

\* ... or reading or deleting it throws, or so does what follows a failed run:
\* the chain goes on.
FireThrows ==
    /\ fire.pc \in {"read", "failed"} /\ faults < MaxFaults
    /\ fire' = Idle /\ faults' = faults + 1
    /\ Drop
    /\ UNCHANGED <<stored, status, timer, queue, boot, ensuring, wanted>>

\* alarm() returns at once when there is nothing it could sync with ...
RunSkips ==
    /\ fire.pc = "cleared" /\ ~auth
    /\ fire' = Idle
    /\ UNCHANGED <<stored, status, arming, queue, boot, ensuring, wanted, faults>>

RunBegins ==
    /\ fire.pc = "cleared" /\ auth
    /\ fire' = [pc |-> "run", seen |-> None]
    /\ wanted' = FALSE
    /\ UNCHANGED <<stored, status, arming, queue, boot, ensuring, faults>>

\* ... and re-arms when the cycle is done.
RunEnds ==
    /\ fire.pc = "run"
    /\ \E at \in Rearm : ChangeAlarm(at)
    /\ fire' = Idle
    /\ UNCHANGED <<auth, status, queue, ensuring, wanted, faults>>

\* It throws, or the check before it does: unless the scheduler was stopped,
\* the alarm is read again ...
RunFails ==
    /\ (fire.pc = "run" \/ (fire.pc = "cleared" /\ ~auth))
    /\ fire' = IF status = "up" THEN [pc |-> "failed", seen |-> alarm] ELSE Idle
    /\ UNCHANGED <<stored, status, arming, queue, boot, ensuring, wanted, faults>>

\* Mutant: a failed run is only logged.
RunNotRetried ==
    /\ fire.pc = "failed"
    /\ fire' = Idle
    /\ UNCHANGED <<stored, status, arming, queue, boot, ensuring, wanted, faults>>

\* ... and a run is set for later if there is none.
RunRetries ==
    /\ fire.pc = "failed"
    /\ IF fire.seen = None THEN ChangeAlarm(Retry)
                           ELSE UNCHANGED <<alarm, arming, boot>>
    /\ fire' = Idle
    /\ UNCHANGED <<auth, status, queue, ensuring, wanted, faults>>

-----------------------------------------------------------------------------
Chain == \/ TimerFires \/ FireReads \/ FireReturns \/ FireClears
         \/ RunSkips \/ RunBegins \/ RunEnds \/ RunFails \/ RunRetries
Next  == \/ StartUp \/ BootRead \/ BootThrows \/ Stop \/ Exit \/ Crash
         \/ Prompt \/ Heartbeat \/ ColdRead \/ SignIn \/ EnsureSet
         \/ Refuse \/ Reset \/ Tick \/ FireThrows
         \/ Chain

Spec == Init /\ [][Next]_vars

\* Time passes, the event loop serves what is ready, the heartbeat's interval
\* comes round, a run ends one way or the other, a shutdown does too, and a
\* process that went down is started again (compose.yaml: unless-stopped).
Fairness ==
    /\ WF_vars(StartUp) /\ WF_vars(BootRead) /\ WF_vars(Exit)
    /\ WF_vars(Heartbeat) /\ WF_vars(EnsureSet) /\ WF_vars(Tick)
    /\ WF_vars(TimerFires) /\ WF_vars(FireReads)
    /\ WF_vars(FireReturns \/ FireClears)
    /\ WF_vars(RunSkips \/ RunBegins)
    /\ WF_vars(RunEnds \/ RunFails) /\ WF_vars(RunRetries)

FairSpec == Spec /\ Fairness

-----------------------------------------------------------------------------
(* Properties.                                                              *)

\* A persisted alarm is never forgotten: while the scheduler runs, a timer, a
\* fire that will still look at it or the read at startup leads to it, unless
\* a read of it has failed.  Since ensureSyncing() leaves an alarm that is
\* there alone, nothing else would (http.ts:159-161 "a timer follows the
\* persisted alarm (so a restart picks it up)").
AlarmHasTimer ==
    status = "up" /\ alarm # None =>
        \/ timer # None \/ queue > 0
        \/ fire.pc = "read" /\ fire.seen # None
        \/ boot.pending /\ boot.seen # None
        \/ dropped

\* A run that fails leaves an alarm behind unless the scheduler was stopped or
\* the store fails too, and leaves one that it or another has set meanwhile as
\* it is (http.ts:163-165 and 207, "Keep an alarm the failed run already set;
\* otherwise retry").
RetryIsArmed ==
    /\ fire.pc = "failed" /\ fire'.pc = "idle" /\ status' # "down" /\ faults' = faults
    => IF fire.seen = None THEN alarm' # None ELSE alarm' = alarm
RunLeavesAlarm == [][RetryIsArmed]_vars

\* Who asks for a run gets one, across failures, shutdowns and crashes: the
\* alarm is persisted, or the heartbeat finds it missing.
Served == wanted ~> (~wanted \/ dropped)

\* The same when a read of the alarm may fail (http.ts:160-165: the heartbeat
\* is what bounds how long one failure can stop the sync).
ServedInAnyCase == wanted ~> ~wanted

\* The timer is never later than the alarm while nothing is on its way.
TimerIsInTime ==
    /\ status = "up" /\ alarm # None /\ queue = 0
    /\ fire.pc = "idle" /\ ~boot.pending /\ ~dropped
    => timer # None /\ timer <= alarm
=============================================================================

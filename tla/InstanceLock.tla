------------------------------ MODULE InstanceLock ------------------------------
(***************************************************************************)
(* One process per database file: the lease row of the Node host           *)
(* (src/hosts/node/single-instance.ts), taken at startup and given back at *)
(* exit (src/hosts/node/main.ts, lifecycle.ts).  Everything IndexCore      *)
(* keeps in memory, the refresh chain and the cycle that never overlaps    *)
(* itself, relies on it.                                                   *)
(*                                                                         *)
(* Time is counted in beats of HEARTBEAT_MS.  The age of the row and how   *)
(* late a process is with its own beat grow together; a beat that fails    *)
(* (SQLITE_BUSY), or one the process was too stalled to make, is one that  *)
(* does not happen.  The holder's id is drawn at random at each start, so  *)
(* a row left behind names nobody who runs: Gone.                          *)
(***************************************************************************)
EXTENDS Integers

CONSTANTS
    Procs,      \* processes that may be started on the same file
    NoRow,       \* there is no row
    Gone,       \* the id of a process that ended without deleting the row
    Ttl,        \* DEFAULT_TTL_MS / HEARTBEAT_MS
    MaxLate     \* bound: how late a process can be; above Ttl, any stall

ASSUME LockAssumption ==
    /\ NoRow \notin Procs /\ Gone \notin Procs /\ NoRow # Gone
    /\ Ttl \in Nat \ {0} /\ MaxLate \in Nat \ {0}

VARIABLES
    holder, \* the row's holder id
    age,    \* now - heartbeat_at; Ttl or more counts as Ttl
    up,     \* the processes that run
    late    \* each one's beats since the last that was written; as age

lockVars == <<holder, age, up, late>>

LockTypeOK ==
    /\ holder \in Procs \cup {NoRow, Gone}
    /\ age \in 0..Ttl
    /\ up \in SUBSET Procs
    /\ late \in [Procs -> 0..Ttl]

LockInit ==
    /\ holder = NoRow /\ age = 0
    /\ up = {} /\ late = [p \in Procs |-> 0]

-----------------------------------------------------------------------------
\* Mutant: an expired row is not taken over.
AcquireFree(p) ==
    /\ p \notin up /\ holder = NoRow
    /\ holder' = p /\ age' = 0
    /\ up' = up \cup {p} /\ late' = [late EXCEPT ![p] = 0]

\* Mutant: the row is taken over a beat too soon.
AcquireEarly(p) ==
    /\ p \notin up
    /\ (holder = NoRow \/ age + 1 >= Ttl)
    /\ holder' = p /\ age' = 0
    /\ up' = up \cup {p} /\ late' = [late EXCEPT ![p] = 0]

\* acquireInstanceLock(): BEGIN IMMEDIATE makes it one step.
Acquire(p) ==
    /\ p \notin up
    /\ (holder = NoRow \/ age = Ttl)
    /\ holder' = p /\ age' = 0
    /\ up' = up \cup {p} /\ late' = [late EXCEPT ![p] = 0]

\* The time of the next beat comes.
Later(n) == IF n < Ttl THEN n + 1 ELSE Ttl

Elapse ==
    /\ \A p \in up : late[p] < MaxLate
    /\ age' = Later(age)
    /\ late' = [p \in Procs |-> IF p \in up THEN Later(late[p]) ELSE late[p]]
    /\ UNCHANGED <<holder, up>>

\* The heartbeat is written, if the row is still our own.
Beat(p) ==
    /\ p \in up /\ late[p] > 0 /\ holder = p
    /\ age' = 0 /\ late' = [late EXCEPT ![p] = 0]
    /\ UNCHANGED <<holder, up>>

\* release(): delete the row, if it is our own.
Release(p) ==
    /\ holder' = IF holder = p THEN NoRow ELSE holder
    /\ age' = IF holder = p THEN 0 ELSE age

Leave(p) == up' = up \ {p} /\ late' = [late EXCEPT ![p] = 0]

\* Mutant: the loss is logged and the process goes on.
BeatLostIgnored(p) ==
    /\ p \in up /\ late[p] > 0 /\ holder # p
    /\ late' = [late EXCEPT ![p] = 0]
    /\ UNCHANGED <<holder, age, up>>

\* The beat finds another's row: onLost, which ends the process.
BeatLost(p) ==
    /\ p \in up /\ late[p] > 0 /\ holder # p
    /\ Release(p) /\ Leave(p)

\* A shutdown at its end, a configuration that is no good, an uncaught
\* exception or a failed listen: every exit of its own releases the lock.
Quit(p) == p \in up /\ Release(p) /\ Leave(p)

\* SIGKILL, or the release itself fails: the lease expires on its own.
Kill(p) ==
    /\ p \in up
    /\ holder' = IF holder = p THEN Gone ELSE holder
    /\ Leave(p) /\ UNCHANGED age

\* Everything ends, and the last commits may be lost (synchronous = NORMAL):
\* some older row, or none, is what is left.
PowerLoss ==
    /\ up' = {} /\ late' = [p \in Procs |-> 0]
    /\ holder' \in {NoRow, Gone}
    /\ age' \in age..Ttl

LockNext ==
    \/ Elapse \/ PowerLoss
    \/ \E p \in Procs : \/ Acquire(p) \/ Beat(p) \/ BeatLost(p)
                        \/ Quit(p) \/ Kill(p)

LockSpec == LockInit /\ [][LockNext]_lockVars

\* Time passes, a process that is not stalled for good comes to a beat it can
\* write, and somebody (compose.yaml: restart: unless-stopped) starts one.
LockFairness ==
    /\ WF_lockVars(Elapse)
    /\ \A p \in Procs : WF_lockVars(Beat(p) \/ BeatLost(p))
    /\ WF_lockVars(\E p \in Procs : Acquire(p))

FairLockSpec == LockSpec /\ LockFairness

-----------------------------------------------------------------------------
(* Properties.                                                              *)

\* A process whose last written beat is younger than the lease holds it,
\* whatever the others, stalled or killed or just started, do.  So of two
\* processes that run at once one is overdue (single-instance.ts:5-10, 42-44).
PunctualHolds == \A p \in up : late[p] < Ttl => holder = p

\* A process that was overtaken ends.
OvertakenEnds == \A p \in Procs : (p \in up /\ holder # p) ~> (p \notin up)

\* A process that died without a word does not lock the others out: one of
\* those that are started again and again gets to run.
SomebodyServes == []<>(up # {})

\* Nobody ever runs besides the holder.  It holds as long as no process is as
\* late as the lease is long (theorem OneProcessWhileInTime); single-
\* instance.ts:45-47 says that of two missed beats.
OneProcess == \A p, q \in up : p = q
=============================================================================

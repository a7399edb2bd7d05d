------------------------------ MODULE ManualOrder ------------------------------
(***************************************************************************)
(* The tools that move a task in the manual order of its list, a checklist *)
(* item in that of its task, and a task in that of My Day                  *)
(* (src/core/mcp/reorder.ts, src/core/mcp/my-day-order.ts,                 *)
(* src/core/mcp/register-tools.ts:3904-4371).                              *)
(*                                                                         *)
(* An order is a time in milliseconds; later means nearer to the top.  A   *)
(* tool reads the orders of the others, computes one for the mover and     *)
(* writes it.  reorder_task reads the reference in a request of its own;   *)
(* reorder_my_day_task reads the index instead and writes its order        *)
(* through.  Other clients move things between any two of these steps.     *)
(***************************************************************************)
EXTENDS Integers, FiniteSets, FiniteSetsExt

CONSTANTS
    Tasks,    \* tasks of a list, items of a task, or tasks in My Day
    Orders,   \* orders that tasks have before, or that others and "set" give
    Done,     \* completed tasks
    Renamed,  \* tasks whose Substrate id is not the Graph id
    Nudge,    \* ORDER_NUDGE_MS
    Now,      \* Date.now()
    None,     \* null, undefined
    MaxCalls, \* bound: calls of a tool
    MaxFaults \* bound: moves by other clients, scans, failures

VARIABLES
    real,  \* Exchange: OrderDateTime (CommittedOrder) of each task
    cache, \* tasks table: committed_order of each task of the day
    call,  \* the call in progress, or its answer
    used   \* how much of each bound is used up

vars == <<real, cache, call, used>>

Edges     == {"top", "bottom"}
Relative  == {"before", "after"}
Positions ==
    [kind : Edges, ref : {None}, at : {None}]
    \cup [kind : Relative, ref : Tasks \cup {None}, at : {None}]
    \cup [kind : {"index"}, ref : {None}, at : 1..Cardinality(Tasks)]
    \cup [kind : {"set"}, ref : {None}, at : Orders]
NoCall == [pc |-> "idle", tool |-> None, mover |-> None, position |-> None,
           seen |-> None, new |-> None, raced |-> "no"]
Answers == {"ok", "exhausted", "refused", "failed"}

TypeOK ==
    /\ real \in [Tasks -> Int \cup {None}]
    /\ cache \in [Tasks -> Int \cup {None}]
    /\ \/ call = NoCall
       \/ /\ call.pc \in {"reading", "reference", "patching", "noting"} \cup Answers
          /\ call.tool \in {"task", "item", "my_day"}
          /\ call.mover \in Tasks /\ call.position \in Positions
          /\ call.new \in Int \cup {None} /\ call.raced \in {"no", "reference", "yes"}
    /\ used \in [calls : 0..MaxCalls, faults : 0..MaxFaults]

Init ==
    /\ real \in [Tasks -> Orders \cup {None}]
    /\ cache = real
    /\ call = NoCall
    /\ used = [calls |-> 0, faults |-> 0]

AtRest == call.pc \in Answers \cup {"idle"}
Use(b, bound) == used[b] < bound /\ used' = [used EXCEPT ![b] = @ + 1]
Fault == Use("faults", MaxFaults)

-----------------------------------------------------------------------------
(* The arithmetic.                                                          *)

\* Mutant of midpoint: a tie with the lower neighbour is let pass.
midpointLoose(hi, lo) ==
    LET mid == (hi + lo) \div 2 IN IF mid < lo \/ mid >= hi THEN None ELSE mid

\* midpoint(): None is order_precision_exhausted.
midpoint(hi, lo) ==
    LET mid == (hi + lo) \div 2 IN IF mid <= lo \/ mid >= hi THEN None ELSE mid

\* The order of the r-th of the others from the top.
Rank(others, orders, r) ==
    CHOOSE v \in {orders[t] : t \in others} :
        /\ Cardinality({t \in others : orders[t] > v}) < r
        /\ Cardinality({t \in others : orders[t] >= v}) >= r

top(values)    == IF values = {} THEN Now ELSE Max(values) + Nudge
bottom(values) == IF values = {} THEN Now ELSE Min(values) - Nudge

before(values, ref) ==
    LET above == {v \in values : v > ref}
    IN  IF above = {} THEN ref + Nudge ELSE midpoint(Min(above), ref)

after(values, ref) ==
    LET below == {v \in values : v < ref}
    IN  IF below = {} THEN ref - Nudge ELSE midpoint(ref, Max(below))

\* computeReorder()
computeReorder(p, others, orders, refAt) ==
    LET values == {orders[t] : t \in others}
        count  == Cardinality(others)
    IN  CASE p.kind = "top"    -> top(values)
          [] p.kind = "bottom" -> bottom(values)
          [] p.kind = "before" -> before(values, refAt)
          [] p.kind = "after"  -> after(values, refAt)
          [] p.kind = "index"  ->
               IF p.at <= 1 \/ count = 0 THEN top(values)
               ELSE IF p.at > count THEN bottom(values)
               ELSE midpoint(Rank(others, orders, p.at - 1), Rank(others, orders, p.at))
          [] p.kind = "set"    -> p.at

\* The tasks whose orders count: not the mover, not those without an order; in
\* My Day not the completed ones.  A mover with another id in the listing is
\* not recognised there.
Others(tool, mover, orders) ==
    {t \in Tasks : /\ orders[t] # None
                   /\ t = mover => tool = "task" /\ t \in Renamed
                   /\ tool = "my_day" => t \notin Done}

-----------------------------------------------------------------------------
(* The tools.                                                               *)

Begin(tool, mover, position) ==
    /\ AtRest
    /\ Use("calls", MaxCalls)
    /\ call' = [NoCall EXCEPT !.pc = "reading", !.tool = tool, !.mover = mover,
                              !.position = position]
    /\ UNCHANGED <<real, cache>>

\* The answer or the order to write, from what was read of the others and of
\* the reference.
Computed(seen, refAt) ==
    LET new == computeReorder(call.position, Others(call.tool, call.mover, seen),
                              seen, refAt)
    IN  IF call.position.kind \in Relative /\ refAt = None
        THEN [call EXCEPT !.pc = "refused"]
        ELSE IF new = None THEN [call EXCEPT !.pc = "exhausted"]
        ELSE [call EXCEPT !.pc = "patching", !.new = new]

\* reorder_task: listFolderTasks().
ReadTasks ==
    /\ call.pc = "reading" /\ call.tool = "task"
    /\ call' = IF call.position.kind \in Relative
               THEN [call EXCEPT !.pc = "reference", !.seen = real]
               ELSE Computed(real, None)
    /\ UNCHANGED <<real, cache, used>>

\* Where the others and the reference are read at once; a reference that is not
\* there is refused.
ReadOnce(seen) ==
    LET p == call.position
    IN  /\ call' = IF p.kind \notin Relative THEN Computed(seen, None)
                   ELSE IF p.ref = None THEN [call EXCEPT !.pc = "refused"]
                   ELSE Computed(seen, seen[p.ref])
        /\ UNCHANGED <<real, cache, used>>

\* reorder_checklist_item: listSubtasks().
ReadItems == call.pc = "reading" /\ call.tool = "item" /\ ReadOnce(real)

\* reorder_my_day_task: queryMyDayForDate().  Whether the day has the mover is not
\* kept: it is refused or not, unless the position is "set", which reads nothing.
ReadDay ==
    /\ call.pc = "reading" /\ call.tool = "my_day"
    /\ \/ ReadOnce(cache)
       \/ /\ call.position.kind # "set"
          /\ call' = [call EXCEPT !.pc = "refused"]
          /\ UNCHANGED <<real, cache, used>>

\* reorder_task: getTask() of the reference.
ReadReference ==
    /\ call.pc = "reference"
    /\ call' = IF call.position.ref = None THEN [call EXCEPT !.pc = "refused"]
               ELSE Computed(call.seen, real[call.position.ref])
    /\ UNCHANGED <<real, cache, used>>

ReadFails ==
    /\ call.pc \in {"reading", "reference"} /\ Fault
    /\ call' = [call EXCEPT !.pc = "failed"]
    /\ UNCHANGED <<real, cache>>

\* The PATCH.
Patch ==
    /\ call.pc = "patching"
    /\ real' = [real EXCEPT ![call.mover] = call.new]
    /\ call' = [call EXCEPT !.pc = IF call.tool = "my_day" THEN "noting" ELSE "ok"]
    /\ UNCHANGED <<cache, used>>

\* It fails, carried out or not.
PatchFails ==
    /\ call.pc = "patching" /\ Fault
    /\ real' \in {real, [real EXCEPT ![call.mover] = call.new]}
    /\ call' = [call EXCEPT !.pc = "failed"]
    /\ UNCHANGED cache

\* reorder_my_day_task: updateMyDayFields(), which may fail.
Note ==
    /\ call.pc = "noting"
    /\ \/ /\ cache' = [cache EXCEPT ![call.mover] = call.new]
          /\ call' = [call EXCEPT !.pc = "ok"]
          /\ UNCHANGED used
       \/ Fault /\ call' = [call EXCEPT !.pc = "failed"] /\ UNCHANGED cache
    /\ UNCHANGED real

\* Another client moves a task in the middle of a call.  (Between calls it only
\* makes another order to begin with, which Init has.)
Move(t, v) ==
    /\ ~AtRest /\ Fault
    /\ real' = [real EXCEPT ![t] = v]
    /\ call' = IF call.tool \notin {"task", "item"} \/ call.pc = "reading" THEN call
               ELSE IF /\ call.pc = "reference" /\ t = call.position.ref
                       /\ call.raced # "yes"
               THEN [call EXCEPT !.raced = "reference"]
               ELSE [call EXCEPT !.raced = "yes"]
    /\ UNCHANGED cache

\* A My Day scan stores what it read.
Scan ==
    /\ ~AtRest /\ Fault
    /\ cache' = real
    /\ call' = IF call.tool # "my_day" THEN call ELSE [call EXCEPT !.raced = "yes"]
    /\ UNCHANGED real

Next == \/ \E tool \in {"task", "item", "my_day"}, mover \in Tasks,
              position \in Positions : Begin(tool, mover, position)
        \/ ReadTasks \/ ReadItems \/ ReadDay \/ ReadReference \/ ReadFails \/ Patch \/ PatchFails \/ Note
        \/ \E t \in Tasks, v \in Orders : Move(t, v)
        \/ Scan

Spec == Init /\ [][Next]_vars

-----------------------------------------------------------------------------
(* Properties.                                                              *)

\* x is an order that puts the mover where it was asked to be: above or below
\* all others, next to the reference, or with so many others above it.
Fits(x, orders) ==
    LET p      == call.position
        others == Others(call.tool, call.mover, orders) \ {call.mover}
        above  == {t \in others : orders[t] > x}
        same   == {t \in others : orders[t] = x}
    IN  CASE p.kind = "top"    -> above \cup same = {}
          [] p.kind = "bottom" -> above = others
          [] p.kind = "before" ->
               x > orders[p.ref] /\ \A t \in others : ~(orders[p.ref] < orders[t] /\ orders[t] <= x)
          [] p.kind = "after"  ->
               x < orders[p.ref] /\ \A t \in others : ~(x <= orders[t] /\ orders[t] < orders[p.ref])
          [] p.kind = "index"  ->
               /\ same = {}
               /\ Cardinality(above) =
                     IF p.at - 1 < Cardinality(others) THEN p.at - 1 ELSE Cardinality(others)
          [] p.kind = "set"    -> x = p.at

\* The mover ends up where it was asked to be, never level with a neighbour, if
\* nobody else moved anything meanwhile; the reference itself may even move
\* between the two reads of reorder_task.  "order_precision_exhausted" is
\* answered only if no order would do.  A mover whose id differs in the listing
\* is excepted for 'index', as the code says, and for the refusal.
AsAsked ==
    LET orders == IF call.tool = "my_day" THEN cache ELSE real
    IN  call.position # None /\ call.position.ref # call.mover =>
          /\ /\ call.pc = "ok" /\ call.raced # "yes"
             /\ call.position.kind = "index" => call.mover \notin Renamed
             => Fits(orders[call.mover], orders)
          /\ call.pc = "exhausted" /\ call.raced = "no" /\ call.mover \notin Renamed
             => \A x \in (Min(Orders) - Nudge)..(Max(Orders) + Nudge) : ~Fits(x, orders)
=============================================================================

--------------------------- MODULE SubscriptionsProofs ---------------------------
(***************************************************************************)
(* TLAPS proofs about Subscriptions, for every roster, budget and number   *)
(* of faults:                                                              *)
(*   TypeCorrect       the type invariant;                                 *)
(*   OneSubscription   OnePerList, whenever recreate_subscriptions comes.  *)
(* It follows from Table: what is remembered between a request and its     *)
(* answer, or between a comparison and what is done about it, is still     *)
(* true when it is used, but for the subscriptions that were given up.     *)
(***************************************************************************)
EXTENDS Subscriptions, TLAPS

\* An answer that ends a subscription is about one that Graph does not know.
Spent(op) == \/ op.kind = "delete" /\ op.answer # "failed"
             \/ op.kind = "renew" /\ op.answer = "gone"

\* The subscriptions that count: accepted, and not given up.
Kept == (Alive \cap Tracked) \ old

\* A good answer to a renewal is about a record that is still there, unless
\* the subscription is given up or gone since.
OpSound(op) ==
    /\ op.kind = "renew" /\ op.answer = "ok" /\ op.id \in Alive
          => op.id \in Tracked \cup old /\ op.list = subs[op.id]
    /\ Spent(op) => op.id \notin Alive

\* A record names the list that its subscription watches.
RecordsAgree == \A i \in Alive \cap Tracked : records[i] = subs[i]

\* Each request of the cycle belongs to its phase; the webhook only renews.
Phases ==
    /\ cycle.op.kind = "renew" => cycle.pc = "renew"
    /\ cycle.op.kind = "create" => cycle.pc = "creates"
    /\ hook.kind \in {"none", "renew"}

\* What was taken for dead stays dead, what was taken for lacking is lacking,
\* and what is to be renewed is recorded.
DeadAreDead == cycle.pc = "compare" => Dead \cap Alive = {}
LackIsLack  == cycle.pc \in {"deletes", "creates"} =>
                  \A i \in Kept : records[i] \notin cycle.lack
DueTracked  == cycle.pc = "renew" => cycle.todo \cap Alive \subseteq Tracked \cup old

\* A subscription just created is the only one for its list to get a record.
CreateIsNew ==
    cycle.op.kind = "create" /\ cycle.op.answer = "ok" =>
        /\ cycle.op.id \notin Tracked \cup old /\ cycle.op.id # hook.id
        /\ cycle.op.list \notin cycle.lack
        /\ cycle.op.id \in Alive => subs[cycle.op.id] = cycle.op.list
        /\ \A i \in Kept : records[i] # cycle.op.list

Table == /\ OpSound(cycle.op) /\ OpSound(hook) /\ RecordsAgree /\ Phases
         /\ DeadAreDead /\ LackIsLack /\ DueTracked /\ CreateIsNew
         /\ OnePerList

-----------------------------------------------------------------------------
(* What the requests do at Graph, and their answers to the table.           *)

LEMMA UseType ==
    ASSUME TypeOK, NEW b \in DOMAIN Bounds, Use(b) \/ UNCHANGED counts
    PROVE  /\ counts' \in [DOMAIN Bounds -> Nat]
           /\ \A c \in DOMAIN Bounds : counts'[c] <= Bounds[c]
<1>1. \A c \in DOMAIN Bounds : Bounds[c] \in Nat
  BY SubscriptionsAssumption DEF Bounds
<1>2. QED BY <1>1 DEF TypeOK, Use

\* Graph forgets some: nothing else changes.
LEMMA Forgets ==
    ASSUME TypeOK, NEW s \in SUBSET Ids, Forgotten(s)
    PROVE  /\ subs' \in [Ids -> Lists \cup {None}] /\ old' \subseteq Alive'
           /\ Alive' = Alive \ s /\ old' = old \ s
           /\ \A i \in Alive' : subs'[i] = subs[i]
BY DEF Forgotten, Alive, TypeOK

\* A new subscription has an id that nothing remembers.
LEMMA Creates ==
    ASSUME TypeOK, NEW l \in Lists, Created(l)
    PROVE  /\ subs' \in [Ids -> Lists \cup {None}] /\ old' \subseteq Alive'
           /\ NewId \in Unknown /\ Alive' = Alive \cup {NewId} /\ old' = old
           /\ \A i \in Alive : subs'[i] = subs[i]
           /\ subs'[NewId] = l
<1>1. NewId \in Unknown
  BY DEF Created, NewId
<1>2. NewId \in Ids /\ l # None
  BY <1>1, SubscriptionsAssumption DEF Unknown
<1>3. QED BY <1>1, <1>2 DEF Created, Alive, TypeOK, Unknown

LEMMA Drops ==
    ASSUME TypeOK, NEW s \in SUBSET Ids, Drop(s)
    PROVE  /\ records' \in [Ids -> Lists \cup {None}] /\ due' \subseteq Tracked'
           /\ Tracked' = Tracked \ s
           /\ \A i \in Tracked' : records'[i] = records[i]
BY DEF Drop, Tracked, TypeOK

\* What an answer does to the table: it drops a record of no subscription,
\* puts that of a new one, or puts one again, or does nothing.
LEMMA Applies ==
    ASSUME TypeOK, NEW op \in Ops, Apply(op)
    PROVE  /\ records' \in [Ids -> Lists \cup {None}] /\ due' \subseteq Tracked'
           /\ \A i \in Ids : i # op.id => records'[i] = records[i]
           /\ op.kind \in {"create", "renew"} /\ op.answer = "ok"
                => records'[op.id] = op.list
           /\ ~(op.kind \in {"create", "renew"} /\ op.answer = "ok") /\ ~Spent(op)
                => records' = records
           /\ Spent(op) /\ op.id \in Ids => records'[op.id] = None
<1>1. CASE op.kind = "delete" /\ op.answer # "failed"
  <2>1. Drop({op.id}) /\ Spent(op)
    BY <1>1 DEF Apply, Spent
  <2>2. QED BY <1>1, <2>1 DEF Drop, Tracked, TypeOK
<1>2. CASE op.kind = "renew" /\ op.answer = "gone"
  <2>1. Drop({op.id}) /\ Spent(op)
    BY <1>2 DEF Apply, Spent
  <2>2. QED BY <1>2, <2>1 DEF Drop, Tracked, TypeOK
<1>3. CASE op.kind = "create" /\ op.answer = "ok"
  <2>1. records' = [records EXCEPT ![op.id] = op.list] /\ due' = due
    BY <1>3 DEF Apply
  <2>2. op.id \in Ids /\ op.list \in Lists /\ op.list # None
    BY <1>3, SubscriptionsAssumption DEF Ops, NoOp
  <2>3. QED BY <1>3, <2>1, <2>2 DEF Tracked, TypeOK, Spent
<1>4. CASE op.kind = "renew" /\ op.answer = "ok"
  <2>1. records' = [records EXCEPT ![op.id] = op.list] /\ due' = due \ {op.id}
    BY <1>4 DEF Apply, PutRenewed
  <2>2. op.id \in Ids /\ op.list \in Lists \cup {None}
    BY <1>4 DEF Ops, NoOp
  <2>3. QED BY <1>4, <2>1, <2>2 DEF Tracked, TypeOK, Spent
<1>5. CASE ~(op.kind \in {"create", "renew"} /\ op.answer = "ok") /\ ~Spent(op)
  <2>1. UNCHANGED store
    BY <1>5 DEF Apply, Spent
  <2>2. QED BY <1>5, <2>1 DEF store, Tracked, TypeOK
<1>6. QED BY <1>1, <1>2, <1>3, <1>4, <1>5 DEF Spent

-----------------------------------------------------------------------------
(* Type correctness.                                                        *)

LEMMA RequestType ==
    ASSUME NEW i \in Ids, NEW l \in Lists \cup {None}, NEW answer \in Answers
    PROVE  \A kind \in {"delete", "renew"} : Request(kind, i, l, answer) \in Ops
BY DEF Request, Ops

LEMMA NoOpType == NoOp \in Ops /\ Idle \in Cycle
<1>1. NoOp \in Ops
  BY DEF NoOp, Ops
<1>2. 0 \in 0..Budget
  BY SubscriptionsAssumption
<1>3. QED BY <1>1, <1>2 DEF Idle, Cycle

\* What a DELETE, a POST or a PATCH leaves at Graph.
LEMMA AskType ==
    ASSUME TypeOK, NEW answer \in Answers, NEW b \in DOMAIN Bounds,
           \/ \E i \in Ids : AskDelete(i, answer)
           \/ \E i \in Ids : AskRenew(i, answer) /\ (Use(b) \/ UNCHANGED counts)
           \/ \E l \in Lists : AskCreate(l, answer)
    PROVE  /\ subs' \in [Ids -> Lists \cup {None}] /\ old' \subseteq Alive'
           /\ counts' \in [DOMAIN Bounds -> Nat]
           /\ \A c \in DOMAIN Bounds : counts'[c] <= Bounds[c]
<1>1. Use("faults") \/ Use(b) \/ UNCHANGED counts
  BY DEF AskDelete, AskRenew, AskCreate
<1>2. \/ \E s \in SUBSET Ids : Forgotten(s)
      \/ \E l \in Lists : Created(l)
      \/ Unserved
  <2>1. \A i \in Ids : {i} \in SUBSET Ids
    OBVIOUS
  <2>2. QED BY <2>1 DEF AskDelete, AskRenew, AskCreate
<1>3. "faults" \in DOMAIN Bounds
  BY DEF Bounds
<1>4. CASE Unserved
  BY <1>1, <1>3, <1>4, UseType DEF Unserved, TypeOK, Alive
<1>5. QED BY <1>1, <1>2, <1>3, <1>4, Forgets, Creates, UseType

LEMMA CycleType ==
    ASSUME TypeOK, InCycle
    PROVE  TypeOK'
<1> USE NoOpType DEF store, env
<1>1. Alive \subseteq Ids /\ Tracked \subseteq Ids /\ due \subseteq Ids
      /\ Budget \in 0..Budget /\ {} \subseteq Ids /\ {} \subseteq Lists
  BY SubscriptionsAssumption DEF Alive, Tracked, TypeOK
<1>2. CASE Begin
  <2>1. cycle' \in Cycle
    BY <1>1, <1>2 DEF Begin, Cycle, Idle
  <2>2. QED BY <1>2, <2>1 DEF Begin, TypeOK, Alive, Tracked
<1>3. CASE Plan
  <2>1. cycle' \in Cycle
    BY <1>1, <1>3 DEF Plan, Cycle, TypeOK
  <2>2. QED BY <1>3, <2>1 DEF Plan, TypeOK, Alive, Tracked
<1>4. CASE List
  <2>1. cycle' \in Cycle
    BY <1>1, <1>4 DEF List, Cycle, TypeOK
  <2>2. Use("faults") \/ UNCHANGED counts
    BY <1>4 DEF List
  <2>3. "faults" \in DOMAIN Bounds
    BY DEF Bounds
  <2>4. QED BY <1>4, <2>1, <2>2, <2>3, UseType DEF List, TypeOK, Alive, Tracked
<1>5. CASE Compare
  <2>1. Dead \in SUBSET Ids /\ Orphans \in SUBSET Ids
    BY DEF Dead, Orphans, TypeOK, Cycle
  <2>2. cycle' \in Cycle
    BY <1>5, <2>1 DEF Compare, Cycle, TypeOK
  <2>3. QED BY <1>5, <2>1, <2>2, Drops DEF Compare, TypeOK, Alive, Tracked
<1>6. CASE Reread
  <2>1. {i \in Tracked : records[i] \notin cycle.wanted} \subseteq Ids
        /\ cycle.wanted \ {records[i] : i \in Tracked} \subseteq Lists
    BY <1>1 DEF TypeOK, Cycle
  <2>2. cycle' \in Cycle
    BY <1>6, <2>1 DEF Reread, Cycle, TypeOK
  <2>3. QED BY <1>6, <2>2 DEF Reread, TypeOK, Alive, Tracked
<1>7. CASE SendForId
  <2>1. PICK i \in cycle.todo, answer \in Answers :
           /\ IF cycle.pc = "renew"
              THEN /\ AskRenew(i, answer)
                   /\ IF answer = "failed" THEN Use("faults") ELSE UNCHANGED counts
              ELSE AskDelete(i, answer)
           /\ cycle' = [cycle EXCEPT !.todo = @ \ {i}, !.left = @ - 1,
                             !.op = Request(IF cycle.pc = "renew" THEN "renew"
                                            ELSE "delete", i, subs[i], answer)]
    BY <1>7 DEF SendForId
  <2>2. i \in Ids /\ subs[i] \in Lists \cup {None}
    BY <2>1 DEF TypeOK, Cycle
  <2>3. Request(IF cycle.pc = "renew" THEN "renew" ELSE "delete", i, subs[i], answer)
           \in Ops
    BY <2>2, RequestType
  <2>4. cycle.left - 1 \in 0..Budget /\ cycle.todo \ {i} \in SUBSET Ids
    BY <1>7, SubscriptionsAssumption DEF SendForId, Ready, TypeOK, Cycle
  <2>5. cycle' \in Cycle
    BY <2>1, <2>3, <2>4 DEF Cycle, TypeOK
  <2>6. /\ \/ AskRenew(i, answer) /\ (Use("faults") \/ UNCHANGED counts)
           \/ AskDelete(i, answer)
        /\ "faults" \in DOMAIN Bounds
    BY <2>1 DEF Bounds
  <2>7. QED BY <1>7, <2>2, <2>5, <2>6, AskType DEF SendForId, TypeOK, Alive, Tracked
<1>8. CASE SendForList
  <2>1. PICK l \in cycle.lack, answer \in Answers :
           /\ AskCreate(l, answer)
           /\ cycle' = [cycle EXCEPT
                 !.lack = @ \ {l}, !.left = @ - 1,
                 !.op = Request("create", IF answer = "ok" THEN NewId ELSE None,
                                l, answer)]
    BY <1>8 DEF SendForList
  <2>2. l \in Lists
    BY <2>1 DEF TypeOK, Cycle
  <2>3. /\ answer \in {"ok", "failed"} /\ l # None
        /\ answer = "ok" => NewId \in Ids
    BY <2>1, <2>2, Creates, SubscriptionsAssumption DEF AskCreate, Unknown
  <2>4. Request("create", IF answer = "ok" THEN NewId ELSE None, l, answer) \in Ops
    BY <2>2, <2>3 DEF Request, Ops
  <2>5. cycle.left - 1 \in 0..Budget /\ cycle.lack \ {l} \in SUBSET Lists
    BY <1>8, SubscriptionsAssumption DEF SendForList, Ready, TypeOK, Cycle
  <2>6. cycle' \in Cycle
    BY <2>1, <2>4, <2>5 DEF Cycle, TypeOK
  <2>7. "faults" \in DOMAIN Bounds
    BY DEF Bounds
  <2>8. QED
    BY <1>8, <2>1, <2>2, <2>6, <2>7, AskType DEF SendForList, TypeOK, Alive, Tracked
<1>9. CASE Receive
  <2>1. cycle.op \in Ops /\ Apply(cycle.op)
    BY <1>9 DEF Receive, TypeOK, Cycle
  <2>2. records' \in [Ids -> Lists \cup {None}] /\ due' \subseteq Tracked'
    BY <2>1, Applies
  <2>3. cycle' \in Cycle
    BY <1>9 DEF Receive, TypeOK, Cycle
  <2>4. QED BY <1>9, <2>2, <2>3 DEF Receive, TypeOK, Alive, Tracked
<1>10. CASE NextPhase
  <2>1. cycle' \in Cycle
    BY <1>1, <1>10 DEF NextPhase, Following, Cycle, TypeOK, Idle
  <2>2. QED BY <1>10, <2>1 DEF NextPhase, TypeOK, Alive, Tracked
<1>11. QED
  BY <1>2, <1>3, <1>4, <1>5, <1>6, <1>7, <1>8, <1>9, <1>10 DEF InCycle

LEMMA OthersType ==
    ASSUME TypeOK,
           \/ Reauthorized \/ Recreate \/ Reset \/ Restart
           \/ \E i \in Ids : Evict(i) \/ BecomeDue(i) \/ Reauthorize(i) \/ Removed(i)
           \/ \E l \in Lists : WantedChanges(l)
    PROVE  TypeOK'
<1> USE NoOpType DEF store, env
<1>1. {"faults", "world"} = DOMAIN Bounds
  BY DEF Bounds
<1>2. CASE Reauthorized
  <2>1. hook \in Ops /\ Apply(hook)
    BY <1>2 DEF Reauthorized, TypeOK
  <2>2. records' \in [Ids -> Lists \cup {None}] /\ due' \subseteq Tracked'
    BY <2>1, Applies
  <2>3. QED BY <1>2, <2>2 DEF Reauthorized, TypeOK, Alive, Tracked
<1>3. CASE Recreate
  <2>1. PICK cleared \in SUBSET Tracked :
           Drop(cleared) /\ old' = old \cup (cleared \cap Alive)
    BY <1>3 DEF Recreate
  <2>2. cleared \in SUBSET Ids /\ Use("world")
    BY <1>3, <2>1 DEF Recreate, Tracked
  <2>3. QED
    BY <1>1, <1>3, <2>1, <2>2, Drops, UseType DEF Recreate, TypeOK, Alive, Tracked
<1>4. CASE Reset
  <2>1. Forgotten(Ids) /\ Drop(Ids) /\ Use("faults") /\ Ids \in SUBSET Ids
    BY <1>4 DEF Reset
  <2>2. QED
    BY <1>1, <1>4, <2>1, Forgets, Drops, UseType DEF Reset, TypeOK, Alive, Tracked
<1>5. CASE Restart
  <2>1. Use("faults")
    BY <1>5 DEF Restart
  <2>2. QED BY <1>1, <1>5, <2>1, UseType DEF Restart, TypeOK, Alive, Tracked
<1>6. ASSUME NEW i \in Ids, Evict(i) PROVE TypeOK'
  <2>1. Forgotten({i}) /\ Use("faults") /\ {i} \in SUBSET Ids
    BY <1>6 DEF Evict
  <2>2. QED BY <1>1, <1>6, <2>1, Forgets, UseType DEF Evict, TypeOK, Alive, Tracked
<1>7. ASSUME NEW i \in Ids, BecomeDue(i) PROVE TypeOK'
  <2>1. Use("world")
    BY <1>7 DEF BecomeDue
  <2>2. QED BY <1>1, <1>7, <2>1, UseType DEF BecomeDue, TypeOK, Alive, Tracked
<1>8. ASSUME NEW i \in Ids, Reauthorize(i) PROVE TypeOK'
  <2>1. PICK answer \in Answers :
           AskRenew(i, answer) /\ hook' = Request("renew", i, records[i], answer)
    BY <1>8 DEF Reauthorize
  <2>2. records[i] \in Lists \cup {None}
    BY DEF TypeOK
  <2>3. hook' \in Ops
    BY <2>1, <2>2, RequestType
  <2>4. QED BY <1>1, <1>8, <2>1, <2>3, AskType DEF Reauthorize, TypeOK, Alive, Tracked
<1>9. ASSUME NEW i \in Ids, Removed(i) PROVE TypeOK'
  <2>1. Drop({i}) /\ {i} \in SUBSET Ids
    BY <1>9 DEF Removed
  <2>2. QED BY <1>9, <2>1, Drops DEF Removed, TypeOK, Alive, Tracked
<1>10. ASSUME NEW l \in Lists, WantedChanges(l) PROVE TypeOK'
  <2>1. Use("world")
    BY <1>10 DEF WantedChanges
  <2>2. QED BY <1>1, <1>10, <2>1, UseType DEF WantedChanges, TypeOK, Alive, Tracked
<1>11. QED BY <1>2, <1>3, <1>4, <1>5, <1>6, <1>7, <1>8, <1>9, <1>10

LEMMA NextType == TypeOK /\ [Next]_vars => TypeOK'
<1>1. ASSUME TypeOK, UNCHANGED vars PROVE TypeOK'
  BY <1>1 DEF vars, store, env, TypeOK, Alive, Tracked
<1>2. QED BY <1>1, CycleType, OthersType DEF Next

LEMMA InitType == Init => TypeOK
<1>1. \A b \in DOMAIN Bounds : 0 <= Bounds[b]
  BY SubscriptionsAssumption DEF Bounds
<1>2. QED BY <1>1, NoOpType DEF Init, TypeOK

\* Table, requests and bounds keep their types, recreated or not.
THEOREM TypeCorrect == Spec => []TypeOK
BY InitType, NextType, PTL DEF Spec

-----------------------------------------------------------------------------
(* One subscription per list.                                               *)

\* The record of i stays, or i is given up and its record put back.
SameRecord(i) == \/ records'[i] = records[i]
                 \/ i \in old /\ records'[i] = subs[i]

\* A step in which no subscription is created and no record of a living one
\* changes, but as given up, keeps all that does not depend on the cycle's phase.
LEMMA Quiet ==
    ASSUME TypeOK, TypeOK', Table, Alive' \subseteq Alive, old' = old \cap Alive',
           \A i \in Alive' : subs'[i] = subs[i] /\ SameRecord(i)
    PROVE  /\ RecordsAgree' /\ OnePerList' /\ Kept' \subseteq Kept
           /\ \A i \in Kept' : records'[i] = records[i]
           /\ hook' = hook => OpSound(hook)'
           /\ cycle'.op = cycle.op => OpSound(cycle.op)'
           /\ cycle'.op = NoOp => OpSound(cycle.op)'
<1>1. /\ \A i \in Alive' \ old' : /\ i \in Tracked' <=> i \in Tracked
                                  /\ records'[i] = records[i]
      /\ \A i \in Alive' : i \in Tracked \cup old => i \in Tracked' \cup old'
      /\ Alive \subseteq Ids /\ Tracked' \subseteq Ids
  BY DEF Alive, Tracked, SameRecord
<1>2. Kept' \subseteq Kept /\ \A i \in Kept' : records'[i] = records[i]
  BY <1>1 DEF Kept
<1>3. OnePerList'
  BY <1>2 DEF Table, OnePerList, Kept
<1>4. RecordsAgree'
  BY <1>1 DEF Table, RecordsAgree, SameRecord, Tracked
<1>5. hook' = hook => OpSound(hook)'
  BY <1>1 DEF Table, OpSound, Spent
<1>6. cycle'.op = cycle.op => OpSound(cycle.op)'
  BY <1>1 DEF Table, OpSound, Spent
<1>7. cycle'.op = NoOp => OpSound(cycle.op)'
  BY DEF OpSound, Spent, NoOp
<1>8. QED BY <1>2, <1>3, <1>4, <1>5, <1>6, <1>7

\* Such a step outside the cycle and the webhook.
LEMMA QuietOutside ==
    ASSUME TypeOK, TypeOK', Table, UNCHANGED <<cycle, hook>>,
           Alive' \subseteq Alive, old' = old \cap Alive',
           \A i \in Alive' : subs'[i] = subs[i] /\ records'[i] = records[i],
           Tracked' \subseteq Tracked
    PROVE  Table'
<1>1. /\ \A i \in Alive' : i \in Tracked' <=> i \in Tracked
      /\ Alive \subseteq Ids /\ Tracked' \subseteq Ids
      /\ \A i \in Alive' : SameRecord(i)
  BY DEF Alive, Tracked, SameRecord
<1>2. Kept' \subseteq Kept /\ \A i \in Kept' : records'[i] = records[i]
  BY <1>1, Quiet
<1>3. Phases' /\ DeadAreDead' /\ LackIsLack' /\ DueTracked'
  BY <1>1, <1>2 DEF Table, Phases, DeadAreDead, Dead, LackIsLack, DueTracked
<1>4. CreateIsNew'
  BY <1>1, <1>2 DEF Table, CreateIsNew
<1>5. QED BY <1>1, <1>3, <1>4, Quiet DEF Table

\* A phase of the cycle that decides what to do, and changes nothing.
LEMMA DecideTable ==
    ASSUME TypeOK, TypeOK', Table, Begin \/ Plan \/ List \/ Reread \/ NextPhase
    PROVE  Table'
<1> USE DEF Idle, NoOp
<1>1. UNCHANGED <<subs, records, due, hook, old>>
  BY DEF Begin, Plan, List, Reread, NextPhase, store
<1>2. /\ Alive' = Alive /\ Tracked' = Tracked /\ Kept' = Kept
      /\ old' = old \cap Alive' /\ \A i \in Alive : SameRecord(i)
  BY <1>1 DEF Alive, Tracked, Kept, SameRecord, TypeOK
<1>3. /\ cycle \in Cycle /\ due \subseteq Tracked
      /\ \A i \in Kept : records[i] \in {records[j] : j \in Tracked}
  BY DEF TypeOK, Tracked, Kept
<1> DEFINE Moves(pcs, qs) == cycle.pc \in pcs /\ cycle'.pc \in qs
<1>4. CASE /\ Moves({"idle"}, {"config", "closing"}) \/ cycle'.pc = "idle"
           /\ cycle'.op = NoOp
  <2>1. Phases' /\ CreateIsNew' /\ DeadAreDead' /\ DueTracked' /\ LackIsLack'
    BY <1>1, <1>2, <1>4 DEF Table, Phases, CreateIsNew, DeadAreDead, DueTracked, LackIsLack
  <2>2. QED BY <1>1, <1>2, <1>4, <2>1, Quiet DEF Table
<1>5. CASE /\ Moves({"config", "listing", "orphans"}, {"listing", "reread"})
           /\ cycle'.op = cycle.op
  <2>1. Phases' /\ CreateIsNew' /\ DeadAreDead' /\ DueTracked' /\ LackIsLack'
    BY <1>1, <1>2, <1>5 DEF Table, Phases, CreateIsNew, DeadAreDead, DueTracked, LackIsLack
  <2>2. QED BY <1>1, <1>2, <1>5, <2>1, Quiet DEF Table
<1>6. CASE /\ Moves({"listing"}, {"compare"})
           /\ cycle'.op = cycle.op /\ cycle'.alive = Alive
  <2>1. Phases' /\ CreateIsNew' /\ DeadAreDead' /\ DueTracked' /\ LackIsLack'
    BY <1>1, <1>2, <1>6 DEF Table, Phases, CreateIsNew, DeadAreDead, Dead, DueTracked,
                            LackIsLack
  <2>2. QED BY <1>1, <1>2, <1>6, <2>1, Quiet DEF Table
<1>7. CASE /\ Moves({"reread"}, {"deletes"}) /\ cycle'.op = cycle.op
           /\ cycle'.lack = cycle.wanted \ {records[i] : i \in Tracked}
  <2>1. Phases' /\ CreateIsNew' /\ DeadAreDead' /\ DueTracked' /\ LackIsLack'
    BY <1>1, <1>2, <1>3, <1>7 DEF Table, Phases, CreateIsNew, DeadAreDead,
                                  DueTracked, LackIsLack
  <2>2. QED BY <1>1, <1>2, <1>7, <2>1, Quiet DEF Table
<1>8. CASE /\ Moves({"deletes"}, {"creates"})
           /\ cycle'.op = NoOp /\ cycle'.lack = cycle.lack
  <2>1. Phases' /\ CreateIsNew' /\ DeadAreDead' /\ DueTracked' /\ LackIsLack'
    BY <1>1, <1>2, <1>8 DEF Table, Phases, CreateIsNew, DeadAreDead, DueTracked,
                            LackIsLack
  <2>2. QED BY <1>1, <1>2, <1>8, <2>1, Quiet DEF Table
<1>9. CASE cycle'.pc = "renew" /\ cycle'.op = NoOp /\ cycle'.todo = due
  <2>1. Phases' /\ CreateIsNew' /\ DeadAreDead' /\ DueTracked' /\ LackIsLack'
    BY <1>1, <1>2, <1>3, <1>9 DEF Table, Phases, CreateIsNew, DeadAreDead, DueTracked,
                            LackIsLack
  <2>2. QED BY <1>1, <1>2, <1>9, <2>1, Quiet DEF Table
<1>10. CASE Begin
  BY <1>3, <1>4, <1>10 DEF Begin, Cycle
<1>11. CASE Plan
  BY <1>3, <1>5, <1>11 DEF Plan, Cycle
<1>12. CASE List
  BY <1>3, <1>5, <1>6, <1>12 DEF List, Cycle
<1>13. CASE Reread
  BY <1>3, <1>7, <1>13 DEF Reread, Cycle
<1>14. CASE NextPhase
  <2>1. cycle.op = NoOp /\ cycle' = Following
    BY <1>14 DEF NextPhase
  <2>2. CASE cycle.pc = "orphans" /\ cycle.left > 0
    <3>1. cycle' = [cycle EXCEPT !.pc = "reread"]
      BY <2>1, <2>2 DEF Following
    <3>2. QED BY <1>3, <1>5, <2>2, <3>1 DEF Cycle
  <2>3. CASE cycle.pc = "deletes" /\ cycle.left > 0
    <3>1. cycle' = [cycle EXCEPT !.pc = "creates"]
      BY <2>1, <2>3 DEF Following
    <3>2. QED BY <1>3, <1>8, <2>1, <2>3, <3>1 DEF Cycle
  <2>4. CASE cycle.pc \in {"closing", "renew"}
    <3>1. cycle' = Idle
      BY <2>1, <2>4 DEF Following
    <3>2. QED BY <1>4, <3>1
  <2>5. CASE /\ ~(cycle.pc = "orphans" /\ cycle.left > 0)
             /\ ~(cycle.pc = "deletes" /\ cycle.left > 0)
             /\ cycle.pc \notin {"closing", "renew"}
    <3>1. cycle' = [Idle EXCEPT !.pc = "renew", !.todo = due, !.left = Budget]
      BY <2>1, <2>5 DEF Following
    <3>2. QED BY <1>9, <3>1
  <2>6. QED BY <2>2, <2>3, <2>4, <2>5
<1>15. QED BY <1>10, <1>11, <1>12, <1>13, <1>14

LEMMA CompareTable ==
    ASSUME TypeOK, TypeOK', Table, Compare
    PROVE  Table'
<1>1. /\ UNCHANGED <<subs, hook, old>> /\ Drop(Dead) /\ cycle.pc = "compare"
      /\ cycle'.pc = "orphans" /\ cycle'.op = cycle.op
  BY DEF Compare, TypeOK, Cycle
<1>2. Dead \in SUBSET Ids /\ Dead \cap Alive = {}
  BY <1>1 DEF Table, DeadAreDead, Dead, TypeOK, Cycle
<1>3. Alive' = Alive /\ Alive \subseteq Ids /\ old' = old \cap Alive'
  BY <1>1 DEF Alive, TypeOK
<1>4. \A i \in Alive' : subs'[i] = subs[i] /\ SameRecord(i)
  BY <1>1, <1>2, <1>3 DEF Drop, SameRecord
<1>5. Phases' /\ CreateIsNew' /\ DeadAreDead' /\ DueTracked' /\ LackIsLack'
  BY <1>1 DEF Table, Phases, CreateIsNew, DeadAreDead, DueTracked, LackIsLack
<1>6. QED BY <1>1, <1>3, <1>4, <1>5, Quiet DEF Table

LEMMA SendForIdTable ==
    ASSUME TypeOK, TypeOK', Table, SendForId
    PROVE  Table'
<1>1. PICK i \in cycle.todo, answer \in Answers :
         /\ IF cycle.pc = "renew"
            THEN /\ AskRenew(i, answer)
                 /\ IF answer = "failed" THEN Use("faults") ELSE UNCHANGED counts
            ELSE AskDelete(i, answer)
         /\ cycle' = [cycle EXCEPT !.todo = @ \ {i}, !.left = @ - 1,
                           !.op = Request(IF cycle.pc = "renew" THEN "renew"
                                          ELSE "delete", i, subs[i], answer)]
  BY DEF SendForId
<1>2. /\ UNCHANGED <<records, hook>> /\ cycle \in Cycle
      /\ cycle.pc \in {"closing", "orphans", "deletes", "renew"}
  BY DEF SendForId, store, TypeOK
<1>3. i \in Ids /\ {i} \in SUBSET Ids
  BY <1>1, <1>2 DEF Cycle
<1>4. /\ cycle'.pc = cycle.pc /\ cycle'.lack = cycle.lack
      /\ cycle'.todo \subseteq cycle.todo
      /\ cycle'.op.kind = IF cycle.pc = "renew" THEN "renew" ELSE "delete"
      /\ cycle'.op.id = i /\ cycle'.op.list = subs[i] /\ cycle'.op.answer = answer
  BY <1>1, <1>2 DEF Cycle, Request
<1>5. /\ Alive' \subseteq Alive /\ old' = old \cap Alive'
      /\ \A j \in Alive' : subs'[j] = subs[j]
      /\ ~(cycle.pc = "renew") /\ answer # "failed" => i \notin Alive'
      /\ cycle.pc = "renew" => /\ subs' = subs
                               /\ answer = "gone" => i \notin Alive
                               /\ answer = "ok" => i \in Alive
  <2>1. Unserved => subs' = subs /\ old' = old /\ Alive' = Alive
    BY DEF Unserved, Alive
  <2> old \subseteq Alive
    BY DEF TypeOK, Alive
  <2>2. CASE cycle.pc = "renew"
    BY <1>1, <2>1, <2>2 DEF AskRenew, Unserved
  <2>3. CASE cycle.pc # "renew"
    <3>1. /\ Forgotten({i}) \/ Unserved
          /\ answer = "ok" => Forgotten({i})
          /\ answer = "gone" => Unserved /\ i \notin Alive
      BY <1>1, <2>3 DEF AskDelete
    <3>2. answer \in {"ok", "gone", "failed"}
      BY <1>1 DEF Answers
    <3>3. QED BY <1>3, <2>1, <2>3, <3>1, <3>2, Forgets
  <2>4. QED BY <2>2, <2>3
<1>6. /\ Tracked' = Tracked /\ Alive \subseteq Ids
      /\ \A j \in Alive' : SameRecord(j)
  BY <1>2 DEF Tracked, Alive, SameRecord
<1>7. Kept' \subseteq Kept
  BY <1>5, <1>6 DEF Kept
<1>8. OpSound(cycle.op)'
  <2>1. CASE cycle.pc = "renew"
    <3>1. i \in Alive => i \in Tracked \cup old
      BY <1>1, <2>1 DEF Table, DueTracked
    <3>2. old' = old
      BY <1>1, <2>1 DEF AskRenew, Unserved
    <3>3. QED BY <1>4, <1>5, <1>6, <2>1, <3>1, <3>2 DEF OpSound, Spent
  <2>2. CASE cycle.pc # "renew"
    BY <1>4, <1>5, <2>2 DEF OpSound, Spent
  <2>3. QED BY <2>1, <2>2
<1>9. Phases' /\ CreateIsNew' /\ DeadAreDead'
  BY <1>2, <1>4 DEF Table, Phases, CreateIsNew, DeadAreDead
<1>10. DueTracked' /\ LackIsLack'
  BY <1>2, <1>4, <1>5, <1>6, <1>7 DEF Table, DueTracked, LackIsLack
<1>11. QED BY <1>2, <1>5, <1>6, <1>8, <1>9, <1>10, Quiet DEF Table

LEMMA SendForListTable ==
    ASSUME TypeOK, TypeOK', Table, SendForList
    PROVE  Table'
<1>1. PICK l \in cycle.lack, answer \in Answers :
         /\ AskCreate(l, answer)
         /\ cycle' = [cycle EXCEPT
               !.lack = @ \ {l}, !.left = @ - 1,
               !.op = Request("create", IF answer = "ok" THEN NewId ELSE None,
                              l, answer)]
  BY DEF SendForList
<1>2. /\ UNCHANGED <<records, hook>> /\ cycle \in Cycle /\ cycle.pc = "creates"
      /\ Ready
  BY DEF SendForList, store, TypeOK
<1>3. l \in Lists /\ l # None
  BY <1>1, <1>2, SubscriptionsAssumption DEF Cycle
<1>4. /\ cycle'.pc = "creates" /\ cycle'.lack = cycle.lack \ {l}
      /\ cycle'.op.kind = "create" /\ cycle'.op.list = l /\ cycle'.op.answer = answer
      /\ answer = "ok" => cycle'.op.id = NewId
  BY <1>1, <1>2 DEF Cycle, Request
<1>5. Tracked' = Tracked
  BY <1>2 DEF Tracked
<1>6. OpSound(cycle.op)' /\ Phases' /\ DeadAreDead' /\ DueTracked'
  BY <1>2, <1>4 DEF Table, OpSound, Spent, Phases, DeadAreDead, DueTracked
<1>7. CASE Unserved
  <2>1. /\ Alive' = Alive /\ answer # "ok" /\ subs' = subs /\ old' = old
        /\ old = old \cap Alive
    <3>1. subs[NewId] = None \/ ~Created(l)
      BY <1>3, Creates DEF Unknown, Alive
    <3>2. ~Created(l)
      BY <1>3, <1>7, <3>1, Creates DEF Unserved
    <3>3. QED BY <1>1, <1>7, <3>2 DEF AskCreate, Unserved, Alive, TypeOK
  <2>2. LackIsLack' /\ CreateIsNew'
    BY <1>2, <1>4, <1>5, <2>1 DEF Table, LackIsLack, CreateIsNew, Kept
  <2>3. \A i \in Alive : SameRecord(i)
    BY <1>2 DEF SameRecord
  <2>4. QED BY <1>2, <1>6, <2>1, <2>2, <2>3, Quiet DEF Table
<1>8. CASE Created(l)
  <2>1. /\ NewId \in Unknown /\ Alive' = Alive \cup {NewId} /\ old' = old
        /\ \A i \in Alive : subs'[i] = subs[i]
        /\ subs'[NewId] = l
    BY <1>3, <1>8, Creates
  <2>2. /\ NewId \in Ids /\ NewId \notin Alive \cup Tracked
        /\ NewId # cycle.op.id /\ NewId # hook.id
    BY <2>1 DEF Unknown
  <2>3. NewId \notin old
    BY <2>2 DEF TypeOK, Alive
  <2>4. Alive' \cap Tracked' = Alive \cap Tracked /\ Kept' = Kept
    BY <1>5, <2>1, <2>2 DEF Kept
  <2>5. OpSound(hook)'
    BY <1>2, <1>5, <2>1, <2>2 DEF Table, OpSound, Spent
  <2>6. RecordsAgree' /\ OnePerList'
    BY <1>2, <1>5, <2>1, <2>4 DEF Table, RecordsAgree, OnePerList, Kept
  <2>7. \A i \in Kept : records[i] \notin cycle.lack
    BY <1>2 DEF Table, LackIsLack
  <2>8. LackIsLack'
    BY <1>2, <1>4, <2>4, <2>7 DEF LackIsLack
  <2>9. CreateIsNew'
    BY <1>1, <1>2, <1>4, <1>5, <2>1, <2>2, <2>3, <2>4, <2>7 DEF CreateIsNew
  <2>10. QED BY <1>6, <2>5, <2>6, <2>8, <2>9 DEF Table
<1>9. QED BY <1>1, <1>7, <1>8 DEF AskCreate

\* An answer to anything but a creation leaves the records of the living alone.
LEMMA QuietApply ==
    ASSUME TypeOK, Table, NEW op \in Ops, Apply(op), OpSound(op),
           ~(op.kind = "create" /\ op.answer = "ok")
    PROVE  \A i \in Alive : SameRecord(i)
<1> SUFFICES ASSUME NEW i \in Alive, i = op.id PROVE SameRecord(i)
  BY Applies DEF Alive, SameRecord
<1>1. CASE op.kind = "renew" /\ op.answer = "ok"
  <2>1. i \in Tracked \cup old /\ op.list = subs[i]
    BY <1>1 DEF OpSound
  <2>2. records'[i] = subs[i]
    BY <1>1, <2>1, Applies
  <2>3. i \in Tracked => records[i] = subs[i]
    BY DEF Table, RecordsAgree
  <2>4. QED BY <2>1, <2>2, <2>3 DEF SameRecord
<1>2. CASE Spent(op)
  BY <1>2 DEF OpSound
<1>3. CASE ~(op.kind = "renew" /\ op.answer = "ok") /\ ~Spent(op)
  BY <1>3, Applies DEF SameRecord
<1>4. QED BY <1>1, <1>2, <1>3

LEMMA ReceiveTable ==
    ASSUME TypeOK, TypeOK', Table, Receive
    PROVE  Table'
<1>1. /\ UNCHANGED <<subs, hook, old>> /\ Apply(cycle.op)
      /\ cycle' = [cycle EXCEPT !.op = NoOp] /\ cycle \in Cycle
  BY DEF Receive, TypeOK
<1>2. /\ cycle'.op = NoOp /\ cycle'.pc = cycle.pc /\ cycle'.lack = cycle.lack
      /\ cycle'.todo = cycle.todo /\ Dead' = Dead /\ cycle.op \in Ops
  BY <1>1 DEF Cycle, Dead
<1>3. Alive' = Alive /\ Alive \subseteq Ids /\ old' = old \cap Alive'
  BY <1>1 DEF Alive, TypeOK
<1>4. Phases' /\ DeadAreDead' /\ CreateIsNew'
  BY <1>1, <1>2, <1>3 DEF Table, Phases, DeadAreDead, CreateIsNew, NoOp
<1>5. CASE ~(cycle.op.kind = "create" /\ cycle.op.answer = "ok")
  <2>1. \A i \in Alive : SameRecord(i)
    BY <1>1, <1>2, <1>5, QuietApply DEF Table
  <2>2. Kept' \subseteq Kept /\ \A i \in Kept' : records'[i] = records[i]
    BY <1>1, <1>3, <2>1, Quiet
  <2>3. \A i \in Alive : i \in Tracked \cup old => i \in Tracked' \cup old'
    BY <1>1, <1>3, <2>1 DEF Tracked, SameRecord
  <2>4. LackIsLack' /\ DueTracked'
    BY <1>2, <1>3, <2>2, <2>3 DEF Table, LackIsLack, DueTracked
  <2>5. QED BY <1>1, <1>2, <1>3, <1>4, <2>1, <2>4, Quiet DEF Table
<1>6. CASE cycle.op.kind = "create" /\ cycle.op.answer = "ok"
  <2> DEFINE n == cycle.op.id
             l == cycle.op.list
  <2>1. /\ n \in Ids /\ l \in Lists /\ l # None
        /\ records'[n] = l /\ \A i \in Ids : i # n => records'[i] = records[i]
    BY <1>1, <1>2, <1>6, Applies, SubscriptionsAssumption DEF Ops, NoOp
  <2>2. /\ n \notin Tracked \cup old /\ n # hook.id /\ l \notin cycle.lack
        /\ n \in Alive => subs[n] = l
        /\ \A i \in Kept : records[i] # l
    BY <1>6 DEF Table, CreateIsNew
  <2>3. Tracked' = Tracked \cup {n} /\ Kept' \subseteq Kept \cup {n} /\ n \notin Kept
    BY <1>1, <1>3, <2>1, <2>2 DEF Tracked, Kept
  <2>4. RecordsAgree' /\ OnePerList'
    BY <1>1, <1>3, <2>1, <2>2, <2>3 DEF Table, RecordsAgree, OnePerList, Kept
  <2>5. LackIsLack' /\ DueTracked'
    <3>1. \A i \in Kept' : i = n \/ (i \in Kept /\ records'[i] = records[i])
      BY <1>3, <2>1, <2>3 DEF Kept
    <3>2. cycle'.pc = "creates" /\ cycle.pc = "creates"
      BY <1>2, <1>6 DEF Table, Phases
    <3>3. QED BY <1>2, <2>1, <2>2, <3>1, <3>2 DEF Table, LackIsLack, DueTracked
  <2>6. OpSound(hook)' /\ OpSound(cycle.op)'
    BY <1>1, <1>2, <1>3, <2>3 DEF Table, OpSound, Spent, NoOp
  <2>7. QED BY <1>4, <2>4, <2>5, <2>6 DEF Table
<1>7. QED BY <1>5, <1>6

LEMMA HookTable ==
    ASSUME TypeOK, TypeOK', Table, Reauthorized \/ \E i \in Ids : Reauthorize(i)
    PROVE  Table'
<1>1. CASE Reauthorized
  <2>1. /\ UNCHANGED <<subs, cycle, old>> /\ Apply(hook) /\ hook' = NoOp
        /\ hook \in Ops /\ hook.kind # "create"
    BY <1>1 DEF Reauthorized, TypeOK, Table, Phases
  <2>2. Alive' = Alive /\ Alive \subseteq Ids /\ old' = old \cap Alive'
    BY <2>1 DEF Alive, TypeOK
  <2>3. \A i \in Alive : SameRecord(i)
    BY <2>1, QuietApply DEF Table
  <2>4. /\ Kept' \subseteq Kept /\ \A i \in Kept' : records'[i] = records[i]
        /\ \A i \in Alive : i \in Tracked \cup old => i \in Tracked' \cup old'
    <3>1. Kept' \subseteq Kept /\ \A i \in Kept' : records'[i] = records[i]
      BY <2>1, <2>2, <2>3, Quiet
    <3>2. QED BY <2>1, <2>2, <2>3, <3>1 DEF Tracked, SameRecord
  <2>5. Phases' /\ DeadAreDead' /\ LackIsLack' /\ DueTracked' /\ OpSound(hook)'
    BY <2>1, <2>2, <2>4 DEF Table, Phases, DeadAreDead, Dead, LackIsLack,
                            DueTracked, OpSound, Spent, NoOp
  <2>6. CreateIsNew'
    <3> SUFFICES ASSUME cycle.op.kind = "create", cycle.op.answer = "ok"
                 PROVE  CreateIsNew'
      BY <2>1 DEF CreateIsNew
    <3>1. cycle.op.id \in Ids /\ cycle.op.id # None
      BY SubscriptionsAssumption DEF TypeOK, Cycle, Ops, NoOp
    <3>2. records'[cycle.op.id] = records[cycle.op.id]
      BY <2>1, <3>1, Applies DEF Table, CreateIsNew
    <3>3. QED BY <2>1, <2>2, <2>3, <2>4, <3>1, <3>2
            DEF Table, CreateIsNew, Tracked, NoOp
  <2>7. QED BY <2>1, <2>2, <2>3, <2>5, <2>6, Quiet DEF Table
<1>2. ASSUME NEW i \in Ids, Reauthorize(i) PROVE Table'
  <2>1. PICK answer \in Answers :
           AskRenew(i, answer) /\ hook' = Request("renew", i, records[i], answer)
    BY <1>2 DEF Reauthorize
  <2>2. UNCHANGED <<subs, records, cycle, old>> /\ i \in Tracked
    BY <1>2, <2>1 DEF Reauthorize, AskRenew, Unserved, store
  <2>3. /\ Alive' = Alive /\ Tracked' = Tracked /\ Kept' = Kept
        /\ old' = old \cap Alive' /\ \A j \in Alive : SameRecord(j)
    BY <2>2 DEF Alive, Tracked, Kept, SameRecord, TypeOK
  <2>4. OpSound(hook)'
    BY <2>1, <2>2, <2>3 DEF Table, RecordsAgree, OpSound, Spent, Request, AskRenew
  <2>5. Phases' /\ DeadAreDead' /\ LackIsLack' /\ DueTracked' /\ CreateIsNew'
    BY <2>1, <2>2, <2>3 DEF Table, Phases, DeadAreDead, Dead, LackIsLack,
                            DueTracked, CreateIsNew, Request
  <2>6. QED BY <2>2, <2>3, <2>4, <2>5, Quiet DEF Table
<1>3. QED BY <1>1, <1>2

LEMMA OutsideTable ==
    ASSUME TypeOK, TypeOK', Table,
           \/ Reset
           \/ \E i \in Ids : Evict(i) \/ BecomeDue(i) \/ Removed(i)
           \/ \E l \in Lists : WantedChanges(l)
    PROVE  Table'
<1>1. CASE Reset
  <2>1. Alive' = {} /\ old' = old \cap Alive' /\ Tracked' = {}
    BY <1>1, Forgets, Drops DEF Reset, Alive, Tracked
  <2>2. UNCHANGED <<cycle, hook>>
    BY <1>1 DEF Reset
  <2>3. QED BY <2>1, <2>2, QuietOutside
<1>2. ASSUME NEW i \in Ids, Evict(i) PROVE Table'
  <2>1. Forgotten({i}) /\ {i} \in SUBSET Ids /\ UNCHANGED <<records, cycle, hook>>
    BY <1>2 DEF Evict, store
  <2>2. old' = old \cap Alive'
    BY <2>1, Forgets DEF TypeOK, Alive
  <2>3. QED BY <2>1, <2>2, Forgets, QuietOutside DEF Tracked
<1>3. ASSUME NEW i \in Ids, Removed(i) PROVE Table'
  <2>1. /\ Drop({i}) /\ {i} \in SUBSET Ids /\ i \notin Alive
        /\ UNCHANGED <<subs, old, cycle, hook>>
    BY <1>3 DEF Removed
  <2>2. Alive' = Alive /\ old' = old \cap Alive' /\ \A j \in Alive : records'[j] = records[j]
    BY <2>1 DEF Alive, Drop, TypeOK
  <2>3. QED BY <2>1, <2>2, Drops, QuietOutside
<1>4. CASE (\E i \in Ids : BecomeDue(i)) \/ (\E l \in Lists : WantedChanges(l))
  <2>1. UNCHANGED <<subs, records, old, cycle, hook>>
    BY <1>4 DEF BecomeDue, WantedChanges, store
  <2>2. QED BY <2>1, QuietOutside DEF Alive, Tracked, TypeOK
<1>5. QED BY <1>1, <1>2, <1>3, <1>4

\* A restart forgets what was under way.
LEMMA RestartTable ==
    ASSUME TypeOK, TypeOK', Table, Restart
    PROVE  Table'
<1>1. UNCHANGED <<subs, records, old>> /\ cycle' = Idle /\ hook' = NoOp
  BY DEF Restart, store
<1>2. Alive' = Alive /\ Tracked' = Tracked
  BY <1>1 DEF Alive, Tracked
<1>3. /\ OpSound(hook)' /\ OpSound(cycle.op)' /\ Phases' /\ DeadAreDead'
      /\ LackIsLack' /\ DueTracked' /\ CreateIsNew'
  BY <1>1 DEF Idle, NoOp, OpSound, Spent, Phases, DeadAreDead, LackIsLack,
              DueTracked, CreateIsNew
<1>4. old' = old \cap Alive' /\ \A i \in Alive : SameRecord(i)
  BY <1>1, <1>2 DEF TypeOK, Alive, SameRecord
<1>5. QED BY <1>1, <1>2, <1>3, <1>4, Quiet DEF Table

\* What is cleared and alive is given up: it no longer counts.
LEMMA RecreateTable ==
    ASSUME TypeOK, TypeOK', Table, Recreate
    PROVE  Table'
<1>1. UNCHANGED <<subs, cycle, hook>>
  BY DEF Recreate
<1>2. PICK cleared \in SUBSET Tracked :
         Drop(cleared) /\ old' = old \cup (cleared \cap Alive)
  BY DEF Recreate
<1>3. Alive' = Alive /\ cleared \in SUBSET Ids
  BY <1>1 DEF Alive, Tracked
<1>4. /\ Tracked' = Tracked \ cleared
      /\ \A i \in Tracked' : records'[i] = records[i]
  BY <1>2, <1>3, Drops
<1>5. Kept' \subseteq Kept /\ \A i \in Kept' : records'[i] = records[i]
  BY <1>2, <1>3, <1>4 DEF Kept
<1>6. RecordsAgree' /\ OnePerList'
  BY <1>1, <1>3, <1>4, <1>5 DEF Table, RecordsAgree, OnePerList, Kept
<1>7. \A i \in Alive : i \in Tracked \cup old => i \in Tracked' \cup old'
  BY <1>2, <1>4
<1>8. OpSound(hook)' /\ OpSound(cycle.op)'
  BY <1>1, <1>3, <1>7 DEF Table, OpSound, Spent
<1>9. Phases' /\ DeadAreDead' /\ LackIsLack' /\ DueTracked'
  BY <1>1, <1>3, <1>5, <1>7
     DEF Table, Phases, DeadAreDead, Dead, LackIsLack, DueTracked
<1>10. CreateIsNew'
  BY <1>1, <1>2, <1>3, <1>4, <1>5 DEF Table, CreateIsNew
<1>11. QED BY <1>6, <1>8, <1>9, <1>10 DEF Table

LEMMA NextTable == TypeOK /\ Table /\ [Next]_vars => Table'
<1> SUFFICES ASSUME TypeOK, Table, [Next]_vars PROVE Table'
  OBVIOUS
<1>1. TypeOK'
  BY NextType
<1>2. CASE InCycle
  BY <1>1, <1>2, DecideTable, CompareTable, SendForIdTable, SendForListTable,
     ReceiveTable DEF InCycle
<1>3. CASE UNCHANGED vars
  <2>1. UNCHANGED <<subs, records, old, cycle, hook>>
    BY <1>3 DEF vars
  <2>2. QED BY <1>1, <2>1, QuietOutside DEF Alive, Tracked, TypeOK
<1>4. QED
  BY <1>1, <1>2, <1>3, HookTable, OutsideTable, RestartTable, RecreateTable DEF Next

LEMMA InitTable == Init => Table
BY DEF Init, Idle, NoOp, Table, OpSound, Spent, RecordsAgree, Phases, DeadAreDead,
       LackIsLack, DueTracked, CreateIsNew, OnePerList, Kept, Alive, Tracked

\* "One per list" (README.md:121): two subscriptions whose notifications are
\* accepted, and that were not given up, are never for the same list.
THEOREM OneSubscription == Spec => []OnePerList
<1>1. Table => OnePerList
  BY DEF Table
<1>2. QED BY <1>1, InitType, NextType, InitTable, NextTable, PTL DEF Spec
=============================================================================

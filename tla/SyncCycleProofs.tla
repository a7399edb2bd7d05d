---------------------------- MODULE SyncCycleProofs ----------------------------
(* The roster the cycles work through is Graph's, and no list of it is      *)
(* passed over for long, for any number of lists, any sizes and budget, and *)
(* whatever changes, faults and requests there are.                         *)
EXTENDS SyncCycle, FiniteSetTheorems, TLAPS

\* Without a link every row of the roster is one that resync() left behind.
UnlinkedIsGhost == ~linked => roster \subseteq ghosts

RInv == RosterIsGraphs /\ UnlinkedIsGhost

\* The steps that leave the roster, its link and what Graph has to report.
LEMMA RosterUntouched ==
    ASSUME RInv, UNCHANGED <<remote, news, linked, roster, ghosts>>
    PROVE  RInv'
BY DEF RInv, RosterIsGraphs, UnlinkedIsGhost

\* A list created or deleted is news, unless the roster is to be read anew.
LEMMA ChangeKeepsRoster ==
    ASSUME RInv, NEW l \in Lists, ChangeLists(l)
    PROVE  RInv'
<1>1. /\ news' = news \cup {l} /\ UNCHANGED <<linked, roster, ghosts>>
      /\ \A m : m # l => (m \in remote' <=> m \in remote)
  BY DEF ChangeLists, past
<1> QED BY <1>1 DEF RInv, RosterIsGraphs, UnlinkedIsGhost

\* A delta round brings what was news; a baseline brings all there is, and what
\* it does not bring was left behind by resync().
LEMMA SyncKeepsRoster ==
    ASSUME RInv, SyncRoster
    PROVE  RInv'
<1>1. /\ linked' = TRUE /\ news' = {} /\ ghosts' = ghosts \ remote /\ remote' = remote
      /\ RosterApplied
  BY DEF SyncRoster
<1>2. CASE linked
  <2>1. roster' = (roster \cup (news \cap remote)) \ (news \ remote)
    BY <1>1, <1>2 DEF RosterApplied
  <2> QED BY <1>1, <1>2, <2>1 DEF RInv, RosterIsGraphs, UnlinkedIsGhost
<1>3. CASE ~linked
  <2>1. roster' = (roster \cup remote) \ {}
    BY <1>1, <1>3 DEF RosterApplied
  <2> QED BY <1>1, <1>3, <2>1 DEF RInv, RosterIsGraphs, UnlinkedIsGhost
<1> QED BY <1>2, <1>3

LEMMA RInvStep == ASSUME RInv, [Next]_vars PROVE RInv'
<1>1. ASSUME NEW l \in Lists, ChangeLists(l) PROVE RInv'
  BY <1>1, ChangeKeepsRoster
<1>2. CASE SyncRoster
  BY <1>2, SyncKeepsRoster
<1>3. CASE RosterGone
  BY <1>3 DEF RosterGone, RInv, RosterIsGraphs, UnlinkedIsGhost
<1>4. CASE ResyncEverything
  BY <1>4 DEF ResyncEverything, RInv, RosterIsGraphs, UnlinkedIsGhost
<1>5. ASSUME \/ Heartbeat \/ SignIn \/ Refuse \/ Alarm \/ RosterFails \/ Plan \/ EndCycle
             \/ \E l \in Lists : ChangePolicy(l) \/ Notify(l) \/ Resync(l)
             \/ \E l \in Lists : SyncList(l) \/ FailList(l) \/ DelayList(l)
             \/ UNCHANGED vars
      PROVE  RInv'
  <2>1. UNCHANGED <<remote, news, linked, roster, ghosts>>
    BY <1>5 DEF Heartbeat, SignIn, Refuse, Alarm, RosterFails, Plan, EndCycle, ChangePolicy,
                Notify, Resync, SyncList, FailList, DelayList, feed, past, vars
  <2> QED BY <2>1, RosterUntouched
<1> QED BY <1>1, <1>2, <1>3, <1>4, <1>5 DEF Next, InCycle

\* While the roster has a link it lacks no list of Graph and keeps none that is
\* gone, but those Graph has yet to report and those that resync() left behind:
\* the deltas, baselines and purges of runSyncCycle() lose and invent nothing.
THEOREM RosterFollowsGraph == Spec => []RosterIsGraphs
<1>1. Init => RInv
  BY DEF Init, RInv, RosterIsGraphs, UnlinkedIsGhost
<1>2. RInv /\ [Next]_vars => RInv'
  BY RInvStep
<1>3. RInv => RosterIsGraphs
  BY DEF RInv
<1> QED BY <1>1, <1>2, <1>3, PTL DEF Spec
-----------------------------------------------------------------------------
(* Types.                                                                   *)

LEMMA UseKeepsTypes ==
    ASSUME TypeOK, NEW b \in DOMAIN Bounds, Use(b)
    PROVE  /\ counts' \in [DOMAIN Bounds -> Nat]
           /\ \A c \in DOMAIN Bounds : counts'[c] <= Bounds[c]
<1> DEFINE n == counts[b] + 1
<1>1. n \in Nat /\ n <= Bounds[b] /\ counts' = [counts EXCEPT ![b] = n]
  BY CycleAssumption DEF TypeOK, Use, Bounds
<1> HIDE DEF n
<1> QED BY <1>1 DEF TypeOK

LEMMA ForgetKeepsTypes ==
    ASSUME TypeOK, NEW s, Forget(s)
    PROVE  /\ link' \in [Lists -> {"none", "next", "delta"}]
           /\ pages' \in [Lists -> Nat] /\ \A l \in Lists : pages'[l] \in 1..Size[l]
           /\ synced' \subseteq Lists \X Lists
<1>1. \A l \in Lists : Size[l] \in Nat \ {0}
  BY CycleAssumption
<1>2. link' \in [Lists -> {"none", "next", "delta"}]
  BY DEF TypeOK, Forget
<1>3. pages' \in [Lists -> Nat] /\ \A l \in Lists : pages'[l] \in 1..Size[l]
  BY <1>1 DEF TypeOK, Forget
<1> QED BY <1>2, <1>3 DEF TypeOK, Forget

LEMMA FinishedKeepsTypes ==
    ASSUME TypeOK, NEW l \in Lists, Finished(l)
    PROVE  /\ link' \in [Lists -> {"none", "next", "delta"}]
           /\ pages' \in [Lists -> Nat] /\ \A m \in Lists : pages'[m] \in 1..Size[m]
           /\ synced' \subseteq Lists \X Lists
<1>1. PICK n \in Later[l] : pages' = [pages EXCEPT ![l] = n]
  BY DEF Finished
<1>2. n \in Nat /\ n \in 1..Size[l] /\ Size[l] \in Nat
  BY CycleAssumption
<1>3. link' \in [Lists -> {"none", "next", "delta"}]
  BY DEF Finished, TypeOK
<1>4. pages' \in [Lists -> Nat] /\ \A m \in Lists : pages'[m] \in 1..Size[m]
  BY <1>1, <1>2 DEF TypeOK
<1>5. synced' \subseteq Lists \X Lists
  <2> DEFINE kept == {p \in synced : l \notin {p[1], p[2]}}
             done == {m \in Lists : m = l \/ <<m, m>> \in synced}
  <2>1. kept \subseteq Lists \X Lists
    BY DEF TypeOK
  <2>2. \A m \in done : <<m, l>> \in Lists \X Lists
    OBVIOUS
  <2>3. synced' = kept \cup {<<m, l>> : m \in done}
    BY DEF Finished
  <2> QED BY <2>1, <2>2, <2>3
<1> QED BY <1>3, <1>4, <1>5

\* What a list costs leaves a shorter plan and no debt.
LEMMA SpentKeepsTypes ==
    ASSUME TypeOK, cycle.todo # <<>>, NEW l, NEW n \in 0..cycle.left, NEW busy \in BOOLEAN,
           Spent(l, n, busy)
    PROVE  cycle' \in Cycles
<1> DEFINE rest == Tail(cycle.todo)
           left == cycle.left - n
           some == cycle.busy \/ busy
<1>1. rest \in Seq(Lists) /\ left \in 0..Budget /\ some \in BOOLEAN
  BY CycleAssumption DEF TypeOK, Cycles
<1>2. cycle' = [cycle EXCEPT !.todo = rest, !.left = left, !.busy = some]
  BY DEF Spent
<1> HIDE DEF rest, left, some
<1> QED BY <1>1, <1>2 DEF TypeOK, Cycles

LEMMA OnePageLeft ==
    ASSUME TypeOK, NEW l, Turn(l)
    PROVE  1 \in 0..cycle.left /\ cycle.todo # <<>>
<1>1. cycle.left \in 0..Budget /\ Budget \in Nat
  BY CycleAssumption DEF TypeOK, Cycles
<1> QED BY <1>1 DEF Turn

\* A plan is a sequence of lists, each of them once.
LEMMA PlanIsSequence ==
    ASSUME NEW s \in SUBSET Lists, NEW todo \in SetToSeqs(s)
    PROVE  /\ todo \in Seq(Lists)
           /\ \A i \in DOMAIN todo : todo[i] \in s
           /\ \A i, j \in DOMAIN todo : i # j => todo[i] # todo[j]
<1> DEFINE n == Cardinality(s)
<1>1. n \in Nat
  BY CycleAssumption, FS_Subset, FS_CardinalityType
<1>2. todo \in [1..n -> s] /\ \A i, j \in 1..n : i # j => todo[i] # todo[j]
  BY DEF SetToSeqs
<1> HIDE DEF n
<1> QED BY <1>1, <1>2

LEMMA TypeStep == ASSUME TypeOK, [Next]_vars PROVE TypeOK'
<1> USE DEF lists, feed, ask, past, Cycles
<1>1. CASE Heartbeat \/ SignIn
  BY <1>1 DEF Heartbeat, SignIn, EnsureSyncing, TypeOK
<1>2. CASE Refuse
  <2>1. Use("requests") /\ "requests" \in DOMAIN Bounds
    BY <1>2 DEF Refuse, Bounds
  <2> QED BY <1>2, <2>1, UseKeepsTypes DEF Refuse, TypeOK
<1>3. CASE Alarm
  <2>1. cycle' \in {Idle, [pc |-> "roster", todo |-> <<>>, left |-> Budget, busy |-> FALSE]}
    BY <1>3 DEF Alarm, Idle
  <2>2. cycle' \in Cycles
    <3>1. Idle \in Cycles
      BY CycleAssumption DEF Idle, Cycles
    <3>2. [pc |-> "roster", todo |-> <<>>, left |-> Budget, busy |-> FALSE] \in Cycles
      BY CycleAssumption DEF Cycles
    <3> QED BY <2>1, <3>1, <3>2
  <2> QED BY <1>3, <2>2 DEF Alarm, TypeOK
<1>4. ASSUME NEW l \in Lists, ChangeLists(l) PROVE TypeOK'
  <2>1. Use("changes") /\ "changes" \in DOMAIN Bounds
    BY <1>4 DEF ChangeLists, Bounds
  <2> QED BY <1>4, <2>1, UseKeepsTypes DEF ChangeLists, TypeOK
<1>5. ASSUME NEW l \in Lists, ChangePolicy(l) PROVE TypeOK'
  <2>1. Use("requests") /\ "requests" \in DOMAIN Bounds
    BY <1>5 DEF ChangePolicy, Bounds
  <2> QED BY <1>5, <2>1, UseKeepsTypes DEF ChangePolicy, EnsureSyncing, TypeOK
<1>6. ASSUME NEW l \in Lists, Notify(l) PROVE TypeOK'
  BY <1>6 DEF Notify, TypeOK
<1>7. ASSUME NEW l \in Lists, Resync(l) PROVE TypeOK'
  <2>1. Use("requests") /\ "requests" \in DOMAIN Bounds /\ Forget({l})
    BY <1>7 DEF Resync, Bounds
  <2> QED BY <1>7, <2>1, UseKeepsTypes, ForgetKeepsTypes DEF Resync, TypeOK
<1>8. CASE ResyncEverything
  <2>1. Use("requests") /\ "requests" \in DOMAIN Bounds /\ Forget(Lists)
    BY <1>8 DEF ResyncEverything, Bounds
  <2> QED BY <1>8, <2>1, UseKeepsTypes, ForgetKeepsTypes DEF ResyncEverything, TypeOK
<1>9. CASE SyncRoster
  <2>1. PICK removed \in SUBSET Lists : Forget(removed)
    BY <1>9 DEF SyncRoster, RosterApplied, TypeOK
  <2>2. roster' \subseteq Lists
    BY <1>9 DEF SyncRoster, RosterApplied, TypeOK
  <2> QED BY <1>9, <2>1, <2>2, ForgetKeepsTypes DEF SyncRoster, TypeOK
<1>10. CASE RosterGone
  <2>1. Use("faults") /\ "faults" \in DOMAIN Bounds /\ Forget(Lists)
    BY <1>10 DEF RosterGone, Bounds
  <2> QED BY <1>10, <2>1, UseKeepsTypes, ForgetKeepsTypes DEF RosterGone, TypeOK
<1>11. CASE RosterFails
  <2>1. /\ counts' \in [DOMAIN Bounds -> Nat]
        /\ \A c \in DOMAIN Bounds : counts'[c] <= Bounds[c]
    <3>1. "faults" \in DOMAIN Bounds
      BY DEF Bounds
    <3> QED BY <1>11, <3>1, UseKeepsTypes DEF RosterFails, TypeOK
  <2> QED BY <1>11, <2>1 DEF RosterFails, TypeOK
<1>12. CASE Plan
  <2>1. PICK todo \in SetToSeqs(roster \ skipped) :
                cycle' = [cycle EXCEPT !.pc = "lists", !.todo = todo]
    BY <1>12 DEF Plan
  <2>2. todo \in Seq(Lists)
    BY PlanIsSequence DEF TypeOK
  <2>3. cycle' \in Cycles
    BY <2>1, <2>2 DEF TypeOK
  <2> QED BY <1>12, <2>3, ForgetKeepsTypes DEF Plan, TypeOK
<1>13. CASE EndCycle
  <2>1. waited' \in [Lists -> 0..MaxWait]
    BY <1>13, CycleAssumption DEF EndCycle, TypeOK
  <2>2. Idle \in Cycles
    BY CycleAssumption DEF Idle
  <2> QED BY <1>13, <2>1, <2>2 DEF EndCycle, TypeOK
<1>14. ASSUME NEW l \in Lists, SyncList(l) PROVE TypeOK'
  <2>1. CASE pages[l] <= cycle.left
    <3>1. Spent(l, pages[l], FALSE) /\ Finished(l)
      BY <1>14, <2>1 DEF SyncList
    <3>2. pages[l] \in 0..cycle.left /\ cycle.todo # <<>>
      BY <1>14, <2>1 DEF SyncList, Turn, TypeOK
    <3>3. cycle' \in Cycles
      BY <3>1, <3>2, SpentKeepsTypes
    <3> QED BY <1>14, <3>1, <3>3, FinishedKeepsTypes DEF SyncList, TypeOK
  <2>2. CASE ~(pages[l] <= cycle.left)
    <3>1. Spent(l, cycle.left, TRUE)
      BY <1>14, <2>2 DEF SyncList
    <3>2. cycle.left \in 0..cycle.left /\ cycle.todo # <<>>
      BY <1>14, CycleAssumption DEF SyncList, Turn, TypeOK
    <3>3. cycle' \in Cycles
      BY <3>1, <3>2, SpentKeepsTypes
    <3> DEFINE n == pages[l] - cycle.left
    <3>4. pages[l] \in 1..Size[l] /\ Size[l] \in Nat /\ cycle.left \in Nat
      BY CycleAssumption DEF TypeOK
    <3>5. n \in Nat /\ n \in 1..Size[l] /\ pages' = [pages EXCEPT ![l] = n]
      BY <1>14, <2>2, <3>4 DEF SyncList
    <3> HIDE DEF n
    <3>6. pages' \in [Lists -> Nat] /\ \A m \in Lists : pages'[m] \in 1..Size[m]
      BY <3>5 DEF TypeOK
    <3>7. link' \in [Lists -> {"none", "next", "delta"}]
      BY <1>14, <2>2 DEF SyncList, TypeOK
    <3> QED BY <1>14, <2>2, <3>3, <3>6, <3>7 DEF SyncList, TypeOK
  <2> QED BY <2>1, <2>2
<1>15. ASSUME NEW l \in Lists, FailList(l) PROVE TypeOK'
  <2>1. Spent(l, 1, FALSE) /\ 1 \in 0..cycle.left /\ cycle.todo # <<>>
    BY <1>15, OnePageLeft DEF FailList
  <2>2. cycle' \in Cycles
    BY <2>1, SpentKeepsTypes
  <2> QED BY <1>15, <2>2 DEF FailList, TypeOK
<1>16. ASSUME NEW l \in Lists, DelayList(l) PROVE TypeOK'
  <2>1. Use("faults") /\ "faults" \in DOMAIN Bounds
    BY <1>16 DEF DelayList, Bounds
  <2>2. cycle' \in Cycles
    <3>1. Spent(l, 1, TRUE) /\ 1 \in 0..cycle.left /\ cycle.todo # <<>>
      BY <1>16, OnePageLeft DEF DelayList
    <3> QED BY <3>1, SpentKeepsTypes
  <2>3. Size[l] \in Nat \ {0}
    BY CycleAssumption
  <2>4. link' \in [Lists -> {"none", "next", "delta"}] /\ synced' = synced
    BY <1>16 DEF DelayList, TypeOK
  <2>5. pages' \in [Lists -> Nat] /\ \A m \in Lists : pages'[m] \in 1..Size[m]
    <3>1. CASE pages' = pages
      BY <3>1 DEF TypeOK
    <3>2. CASE pages' = [pages EXCEPT ![l] = Size[l]]
      BY <3>2, <2>3 DEF TypeOK
    <3> QED BY <1>16, <3>1, <3>2 DEF DelayList
  <2> QED BY <1>16, <2>1, <2>2, <2>4, <2>5, UseKeepsTypes DEF DelayList, TypeOK
<1>17. CASE UNCHANGED vars
  BY <1>17 DEF vars, TypeOK
<1> QED BY <1>1, <1>2, <1>3, <1>4, <1>5, <1>6, <1>7, <1>8, <1>9, <1>10, <1>11, <1>12, <1>13,
           <1>14, <1>15, <1>16, <1>17 DEF Next, InCycle

LEMMA TypeInit == Init => TypeOK
<1> SUFFICES ASSUME Init PROVE TypeOK
  OBVIOUS
<1>1. pages \in [Lists -> Nat] /\ \A l \in Lists : pages[l] \in 1..Size[l]
  BY CycleAssumption DEF Init
<1>2. cycle \in Cycles
  BY CycleAssumption DEF Init, Idle, Cycles
<1>3. counts \in [DOMAIN Bounds -> Nat] /\ \A b \in DOMAIN Bounds : counts[b] <= Bounds[b]
  BY CycleAssumption DEF Init, Bounds
<1>4. waited \in [Lists -> 0..MaxWait]
  BY CycleAssumption DEF Init
<1> QED BY <1>1, <1>2, <1>3, <1>4 DEF Init, TypeOK

\* Every variable of the loop keeps its type, the budget is never overspent and
\* no list's round needs more pages than its baseline, whatever happens.
THEOREM TypeCorrect == Spec => []TypeOK
BY TypeInit, TypeStep, PTL DEF Spec

-----------------------------------------------------------------------------
(* How long a list is passed over.  Every page that a cycle spends before    *)
(* its turn is paid for once: by a page of a list that is ahead of it, by    *)
(* the one try of a list that cannot be fetched, or by a broken list.        *)

Events == counts.faults + counts.requests + counts.changes
All    == Cardinality(Baselines)
Each   == Budget - Cardinality(Broken)

\* The lists that come before the first l in s.
AheadIn(s, l) == {s[i] : i \in {k \in DOMAIN s : \A j \in 1..k : s[j] # l}}
Ahead(l) == AheadIn(cycle.todo, l)

\* The lists that have pages to fetch before l: those ahead of it in this cycle,
\* and those that do not come after it in the next.
Owed(l) == {m \in remote \ (Broken \cup {l}) :
               m \in Ahead(l) \/ (m \notin skipped /\ ~Before(l, m))}
DebtOf(s) == UNION {{m} \X (1..pages[m]) : m \in s}
Debt(l)   == DebtOf(Owed(l))

\* The lists that may take a page before l in this cycle without being fetched,
\* because they are gone or Microsoft waits for a sign-in.
Lost(s) == {m \in s \ Broken : reauth \/ m \notin remote}
Failing(l) == CASE cycle.pc = "idle"   -> {}
                [] cycle.pc = "roster" -> IF reauth THEN Lists \ {l} ELSE {}
                [] cycle.pc = "plan"   -> Lost(roster \ {l})
                [] OTHER               -> Lost(Ahead(l))

\* What this cycle has spent, less a page for each broken list not ahead of l.
Paid(l) == IF cycle.pc = "lists" THEN Budget - cycle.left - Cardinality(Broken \ Ahead(l))
           ELSE 0

Account(l) == waited[l] * Each + Paid(l) + Cardinality(Debt(l)) + Cardinality(Failing(l))

\* The lists whose turn may still come in this cycle.
Counted(l) == /\ cycle.pc = "plan" => l \in roster
              /\ cycle.pc = "lists" => Contains(cycle.todo, l)

CycleShape ==
    /\ cycle.pc # "lists" => cycle.todo = <<>>
    /\ cycle.pc \in {"roster", "plan"} => cycle.left = Budget
    /\ \A i, j \in DOMAIN cycle.todo : i # j => cycle.todo[i] # cycle.todo[j]

Bounded == \A l \in Lists : waited[l] * Each < (1 + Events) * All
Covered == \A l \in Lists : Counted(l) => Account(l) < (1 + Events) * All

\* There are finitely many pages in all baselines.
LEMMA BaselinesFinite == IsFiniteSet(Baselines) /\ All \in Nat
<1> DEFINE of == [l \in Lists |-> {l} \X (1..Size[l])]
           images == {{l} \X (1..Size[l]) : l \in Lists}
<1>1. \A l \in Lists : IsFiniteSet({l} \X (1..Size[l]))
  <2> TAKE l \in Lists
  <2>1. Size[l] \in Int /\ 1 \in Int
    BY CycleAssumption
  <2>2. IsFiniteSet(1..Size[l])
    BY <2>1, FS_Interval
  <2>3. IsFiniteSet({l})
    BY FS_Singleton
  <2> QED BY <2>2, <2>3, FS_Product
<1>2. of \in Surjection(Lists, images)
  BY DEF Surjection
<1>3. IsFiniteSet(images)
  BY <1>2, CycleAssumption, FS_Surjection
<1>4. \A t \in images : IsFiniteSet(t)
  BY <1>1
<1>5. IsFiniteSet(UNION images)
  BY <1>3, <1>4, FS_UNION
<1> QED BY <1>5, FS_CardinalityType DEF Baselines, All

\* The first page of each baseline is a page of it.
LEMMA FirstPages == \A l \in Lists : <<l, 1>> \in Baselines
<1> TAKE l \in Lists
<1>1. 1 \in 1..Size[l]
  BY CycleAssumption
<1> QED BY <1>1 DEF Baselines

LEMMA AllPositive == ASSUME NEW l \in Lists PROVE All >= 1
<1>1. IsFiniteSet(Baselines) /\ Baselines # {}
  BY FirstPages, BaselinesFinite
<1>2. All # 0
  BY <1>1, FS_EmptySet DEF All
<1> QED BY <1>2, BaselinesFinite

\* All pages but the first of l.
LEMMA AllButOne ==
    ASSUME NEW l \in Lists, NEW s \in SUBSET (Baselines \ {<<l, 1>>})
    PROVE  IsFiniteSet(s) /\ Cardinality(s) \in Nat /\ Cardinality(s) <= All - 1
<1>1. /\ IsFiniteSet(Baselines \ {<<l, 1>>})
      /\ Cardinality(Baselines \ {<<l, 1>>}) = All - 1
  BY BaselinesFinite, FirstPages, FS_RemoveElement DEF All
<1>2. IsFiniteSet(s) /\ Cardinality(s) <= All - 1
  BY <1>1, FS_Subset
<1> QED BY <1>2, FS_CardinalityType

\* There are fewer other lists than pages.
LEMMA OtherLists ==
    ASSUME NEW l \in Lists, NEW s \in SUBSET (Lists \ {l})
    PROVE  IsFiniteSet(s) /\ Cardinality(s) \in Nat /\ Cardinality(s) <= All - 1
<1> DEFINE first == [m \in s |-> <<m, 1>>]
           pairs == Baselines \ {<<l, 1>>}
<1>1. IsFiniteSet(pairs) /\ Cardinality(pairs) <= All - 1 /\ Cardinality(pairs) \in Nat
  BY AllButOne
<1>2. first \in Injection(s, pairs)
  <2>1. \A m \in s : <<m, 1>> \in pairs
    BY FirstPages
  <2>2. \A m, n \in s : first[m] = first[n] => m = n
    OBVIOUS
  <2>3. first \in [s -> pairs]
    BY <2>1
  <2> QED BY <2>2, <2>3 DEF Injection, IsInjective
<1>3. IsFiniteSet(s) /\ Cardinality(s) <= Cardinality(pairs)
  BY <1>1, <1>2, FS_Injection
<1>4. Cardinality(s) \in Nat
  BY <1>3, FS_CardinalityType
<1> QED BY <1>1, <1>3, <1>4, BaselinesFinite

\* What is owed to other lists is part of all baselines, the first page of l not.
LEMMA DebtPages ==
    ASSUME TypeOK, NEW l \in Lists, NEW s \in SUBSET (Lists \ {l})
    PROVE  /\ DebtOf(s) \subseteq Baselines \ {<<l, 1>>}
           /\ IsFiniteSet(DebtOf(s)) /\ Cardinality(DebtOf(s)) \in Nat
           /\ Cardinality(DebtOf(s)) <= All - 1
<1>1. \A m \in s : pages[m] \in 1..Size[m] /\ Size[m] \in Nat
  BY CycleAssumption DEF TypeOK
<1>2. \A m \in s : {m} \X (1..pages[m]) \subseteq {m} \X (1..Size[m])
  BY <1>1
<1>3. DebtOf(s) \subseteq Baselines \ {<<l, 1>>}
  BY <1>2 DEF DebtOf, Baselines
<1> QED BY <1>3, AllButOne

\* The lists before l in the rest of a plan.
LEMMA AheadOfTail ==
    ASSUME NEW s \in Seq(Lists), s # <<>>,
           \A i, j \in DOMAIN s : i # j => s[i] # s[j],
           NEW l, l # Head(s)
    PROVE  /\ AheadIn(Tail(s), l) = AheadIn(s, l) \ {Head(s)}
           /\ Head(s) \in AheadIn(s, l)
<1>1. /\ Len(s) \in Nat /\ Len(s) >= 1 /\ DOMAIN s = 1..Len(s) /\ Head(s) = s[1]
      /\ DOMAIN Tail(s) = 1..(Len(s) - 1)
      /\ \A i \in 1..(Len(s) - 1) : Tail(s)[i] = s[i + 1]
  OBVIOUS
<1>2. Head(s) \in AheadIn(s, l)
  BY <1>1 DEF AheadIn
<1>3. ASSUME NEW m \in AheadIn(Tail(s), l) PROVE m \in AheadIn(s, l) \ {Head(s)}
  <2>1. PICK i \in 1..(Len(s) - 1) : m = Tail(s)[i] /\ \A j \in 1..i : Tail(s)[j] # l
    BY <1>1, <1>3 DEF AheadIn
  <2>2. m = s[i + 1] /\ i + 1 \in DOMAIN s /\ i + 1 # 1
    BY <1>1, <2>1
  <2>3. ASSUME NEW j \in 1..(i + 1) PROVE s[j] # l
    <3>1. CASE j = 1
      BY <1>1, <3>1
    <3>2. CASE j # 1
      <4>1. j - 1 \in 1..i /\ j - 1 \in 1..(Len(s) - 1) /\ (j - 1) + 1 = j
        BY <1>1, <3>2
      <4> QED BY <1>1, <2>1, <4>1
    <3> QED BY <3>1, <3>2
  <2>4. m # Head(s)
    BY <1>1, <2>2
  <2> QED BY <2>2, <2>3, <2>4 DEF AheadIn
<1>4. ASSUME NEW m \in AheadIn(s, l) \ {Head(s)} PROVE m \in AheadIn(Tail(s), l)
  <2>1. PICK i \in 1..Len(s) : m = s[i] /\ \A j \in 1..i : s[j] # l
    BY <1>1, <1>4 DEF AheadIn
  <2>2. i # 1 /\ i - 1 \in 1..(Len(s) - 1) /\ m = Tail(s)[i - 1]
    BY <1>1, <2>1, <1>4
  <2>3. ASSUME NEW j \in 1..(i - 1) PROVE Tail(s)[j] # l
    <3>1. j + 1 \in 1..i /\ j \in 1..(Len(s) - 1)
      BY <1>1, <2>1
    <3> QED BY <1>1, <2>1, <3>1
  <2> QED BY <1>1, <2>2, <2>3 DEF AheadIn
<1> QED BY <1>2, <1>3, <1>4

\* The plan lists nothing twice, and only while the cycle works through it.
LEMMA ShapeStep == ASSUME TypeOK, CycleShape, [Next]_vars PROVE CycleShape'
<1> USE DEF CycleShape
<1>1. CASE cycle' = cycle
  BY <1>1
<1>2. CASE Alarm \/ EndCycle
  <2>1. cycle' \in {Idle, [pc |-> "roster", todo |-> <<>>, left |-> Budget, busy |-> FALSE]}
    BY <1>2 DEF Alarm, EndCycle, Idle
  <2> QED BY <2>1 DEF Idle
<1>3. CASE SyncRoster \/ RosterGone \/ RosterFails
  <2>1. cycle.pc = "roster" /\ cycle'.pc = "plan" /\ cycle'.todo = cycle.todo
        /\ cycle'.left = cycle.left
    BY <1>3 DEF SyncRoster, RosterGone, RosterFails, TypeOK, Cycles
  <2> QED BY <2>1
<1>4. CASE Plan
  <2>1. PICK todo \in SetToSeqs(roster \ skipped) :
                cycle' = [cycle EXCEPT !.pc = "lists", !.todo = todo]
    BY <1>4 DEF Plan
  <2>2. \A i, j \in DOMAIN todo : i # j => todo[i] # todo[j]
    BY PlanIsSequence DEF TypeOK
  <2> QED BY <2>1, <2>2 DEF TypeOK, Cycles
<1>5. ASSUME NEW l \in Lists, SyncList(l) \/ FailList(l) \/ DelayList(l) PROVE CycleShape'
  <2>1. cycle.pc = "lists" /\ cycle.todo # <<>>
    BY <1>5 DEF SyncList, FailList, DelayList, Turn
  <2>2. cycle'.pc = "lists" /\ cycle'.todo = Tail(cycle.todo)
    BY <1>5, <2>1 DEF SyncList, FailList, DelayList, Spent, TypeOK, Cycles
  <2>3. cycle.todo \in Seq(Lists)
    BY DEF TypeOK, Cycles
  <2> DEFINE s == cycle.todo
  <2>4. \A i, j \in DOMAIN Tail(s) : i # j => Tail(s)[i] # Tail(s)[j]
    <3> HIDE DEF s
    <3>1. s \in Seq(Lists) /\ s # <<>> /\ \A i, j \in DOMAIN s : i # j => s[i] # s[j]
      BY <2>1, <2>3 DEF s
    <3>2. /\ Len(s) \in Nat /\ DOMAIN s = 1..Len(s) /\ DOMAIN Tail(s) = 1..(Len(s) - 1)
          /\ \A i \in 1..(Len(s) - 1) : Tail(s)[i] = s[i + 1]
      BY <3>1
    <3>3. \A i \in 1..(Len(s) - 1) : i + 1 \in 1..Len(s)
      BY <3>2
    <3>4. \A i, j \in 1..(Len(s) - 1) : i # j => i + 1 # j + 1
      BY <3>2
    <3> QED BY <3>1, <3>2, <3>3, <3>4
  <2> QED BY <2>2, <2>4
<1>6. ASSUME \/ Heartbeat \/ SignIn \/ Refuse \/ ResyncEverything \/ UNCHANGED vars
             \/ \E l \in Lists : ChangeLists(l) \/ ChangePolicy(l) \/ Notify(l) \/ Resync(l)
      PROVE  cycle' = cycle
  BY <1>6 DEF Heartbeat, SignIn, Refuse, ResyncEverything, ChangeLists, ChangePolicy, Notify,
              Resync, vars
<1> QED BY <1>1, <1>2, <1>3, <1>4, <1>5, <1>6 DEF Next, InCycle

LEMMA ShapeInit == Init => CycleShape
BY DEF Init, Idle, CycleShape

-----------------------------------------------------------------------------
(* The parts of the account.                                                *)

LEMMA EachType == Each \in Int
<1>1. Cardinality(Broken) \in Nat
  BY CycleAssumption, FS_Subset, FS_CardinalityType
<1> QED BY <1>1, CycleAssumption DEF Each

LEMMA EventsType == TypeOK => Events \in Nat
BY DEF TypeOK, Bounds, Events

\* Only other lists are ahead of l, are owed pages or fail before it.
LEMMA OtherThan ==
    ASSUME TypeOK, NEW l \in Lists
    PROVE  /\ Ahead(l) \subseteq Lists \ {l}
           /\ Owed(l) \subseteq Lists \ {l}
           /\ Failing(l) \subseteq Lists \ {l}
<1>1. Ahead(l) \subseteq Lists \ {l}
  <2>1. cycle.todo \in Seq(Lists)
    BY DEF TypeOK, Cycles
  <2>2. ASSUME NEW i \in DOMAIN cycle.todo, \A j \in 1..i : cycle.todo[j] # l
        PROVE  cycle.todo[i] \in Lists \ {l}
    <3>1. i \in 1..i /\ cycle.todo[i] \in Lists
      BY <2>1
    <3> QED BY <2>2, <3>1
  <2> QED BY <2>2 DEF Ahead, AheadIn
<1>2. Owed(l) \subseteq Lists \ {l}
  BY DEF Owed, TypeOK
<1>3. Failing(l) \subseteq Lists \ {l}
  BY <1>1 DEF Failing, Lost, TypeOK, Cycles
<1> QED BY <1>1, <1>2, <1>3

LEMMA PartTypes ==
    ASSUME TypeOK, NEW l \in Lists
    PROVE  /\ waited[l] \in Nat /\ Paid(l) \in Int
           /\ IsFiniteSet(Debt(l)) /\ Cardinality(Debt(l)) \in 0..(All - 1)
           /\ IsFiniteSet(Failing(l)) /\ Cardinality(Failing(l)) \in 0..(All - 1)
<1>1. Cardinality(Broken \ Ahead(l)) \in Nat
  BY CycleAssumption, FS_Subset, FS_CardinalityType
<1>2. cycle.left \in Nat /\ Budget \in Nat
  BY CycleAssumption DEF TypeOK, Cycles
<1>3. waited[l] \in Nat /\ Paid(l) \in Int
  BY <1>1, <1>2, CycleAssumption DEF TypeOK, Paid
<1>4. /\ IsFiniteSet(Debt(l)) /\ Cardinality(Debt(l)) \in Nat
      /\ Cardinality(Debt(l)) <= All - 1
  BY OtherThan, DebtPages DEF Debt
<1>5. /\ IsFiniteSet(Failing(l)) /\ Cardinality(Failing(l)) \in Nat
      /\ Cardinality(Failing(l)) <= All - 1
  BY OtherThan, OtherLists
<1> QED BY <1>3, <1>4, <1>5, BaselinesFinite

\* The same after a step.
LEMMA PartTypesNext ==
    TypeOK' => (\A l \in Lists : /\ Paid(l) \in Int
                                 /\ Cardinality(Debt(l)) \in 0..(All - 1)
                                 /\ Cardinality(Failing(l)) \in 0..(All - 1))'
<1>1. TypeOK => \A l \in Lists : /\ Paid(l) \in Int
                                 /\ Cardinality(Debt(l)) \in 0..(All - 1)
                                 /\ Cardinality(Failing(l)) \in 0..(All - 1)
  BY PartTypes
<1> QED BY <1>1, PTL

LEMMA OtherThanNext == TypeOK' => (\A l \in Lists : l \notin Ahead(l))'
<1>1. TypeOK => \A l \in Lists : l \notin Ahead(l)
  BY OtherThan
<1> QED BY <1>1, PTL

\* Fewer lists that owe no more pages each.
LEMMA DebtShrinks ==
    ASSUME TypeOK, NEW l \in Lists, Owed(l)' \subseteq Owed(l),
           \A m \in Owed(l)' : pages'[m] = pages[m]
    PROVE  Cardinality(Debt(l)') <= Cardinality(Debt(l))
<1>1. Debt(l)' \subseteq Debt(l)
  BY DEF Debt, DebtOf
<1> QED BY <1>1, PartTypes, FS_Subset

\* k pages of m are fetched.
LEMMA DebtPaid ==
    ASSUME TypeOK, TypeOK', NEW l \in Lists, NEW m \in Owed(l), NEW k \in Nat, k <= pages[m],
           Owed(l)' \subseteq Owed(l),
           \A n \in Owed(l)' \ {m} : pages'[n] = pages[n],
           m \in Owed(l)' => pages'[m] = pages[m] - k
    PROVE  Cardinality(Debt(l)') <= Cardinality(Debt(l)) - k
<1> DEFINE few == pages[m] - k
           got == {m} \X ((few + 1)..pages[m])
<1>1. pages[m] \in Nat /\ few \in Nat
  BY OtherThan DEF TypeOK
<1>2. IsFiniteSet(got) /\ Cardinality(got) = k
  <2> DEFINE from == few + 1
             to   == pages[m]
  <2>1. IsFiniteSet(from..to) /\ Cardinality(from..to) = k
    <3>1. from \in Int /\ to \in Int /\ to - from + 1 = k
      BY <1>1
    <3> HIDE DEF from, to
    <3>2. IsFiniteSet(from..to) /\ Cardinality(from..to) = IF from > to THEN 0 ELSE to - from + 1
      BY <3>1, FS_Interval
    <3> QED BY <3>1, <3>2
  <2>2. IsFiniteSet({m}) /\ Cardinality({m}) = 1
    BY FS_Singleton
  <2>3. IsFiniteSet({m} \X (from..to)) /\ Cardinality({m} \X (from..to)) = 1 * k
    <3> DEFINE one == {m}
               many == from..to
    <3>1. IsFiniteSet(one) /\ Cardinality(one) = 1 /\ IsFiniteSet(many) /\ Cardinality(many) = k
      BY <2>1, <2>2
    <3> HIDE DEF one, many
    <3>2. IsFiniteSet(one \X many) /\ Cardinality(one \X many) = 1 * k
      BY <3>1, FS_Product
    <3> QED BY <3>2 DEF one, many
  <2> QED BY <2>3
<1>3. got \subseteq Debt(l)
  <2>1. (few + 1)..pages[m] \subseteq 1..pages[m]
    BY <1>1
  <2> QED BY <2>1 DEF Debt, DebtOf
<1>4. Debt(l)' \subseteq Debt(l) \ got
  <2>1. ASSUME NEW n \in Owed(l)', NEW p \in 1..pages'[n] PROVE <<n, p>> \in Debt(l) \ got
    <3>1. CASE n # m
      BY <2>1, <3>1 DEF Debt, DebtOf
    <3>2. CASE n = m
      <4>1. p \in 1..few
        BY <2>1, <3>2
      <4>2. p \in 1..pages[m] /\ p \notin (few + 1)..pages[m]
        BY <1>1, <4>1
      <4> QED BY <3>2, <4>2 DEF Debt, DebtOf
    <3> QED BY <3>1, <3>2
  <2> QED BY <2>1 DEF Debt, DebtOf
<1>5. IsFiniteSet(Debt(l)) /\ Cardinality(Debt(l)) \in Nat
  BY PartTypes
<1>6. /\ IsFiniteSet(Debt(l) \ got)
      /\ Cardinality(Debt(l) \ got) = Cardinality(Debt(l)) - Cardinality(Debt(l) \cap got)
  BY <1>5, FS_Difference
<1>7. Debt(l) \cap got = got
  BY <1>3
<1>8. Cardinality(Debt(l)') <= Cardinality(Debt(l) \ got)
  BY <1>4, <1>6, FS_Subset
<1> QED BY <1>2, <1>6, <1>7, <1>8

\* Fewer lists that may fail.
LEMMA FailingShrinks ==
    ASSUME TypeOK, NEW l \in Lists, Failing(l)' \subseteq Failing(l)
    PROVE  Cardinality(Failing(l)') <= Cardinality(Failing(l))
BY PartTypes, FS_Subset

\* The order of two lists depends on nothing but themselves.
LEMMA SameOrder ==
    ASSUME NEW l, NEW m, link'[l] = link[l], link'[m] = link[m],
           <<m, m>> \in synced' <=> <<m, m>> \in synced,
           <<m, l>> \in synced' <=> <<m, l>> \in synced
    PROVE  Before(l, m)' <=> Before(l, m)
BY DEF Before, Older, Tier

\* The account adds up.
LEMMA AddsUp ==
    ASSUME TypeOK, TypeOK', NEW l \in Lists, waited'[l] = waited[l], NEW more \in Nat,
           Paid(l)' + Cardinality(Debt(l)') + Cardinality(Failing(l)')
             <= Paid(l) + Cardinality(Debt(l)) + Cardinality(Failing(l)) + more
    PROVE  Account(l)' <= Account(l) + more
<1> DEFINE w == waited[l] * Each
<1>1. w \in Int
  BY PartTypes, EachType
<1>2. /\ Paid(l) \in Int /\ Cardinality(Debt(l)) \in Int /\ Cardinality(Failing(l)) \in Int
      /\ Paid(l)' \in Int /\ Cardinality(Debt(l)') \in Int /\ Cardinality(Failing(l)') \in Int
  <2>1. /\ Paid(l)' \in Int /\ Cardinality(Debt(l)') \in 0..(All - 1)
        /\ Cardinality(Failing(l)') \in 0..(All - 1)
    BY PartTypesNext DEF All, Baselines
  <2> QED BY <2>1, PartTypes, BaselinesFinite
<1>3. /\ Account(l) = w + Paid(l) + Cardinality(Debt(l)) + Cardinality(Failing(l))
      /\ Account(l)' = w + Paid(l)' + Cardinality(Debt(l)') + Cardinality(Failing(l)')
  BY DEF Account, Each
<1> HIDE DEF w
<1> QED BY <1>1, <1>2, <1>3

LEMMA AccountType == ASSUME TypeOK, NEW l \in Lists PROVE Account(l) \in Int
<1>1. waited[l] * Each \in Int
  BY PartTypes, EachType
<1> QED BY <1>1, PartTypes, BaselinesFinite DEF Account

LEMMA AccountTypeNext == TypeOK' => (\A l \in Lists : Account(l) \in Int)'
<1>1. TypeOK => \A l \in Lists : Account(l) \in Int
  BY AccountType
<1> QED BY <1>1, PTL

-----------------------------------------------------------------------------
(* What each step adds to the account of a list.                            *)

\* Nothing that the order or the work of a list depends on has changed.
LEMMA DebtStays ==
    ASSUME TypeOK, NEW l \in Lists, UNCHANGED <<remote, skipped, link, pages, synced>>,
           Ahead(l)' = Ahead(l)
    PROVE  Owed(l)' = Owed(l) /\ Debt(l)' = Debt(l)
<1>1. \A m : Before(l, m)' <=> Before(l, m)
  BY SameOrder
<1>2. Owed(l)' = Owed(l)
  BY <1>1 DEF Owed
<1> QED BY <1>2 DEF Debt, DebtOf

\* A step outside a cycle, or one that only prompts the next.
LEMMA PromptAddsNothing ==
    ASSUME TypeOK, TypeOK', CycleShape,
           Heartbeat \/ SignIn \/ Alarm \/ (\E n \in Lists : Notify(n)) \/ UNCHANGED vars,
           NEW l \in Lists, Counted(l)'
    PROVE  Counted(l) /\ Account(l)' <= Account(l) /\ waited' = waited /\ counts' = counts
<1>1. /\ UNCHANGED <<remote, skipped, link, pages, synced, waited, roster, counts>>
      /\ cycle'.todo = cycle.todo /\ (reauth' => reauth)
      /\ \/ cycle' = cycle
         \/ cycle.pc = "idle" /\ cycle'.pc = "idle"
         \/ cycle.pc = "idle" /\ cycle'.pc = "roster" /\ ~reauth'
  <2>1. CASE Alarm
    <3>1. cycle.pc = "idle" /\ cycle.todo = <<>> /\ cycle'.todo = <<>>
      BY <2>1 DEF Alarm, Idle, CycleShape
    <3>2. cycle'.pc = "idle" \/ (cycle'.pc = "roster" /\ ~reauth')
      BY <2>1 DEF Alarm, Idle
    <3> QED BY <2>1, <3>1, <3>2 DEF Alarm, feed, lists, past
  <2>2. CASE Heartbeat \/ SignIn
    BY <2>2 DEF Heartbeat, SignIn, feed, lists, past
  <2>3. CASE (\E n \in Lists : Notify(n)) \/ UNCHANGED vars
    BY <2>3 DEF Notify, vars, feed, lists, past
  <2> QED BY <2>1, <2>2, <2>3
<1>2. Ahead(l)' = Ahead(l)
  BY <1>1 DEF Ahead
<1>3. Debt(l)' = Debt(l)
  BY <1>1, <1>2, DebtStays
<1>4. Paid(l)' = Paid(l)
  BY <1>1, <1>2 DEF Paid
<1>5. Failing(l)' \subseteq Failing(l)
  BY <1>1, <1>2 DEF Failing, Lost
<1>6. Account(l)' <= Account(l) + 0
  <2>1. Cardinality(Failing(l)') <= Cardinality(Failing(l))
    BY <1>5, FailingShrinks
  <2>2. /\ Paid(l) \in Int /\ Cardinality(Debt(l)) \in Int /\ Cardinality(Failing(l)) \in Int
        /\ Cardinality(Failing(l)') \in Int
    BY PartTypes, PartTypesNext, BaselinesFinite
  <2> QED BY <1>1, <1>3, <1>4, <2>1, <2>2, AddsUp
<1>7. Counted(l)
  BY <1>1 DEF Counted
<1> QED BY <1>1, <1>6, <1>7, AccountType

\* The plan of a cycle has ahead of l only what does not come after it, and
\* leaves out what is skipped.
LEMMA PlanAddsNothing ==
    ASSUME TypeOK, TypeOK', CycleShape, Plan, NEW l \in Lists, Counted(l)'
    PROVE  Counted(l) /\ Account(l)' <= Account(l) /\ waited' = waited /\ counts' = counts
<1>1. PICK todo \in SetToSeqs(roster \ skipped) :
              /\ \A i, j \in DOMAIN todo : i < j => ~Before(todo[j], todo[i])
              /\ cycle' = [cycle EXCEPT !.pc = "lists", !.todo = todo]
  BY DEF Plan
<1>2. /\ cycle.pc = "plan" /\ cycle.todo = <<>> /\ cycle.left = Budget
      /\ cycle'.pc = "lists" /\ cycle'.todo = todo /\ cycle'.left = Budget
      /\ UNCHANGED <<remote, skipped, roster, reauth, waited, counts>>
      /\ Forget(skipped \cap roster)
  BY <1>1 DEF Plan, CycleShape, TypeOK, Cycles, feed, past
<1>3. /\ todo \in Seq(Lists) /\ \A i \in DOMAIN todo : todo[i] \in roster \ skipped
  BY PlanIsSequence DEF TypeOK
<1>4. PICK at \in DOMAIN todo : todo[at] = l
  BY <1>2, <1>3 DEF Counted, Contains
<1>5. l \in roster \ skipped
  BY <1>3, <1>4
<1>6. Ahead(l) = {}
  BY <1>2 DEF Ahead, AheadIn
<1>7. ASSUME NEW m \in Ahead(l)' PROVE m \in roster \ skipped /\ ~Before(l, m)
  <2>1. PICK i \in DOMAIN todo : m = todo[i] /\ \A j \in 1..i : todo[j] # l
    BY <1>2, <1>7 DEF Ahead, AheadIn
  <2>2. i < at
    BY <1>3, <1>4, <2>1
  <2> QED BY <1>1, <1>3, <1>4, <2>1, <2>2
<1>8. ASSUME NEW m \in Lists, m \notin skipped
      PROVE  (Before(l, m)' <=> Before(l, m)) /\ pages'[m] = pages[m]
  <2>1. l \notin skipped \cap roster /\ m \notin skipped \cap roster
    BY <1>5, <1>8
  <2>2. /\ link'[l] = link[l] /\ link'[m] = link[m] /\ pages'[m] = pages[m]
        /\ <<m, m>> \in synced' <=> <<m, m>> \in synced
        /\ <<m, l>> \in synced' <=> <<m, l>> \in synced
    BY <1>2, <2>1, <1>8 DEF Forget
  <2> QED BY <2>2, SameOrder
<1>9. ASSUME NEW m \in Owed(l)' PROVE m \in Owed(l) /\ pages'[m] = pages[m]
  <2>1. m \in remote \ (Broken \cup {l}) /\ m \in Lists
    BY <1>2, <1>9 DEF Owed, TypeOK
  <2>2. m \notin skipped /\ ~Before(l, m)
    BY <1>2, <1>7, <1>8, <1>9, <2>1 DEF Owed
  <2> QED BY <1>8, <2>1, <2>2 DEF Owed
<1>10. Cardinality(Debt(l)') <= Cardinality(Debt(l))
  BY <1>9, DebtShrinks
<1>11. Failing(l)' \subseteq Failing(l)
  <2>1. Ahead(l)' \subseteq roster \ {l}
    <3>1. l \notin Ahead(l)'
      BY OtherThanNext
    <3> QED BY <1>7, <3>1
  <2> QED BY <1>2, <2>1 DEF Failing, Lost
<1>12. Paid(l)' <= Paid(l)
  <2>1. Cardinality(Broken \ Ahead(l)') \in Nat
    BY CycleAssumption, FS_Subset, FS_CardinalityType
  <2> QED BY <1>2, <2>1, CycleAssumption DEF Paid
<1>13. Account(l)' <= Account(l) + 0
  <2>1. Cardinality(Failing(l)') <= Cardinality(Failing(l))
    BY <1>11, FailingShrinks
  <2>2. /\ Paid(l) \in Int /\ Cardinality(Debt(l)) \in Int /\ Cardinality(Failing(l)) \in Int
        /\ Paid(l)' \in Int /\ Cardinality(Debt(l)') \in Int /\ Cardinality(Failing(l)') \in Int
    BY PartTypes, PartTypesNext, BaselinesFinite
  <2> QED BY <1>2, <1>10, <1>12, <2>1, <2>2, AddsUp
<1>14. Counted(l)
  BY <1>2, <1>5 DEF Counted
<1> QED BY <1>2, <1>13, <1>14, AccountType

\* A synced roster has nothing that is gone, so that only a sign-in that
\* Microsoft waits for can fail what is ahead of l.
LEMMA SyncRosterAddsNothing ==
    ASSUME TypeOK, TypeOK', CycleShape, NoGhosts', SyncRoster, NEW l \in Lists, Counted(l)'
    PROVE  Counted(l) /\ Account(l)' <= Account(l) /\ waited' = waited /\ counts' = counts
<1>1. /\ cycle.pc = "roster" /\ cycle'.pc = "plan" /\ cycle'.todo = cycle.todo
      /\ UNCHANGED <<remote, skipped, reauth, waited, counts>> /\ RosterApplied
      /\ linked' = TRUE /\ news' = {}
  BY DEF SyncRoster, TypeOK, Cycles
<1>2. PICK removed : /\ Forget(removed) /\ removed \cap remote = {}
                     /\ removed \cap roster' = {}
  BY <1>1 DEF RosterApplied
<1>3. l \in roster'
  BY <1>1 DEF Counted
<1>4. Ahead(l)' = Ahead(l)
  BY <1>1 DEF Ahead
<1>5. ASSUME NEW m \in Owed(l)' PROVE m \in Owed(l) /\ pages'[m] = pages[m]
  <2>1. m \in remote /\ m \in Lists /\ l \notin removed /\ m \notin removed
    BY <1>1, <1>2, <1>3, <1>5 DEF Owed, TypeOK
  <2>2. /\ link'[l] = link[l] /\ link'[m] = link[m] /\ pages'[m] = pages[m]
        /\ <<m, m>> \in synced' <=> <<m, m>> \in synced
        /\ <<m, l>> \in synced' <=> <<m, l>> \in synced
    BY <1>2, <2>1 DEF Forget
  <2>3. Before(l, m)' <=> Before(l, m)
    BY <2>2, SameOrder
  <2> QED BY <1>1, <1>4, <1>5, <2>2, <2>3 DEF Owed
<1>6. Cardinality(Debt(l)') <= Cardinality(Debt(l))
  BY <1>5, DebtShrinks
<1>7. roster' \subseteq remote'
  BY <1>1 DEF NoGhosts
<1>8. Failing(l)' \subseteq Failing(l)
  BY <1>1, <1>7 DEF Failing, Lost, TypeOK
<1>9. Paid(l)' = Paid(l)
  BY <1>1 DEF Paid
<1>10. Account(l)' <= Account(l) + 0
  <2>1. Cardinality(Failing(l)') <= Cardinality(Failing(l))
    BY <1>8, FailingShrinks
  <2>2. /\ Paid(l) \in Int /\ Cardinality(Debt(l)) \in Int /\ Cardinality(Failing(l)) \in Int
        /\ Cardinality(Debt(l)') \in Int /\ Cardinality(Failing(l)') \in Int
    BY PartTypes, PartTypesNext, BaselinesFinite
  <2> QED BY <1>1, <1>6, <1>9, <2>1, <2>2, AddsUp
<1>11. Counted(l)
  BY <1>1 DEF Counted
<1> QED BY <1>1, <1>10, <1>11, AccountType

-----------------------------------------------------------------------------
(* A cycle spends pages on what is ahead of l.                              *)

\* What a turn does to the plan.
LEMMA TurnTaken ==
    ASSUME TypeOK, CycleShape, NEW m \in Lists, Turn(m), NEW n, NEW busy, Spent(m, n, busy),
           NEW l \in Lists, Counted(l)'
    PROVE  /\ l # m /\ Counted(l)
           /\ cycle.pc = "lists" /\ cycle'.pc = "lists"
           /\ cycle'.left = cycle.left - n /\ cycle.left \in Nat \ {0}
           /\ m \in Ahead(l) /\ Ahead(l)' = Ahead(l) \ {m}
<1> DEFINE s == cycle.todo
<1>1. /\ s \in Seq(Lists) /\ s # <<>> /\ m = Head(s) /\ cycle.left \in Nat \ {0}
      /\ \A i, j \in DOMAIN s : i # j => s[i] # s[j]
  BY CycleAssumption DEF TypeOK, Cycles, CycleShape, Turn
<1>2. /\ cycle.pc = "lists" /\ cycle'.pc = "lists" /\ cycle'.todo = Tail(s)
      /\ cycle'.left = cycle.left - n
  BY DEF Turn, Spent, TypeOK, Cycles
<1>3. /\ Len(s) \in Nat /\ DOMAIN s = 1..Len(s) /\ DOMAIN Tail(s) = 1..(Len(s) - 1)
      /\ Len(Tail(s)) = Len(s) - 1 /\ Head(s) = s[1] /\ Len(s) >= 1
      /\ \A i \in 1..(Len(s) - 1) : Tail(s)[i] = s[i + 1]
  <2> HIDE DEF s
  <2> QED BY <1>1
<1>4. PICK i \in 1..(Len(s) - 1) : Tail(s)[i] = l
  BY <1>2, <1>3 DEF Counted, Contains
<1>5. i + 1 \in DOMAIN s /\ 1 \in DOMAIN s /\ i + 1 # 1 /\ s[i + 1] = l
  BY <1>3, <1>4
<1>6. l # m
  BY <1>1, <1>3, <1>5
<1>7. Counted(l)
  BY <1>2, <1>3, <1>5 DEF Counted, Contains
<1>8. AheadIn(Tail(s), l) = AheadIn(s, l) \ {m} /\ m \in AheadIn(s, l)
  <2> HIDE DEF s
  <2> QED BY <1>1, <1>6, AheadOfTail
<1> QED BY <1>1, <1>2, <1>6, <1>7, <1>8 DEF Ahead

\* A list that fails is a broken one, or is off the list of those that may.
LEMMA FailAddsNothing ==
    ASSUME TypeOK, TypeOK', CycleShape, NEW m \in Lists, FailList(m), NEW l \in Lists, Counted(l)'
    PROVE  Counted(l) /\ Account(l)' <= Account(l) /\ waited' = waited /\ counts' = counts
<1>1. /\ Turn(m) /\ Spent(m, 1, FALSE) /\ (m \in remote \ Broken => reauth)
      /\ UNCHANGED <<remote, skipped, roster, link, pages, synced, reauth, waited, counts>>
  BY DEF FailList, Fetchable, feed, lists, past
<1>2. /\ l # m /\ Counted(l) /\ cycle.pc = "lists" /\ cycle'.pc = "lists"
      /\ cycle'.left = cycle.left - 1 /\ cycle.left \in Nat \ {0}
      /\ m \in Ahead(l) /\ Ahead(l)' = Ahead(l) \ {m}
  BY <1>1, TurnTaken
<1>3. \A n \in Owed(l)' : n \in Owed(l) /\ pages'[n] = pages[n]
  <2>1. \A n : Before(l, n)' <=> Before(l, n)
    BY <1>1, SameOrder
  <2> QED BY <1>1, <1>2, <2>1 DEF Owed
<1>4. Cardinality(Debt(l)') <= Cardinality(Debt(l))
  BY <1>3, DebtShrinks
<1>5. Paid(l)' + Cardinality(Failing(l)') <= Paid(l) + Cardinality(Failing(l))
  <2> DEFINE behind == Broken \ Ahead(l)
  <2>1. IsFiniteSet(behind) /\ Cardinality(behind) \in Nat
    BY CycleAssumption, FS_Subset, FS_CardinalityType
  <2>2. /\ Paid(l) = Budget - cycle.left - Cardinality(behind)
        /\ Paid(l)' = Budget - (cycle.left - 1) - Cardinality(Broken \ (Ahead(l) \ {m}))
        /\ Failing(l) = Lost(Ahead(l)) /\ Failing(l)' = Lost(Ahead(l) \ {m})
    BY <1>1, <1>2 DEF Paid, Failing, Lost
  <2>3. Budget \in Nat /\ Cardinality(Failing(l)) \in Nat /\ IsFiniteSet(Failing(l))
    BY CycleAssumption, PartTypes, BaselinesFinite
  <2>4. CASE m \in Broken
    <3>1. Broken \ (Ahead(l) \ {m}) = behind \cup {m} /\ m \notin behind
      BY <1>2, <2>4
    <3>2. Cardinality(behind \cup {m}) = Cardinality(behind) + 1
      <4> HIDE DEF behind
      <4> QED BY <2>1, <3>1, FS_AddElement
    <3>3. Failing(l)' = Failing(l)
      BY <2>2, <2>4 DEF Lost
    <3>4. Paid(l)' = Budget - (cycle.left - 1) - (Cardinality(behind) + 1)
      BY <2>2, <3>1, <3>2
    <3>5. Cardinality(Failing(l)') = Cardinality(Failing(l))
      BY <3>3
    <3> HIDE DEF behind
    <3> QED BY <1>2, <2>1, <2>2, <2>3, <3>4, <3>5
  <2>5. CASE m \notin Broken
    <3>1. Broken \ (Ahead(l) \ {m}) = behind
      BY <2>5
    <3>2. m \in Failing(l) /\ Failing(l)' = Failing(l) \ {m}
      BY <1>1, <1>2, <2>2, <2>5 DEF Lost
    <3>3. Cardinality(Failing(l)') = Cardinality(Failing(l)) - 1
      BY <2>3, <3>2, FS_RemoveElement
    <3>4. Paid(l)' = Budget - (cycle.left - 1) - Cardinality(behind)
      BY <2>2, <3>1
    <3> HIDE DEF behind
    <3> QED BY <1>2, <2>1, <2>2, <2>3, <3>3, <3>4
  <2> QED BY <2>4, <2>5
<1>6. Account(l)' <= Account(l) + 0
  <2>1. /\ Paid(l) \in Int /\ Cardinality(Debt(l)) \in Int /\ Cardinality(Failing(l)) \in Int
        /\ Paid(l)' \in Int /\ Cardinality(Debt(l)') \in Int /\ Cardinality(Failing(l)') \in Int
    BY PartTypes, PartTypesNext, BaselinesFinite
  <2> QED BY <1>1, <1>4, <1>5, <2>1, AddsUp
<1> QED BY <1>1, <1>2, <1>6, AccountType

\* Pages that are fetched are owed no more: a finished list comes after l.
LEMMA SyncAddsNothing ==
    ASSUME TypeOK, TypeOK', CycleShape, NEW m \in Lists, SyncList(m), NEW l \in Lists, Counted(l)'
    PROVE  Counted(l) /\ Account(l)' <= Account(l) /\ waited' = waited /\ counts' = counts
<1> DEFINE k == IF pages[m] <= cycle.left THEN pages[m] ELSE cycle.left
<1>1. /\ Turn(m) /\ m \in remote \ Broken /\ \E busy : Spent(m, k, busy)
      /\ UNCHANGED <<remote, skipped, roster, reauth, waited, counts>>
  BY DEF SyncList, Fetchable, feed, past
<1>2. /\ l # m /\ Counted(l) /\ cycle.pc = "lists" /\ cycle'.pc = "lists"
      /\ cycle'.left = cycle.left - k /\ cycle.left \in Nat \ {0}
      /\ m \in Ahead(l) /\ Ahead(l)' = Ahead(l) \ {m}
  <2> HIDE DEF k
  <2> QED BY <1>1, TurnTaken
<1>3. pages[m] \in Nat /\ k \in Nat /\ k <= pages[m]
  BY <1>2 DEF TypeOK
<1>4. m \in Owed(l)
  BY <1>1, <1>2 DEF Owed
<1>5. ASSUME NEW n \in Lists \ {m} PROVE (Before(l, n)' <=> Before(l, n)) /\ pages'[n] = pages[n]
  <2>1. /\ link'[l] = link[l] /\ link'[n] = link[n] /\ pages'[n] = pages[n]
        /\ <<n, n>> \in synced' <=> <<n, n>> \in synced
        /\ <<n, l>> \in synced' <=> <<n, l>> \in synced
    <3>1. CASE pages[m] <= cycle.left
      <4>1. Finished(m)
        BY <3>1 DEF SyncList
      <4>2. PICK more : pages' = [pages EXCEPT ![m] = more]
        BY <4>1 DEF Finished
      <4>3. link' = [link EXCEPT ![m] = "delta"]
        BY <4>1 DEF Finished
      <4>4. ASSUME NEW p \in synced', p[2] # m PROVE p \in synced
        <5>1. p \in synced \/ \E x : p = <<x, m>>
          BY <4>1 DEF Finished
        <5> QED BY <4>4, <5>1
      <4>5. \A p \in synced : p[1] # m /\ p[2] # m => p \in synced'
        BY <4>1 DEF Finished
      <4> QED BY <1>2, <1>5, <4>2, <4>3, <4>4, <4>5 DEF TypeOK
    <3>2. CASE ~(pages[m] <= cycle.left)
      BY <1>2, <1>5, <3>2 DEF SyncList, TypeOK
    <3> QED BY <3>1, <3>2
  <2> QED BY <2>1, SameOrder
<1>6. ASSUME NEW n \in Owed(l)' PROVE n \in Owed(l)
  <2>1. CASE n = m
    BY <1>4, <2>1
  <2>2. CASE n # m
    <3>1. n \in remote \ (Broken \cup {l}) /\ n \in Lists \ {m}
      BY <1>1, <1>6, <2>2 DEF Owed, TypeOK
    <3> QED BY <1>1, <1>2, <1>5, <1>6, <3>1 DEF Owed
  <2> QED BY <2>1, <2>2
<1>7. \A n \in Owed(l)' \ {m} : pages'[n] = pages[n]
  BY <1>5, <1>6, OtherThan
<1>8. m \in Owed(l)' => pages'[m] = pages[m] - k
  <2>1. CASE pages[m] <= cycle.left
    <3>1. Finished(m)
      BY <2>1 DEF SyncList
    <3>2. link'[m] = "delta" /\ link'[l] = link[l]
      BY <1>2, <3>1 DEF Finished, TypeOK
    <3>3. <<m, m>> \in synced' /\ <<m, l>> \notin synced'
      BY <1>2, <3>1 DEF Finished
    <3>4. Before(l, m)'
      BY <3>2, <3>3 DEF Before, Older, Tier, TypeOK
    <3>5. m \notin Owed(l)'
      BY <1>2, <3>4 DEF Owed
    <3> QED BY <3>5
  <2>2. CASE ~(pages[m] <= cycle.left)
    BY <1>3, <2>2 DEF SyncList, TypeOK
  <2> QED BY <2>1, <2>2
<1>9. Cardinality(Debt(l)') <= Cardinality(Debt(l)) - k
  <2> HIDE DEF k
  <2> QED BY <1>3, <1>4, <1>6, <1>7, <1>8, DebtPaid
<1>10. Paid(l)' = Paid(l) + k
  <2>1. Broken \ (Ahead(l) \ {m}) = Broken \ Ahead(l)
    BY <1>1
  <2>2. Cardinality(Broken \ Ahead(l)) \in Nat
    BY CycleAssumption, FS_Subset, FS_CardinalityType
  <2>3. /\ Paid(l) = Budget - cycle.left - Cardinality(Broken \ Ahead(l))
        /\ Paid(l)' = Budget - (cycle.left - k) - Cardinality(Broken \ Ahead(l))
    BY <1>2, <2>1 DEF Paid
  <2> HIDE DEF k
  <2> QED BY <1>2, <1>3, <2>2, <2>3, CycleAssumption
<1>11. Failing(l)' \subseteq Failing(l)
  BY <1>1, <1>2 DEF Failing, Lost
<1>12. Account(l)' <= Account(l) + 0
  <2>1. Cardinality(Failing(l)') <= Cardinality(Failing(l))
    BY <1>11, FailingShrinks
  <2>2. /\ Paid(l) \in Int /\ Cardinality(Debt(l)) \in Int /\ Cardinality(Failing(l)) \in Int
        /\ Paid(l)' \in Int /\ Cardinality(Debt(l)') \in Int /\ Cardinality(Failing(l)') \in Int
    BY PartTypes, PartTypesNext, BaselinesFinite
  <2> HIDE DEF k
  <2> QED BY <1>1, <1>3, <1>9, <1>10, <2>1, <2>2, AddsUp
<1> QED BY <1>1, <1>2, <1>12, AccountType

-----------------------------------------------------------------------------
(* A change, a request or a fault adds one baseline of every list at most.  *)

LEMMA EventsCount ==
    ASSUME TypeOK, NEW b \in DOMAIN Bounds, Use(b)
    PROVE  Events' = Events + 1
<1> DEFINE n == counts[b] + 1
<1>1. n \in Nat /\ counts' = [counts EXCEPT ![b] = n]
  BY DEF TypeOK, Use
<1>2. \A c \in {"changes", "faults", "requests"} : counts[c] \in Nat /\ c \in DOMAIN counts
  BY DEF TypeOK, Bounds
<1>3. b \in {"changes", "faults", "requests"} /\ n = counts[b] + 1
  BY DEF Bounds
<1> HIDE DEF n
<1>4. CASE b = "changes"
  BY <1>1, <1>2, <1>3, <1>4 DEF Events
<1>5. CASE b = "faults"
  BY <1>1, <1>2, <1>3, <1>5 DEF Events
<1>6. CASE b = "requests"
  BY <1>1, <1>2, <1>3, <1>6 DEF Events
<1> QED BY <1>3, <1>4, <1>5, <1>6

\* The debt of l never exceeds what all other baselines take.
LEMMA EventAdds ==
    ASSUME TypeOK, TypeOK', NEW l \in Lists, waited'[l] = waited[l],
           \/ /\ Paid(l)' <= Paid(l) + 1
              /\ Cardinality(Failing(l)') <= Cardinality(Failing(l))
           \/ /\ Paid(l)' <= Paid(l)
              /\ Cardinality(Failing(l)') <= Cardinality(Failing(l)) + 1
           \/ /\ Paid(l)' <= Paid(l)
              /\ Cardinality(Debt(l)') <= Cardinality(Debt(l))
    PROVE  Account(l)' <= Account(l) + All
<1>1. /\ Paid(l) \in Int /\ Cardinality(Debt(l)) \in 0..(All - 1)
      /\ Cardinality(Failing(l)) \in 0..(All - 1)
  BY PartTypes
<1>2. /\ Paid(l)' \in Int /\ Cardinality(Debt(l)') \in 0..(All - 1)
      /\ Cardinality(Failing(l)') \in 0..(All - 1)
  BY PartTypesNext DEF All, Baselines
<1>3. All \in Nat
  BY BaselinesFinite
<1>4. Paid(l)' + Cardinality(Debt(l)') + Cardinality(Failing(l)')
        <= Paid(l) + Cardinality(Debt(l)) + Cardinality(Failing(l)) + All
  BY <1>1, <1>2, <1>3
<1> QED BY <1>3, <1>4, AddsUp

\* Changes and requests.
LEMMA ChangeAdds ==
    ASSUME TypeOK, TypeOK', CycleShape,
           \/ Refuse \/ ResyncEverything
           \/ \E n \in Lists : ChangeLists(n) \/ ChangePolicy(n) \/ Resync(n),
           NEW l \in Lists, Counted(l)'
    PROVE  Counted(l) /\ Account(l)' <= Account(l) + All /\ waited' = waited /\ Events' = Events + 1
<1>1. cycle' = cycle /\ roster' = roster /\ waited' = waited
  BY DEF Refuse, ResyncEverything, ChangeLists, ChangePolicy, Resync, past
<1>2. Events' = Events + 1
  <2>1. "changes" \in DOMAIN Bounds /\ "requests" \in DOMAIN Bounds
    BY DEF Bounds
  <2>2. Use("changes") \/ Use("requests")
    BY DEF Refuse, ResyncEverything, ChangeLists, ChangePolicy, Resync
  <2> QED BY <2>1, <2>2, EventsCount
<1>3. Counted(l) /\ Ahead(l)' = Ahead(l) /\ Paid(l)' = Paid(l) /\ Paid(l) \in Int
  BY <1>1, PartTypes DEF Counted, Ahead, Paid
<1>4. Cardinality(Failing(l)) \in Nat /\ IsFiniteSet(Failing(l))
  BY PartTypes, BaselinesFinite
<1>5. CASE Refuse
  <2>1. Debt(l)' = Debt(l) /\ Cardinality(Debt(l)) \in Int
    BY <1>3, <1>5, DebtStays, PartTypes, BaselinesFinite DEF Refuse, feed, lists
  <2> QED BY <1>1, <1>2, <1>3, <2>1, EventAdds
<1>6. CASE ResyncEverything \/ \E n \in Lists : ChangePolicy(n) \/ Resync(n)
  <2>1. remote' = remote /\ reauth' = reauth
    BY <1>6 DEF ResyncEverything, ChangePolicy, Resync, feed
  <2>2. Failing(l)' = Failing(l)
    BY <1>1, <1>3, <2>1 DEF Failing, Lost
  <2> QED BY <1>1, <1>2, <1>3, <1>4, <2>2, EventAdds
<1>7. ASSUME NEW n \in Lists, ChangeLists(n)
      PROVE  Account(l)' <= Account(l) + All
  <2>1. reauth' = reauth /\ \A m : m # n => (m \in remote' <=> m \in remote)
    BY <1>7 DEF ChangeLists
  <2>2. Failing(l)' \subseteq Failing(l) \cup {n}
    BY <1>1, <1>3, <2>1 DEF Failing, Lost
  <2>3. /\ IsFiniteSet(Failing(l) \cup {n})
        /\ Cardinality(Failing(l) \cup {n}) <= Cardinality(Failing(l)) + 1
    <3>1. Cardinality(Failing(l) \cup {n})
            = IF n \in Failing(l) THEN Cardinality(Failing(l)) ELSE Cardinality(Failing(l)) + 1
      BY <1>4, FS_AddElement
    <3> QED BY <1>4, <3>1, FS_AddElement
  <2>4. /\ Cardinality(Failing(l)') <= Cardinality(Failing(l) \cup {n})
        /\ Cardinality(Failing(l)') \in Int /\ Cardinality(Failing(l) \cup {n}) \in Int
    BY <2>2, <2>3, FS_Subset, FS_CardinalityType
  <2>5. Cardinality(Failing(l)') <= Cardinality(Failing(l)) + 1
    BY <1>4, <2>3, <2>4
  <2> QED BY <1>1, <1>3, <2>5, EventAdds
<1> QED BY <1>1, <1>2, <1>3, <1>5, <1>6, <1>7

\* The request for the roster fails: what is ahead may be gone after all.
LEMMA RosterFaultAdds ==
    ASSUME TypeOK, TypeOK', CycleShape, RosterFails \/ RosterGone, NEW l \in Lists, Counted(l)'
    PROVE  /\ Counted(l) /\ waited' = waited
           /\ \/ Account(l)' <= Account(l) + All /\ Events' = Events + 1
              \/ Account(l)' <= Account(l) /\ counts' = counts
<1>1. ~RosterGone
  BY DEF RosterGone, Counted, TypeOK, Cycles
<1>2. /\ cycle.pc = "roster" /\ cycle'.pc = "plan" /\ cycle'.todo = cycle.todo
      /\ UNCHANGED <<remote, skipped, link, pages, synced, roster, reauth, waited>>
  BY <1>1 DEF RosterFails, TypeOK, Cycles, feed, lists, past
<1>3. Counted(l) /\ Ahead(l)' = Ahead(l) /\ Paid(l)' = Paid(l) /\ Paid(l) \in Int
  BY <1>2, PartTypes DEF Counted, Ahead, Paid
<1>4. Debt(l)' = Debt(l) /\ Cardinality(Debt(l)) \in Int
  BY <1>2, <1>3, DebtStays, PartTypes, BaselinesFinite
<1>5. CASE Use("faults")
  <2>1. Events' = Events + 1
    BY <1>5, EventsCount DEF Bounds
  <2> QED BY <1>2, <1>3, <1>4, <2>1, EventAdds
<1>6. CASE reauth /\ UNCHANGED counts
  <2>1. Failing(l)' \subseteq Failing(l)
    BY <1>2, <1>6 DEF Failing, Lost, TypeOK
  <2>2. /\ Cardinality(Failing(l)') <= Cardinality(Failing(l))
        /\ Cardinality(Failing(l)) \in Int /\ Cardinality(Failing(l)') \in Int
    BY <2>1, FailingShrinks, PartTypes, PartTypesNext, BaselinesFinite
  <2>3. Account(l)' <= Account(l) + 0
    BY <1>2, <1>3, <1>4, <2>2, AddsUp
  <2> QED BY <1>2, <1>3, <1>6, <2>3, AccountType
<1> QED BY <1>1, <1>5, <1>6 DEF RosterFails

\* A throttled or expired request takes a page for nothing.
LEMMA DelayAdds ==
    ASSUME TypeOK, TypeOK', CycleShape, NEW m \in Lists, DelayList(m), NEW l \in Lists, Counted(l)'
    PROVE  Counted(l) /\ Account(l)' <= Account(l) + All /\ waited' = waited /\ Events' = Events + 1
<1>1. /\ Turn(m) /\ Spent(m, 1, TRUE) /\ m \in remote \ Broken /\ Use("faults")
      /\ UNCHANGED <<remote, roster, reauth, waited>>
  BY DEF DelayList, Fetchable, feed, past
<1>2. /\ Counted(l) /\ cycle.pc = "lists" /\ cycle'.pc = "lists"
      /\ cycle'.left = cycle.left - 1 /\ cycle.left \in Nat \ {0}
      /\ Ahead(l)' = Ahead(l) \ {m}
  BY <1>1, TurnTaken
<1>3. Events' = Events + 1
  BY <1>1, EventsCount DEF Bounds
<1>4. Paid(l)' = Paid(l) + 1
  <2>1. Broken \ (Ahead(l) \ {m}) = Broken \ Ahead(l)
    BY <1>1
  <2>2. Cardinality(Broken \ Ahead(l)) \in Nat
    BY CycleAssumption, FS_Subset, FS_CardinalityType
  <2>3. /\ Paid(l) = Budget - cycle.left - Cardinality(Broken \ Ahead(l))
        /\ Paid(l)' = Budget - (cycle.left - 1) - Cardinality(Broken \ Ahead(l))
    BY <1>2, <2>1 DEF Paid
  <2> QED BY <1>2, <2>2, <2>3, CycleAssumption
<1>5. Failing(l)' \subseteq Failing(l)
  BY <1>1, <1>2 DEF Failing, Lost
<1>6. Cardinality(Failing(l)') <= Cardinality(Failing(l)) /\ Paid(l) \in Int
  BY <1>5, FailingShrinks, PartTypes
<1> QED BY <1>1, <1>2, <1>3, <1>4, <1>6, EventAdds

-----------------------------------------------------------------------------
(* The end of a cycle that did not come to l.                               *)

\* A positive number of pages is spent in each such cycle.
LEMMA OneMoreCycle ==
    ASSUME NEW w \in Nat, NEW c \in Int
    PROVE  (w + 1) * c = w * c + c
OBVIOUS

LEMMA AtLeastAll ==
    ASSUME NEW e \in Nat, NEW a \in Nat
    PROVE  (1 + e) * a >= a /\ (1 + e) * a \in Nat /\ (1 + (e + 1)) * a = (1 + e) * a + a
<1>1. e * a \in Nat
  OBVIOUS
<1>2. (1 + e) * a = a + e * a /\ (1 + (e + 1)) * a = a + e * a + a
  OBVIOUS
<1> QED BY <1>1, <1>2

LEMMA NotNegative == ASSUME NEW w \in Nat, NEW c \in Nat PROVE w * c \in Nat
OBVIOUS

\* The budget is gone, and all of it went to what is ahead of l or broken.
LEMMA EndCycleCovered ==
    ASSUME TypeOK, TypeOK', CycleShape, Each > 0, Covered, EndCycle, NEW l \in Lists
    PROVE  /\ Account(l)' < (1 + Events) * All
           /\ waited'[l] * Each < (1 + Events) * All
<1> DEFINE bound == (1 + Events) * All
<1>1. bound \in Nat /\ bound >= All /\ All \in Nat
  BY EventsType, BaselinesFinite, AtLeastAll
<1>2. /\ cycle.pc = "lists" /\ cycle' = Idle /\ (cycle.left = 0 \/ cycle.todo = <<>>)
      /\ UNCHANGED <<remote, roster, skipped, link, pages, synced>>
      /\ waited' = [m \in Lists |->
                       IF ~Contains(cycle.todo, m) \/ m \notin roster THEN 0
                       ELSE IF waited[m] < MaxWait THEN waited[m] + 1
                       ELSE waited[m]]
  BY DEF EndCycle, feed, lists
<1>3. Paid(l)' = 0 /\ Failing(l)' = {} /\ Ahead(l)' = {}
  BY <1>2 DEF Idle, Paid, Failing, Ahead, AheadIn
<1>4. Cardinality(Failing(l)') = 0
  BY <1>3, FS_EmptySet
<1>5. /\ Cardinality(Debt(l)') \in 0..(All - 1) /\ Cardinality(Debt(l)) \in 0..(All - 1)
      /\ Cardinality(Failing(l)) \in Nat
  BY PartTypes, PartTypesNext, BaselinesFinite DEF All, Baselines
<1>6. Each \in Nat /\ waited'[l] \in Nat /\ waited'[l] * Each \in Nat
  <2>1. Each \in Nat
    BY EachType
  <2>2. waited'[l] \in Nat
    BY CycleAssumption DEF TypeOK
  <2> QED BY <2>1, <2>2, NotNegative
<1>7. Account(l)' = waited'[l] * Each + Cardinality(Debt(l)')
  <2>1. Account(l)' = waited'[l] * Each + 0 + Cardinality(Debt(l)') + 0
    BY <1>3, <1>4 DEF Account, Each
  <2> QED BY <1>5, <1>6, <2>1
<1>8. CASE ~Contains(cycle.todo, l) \/ l \notin roster
  <2>1. waited'[l] = 0
    BY <1>2, <1>8
  <2>2. waited'[l] * Each = 0
    BY <1>6, <2>1
  <2> HIDE DEF bound
  <2>3. Account(l)' < bound /\ waited'[l] * Each < bound
    <3>1. All >= 1
      BY AllPositive
    <3> QED BY <1>1, <1>5, <1>7, <2>2, <3>1
  <2> QED BY <2>3 DEF bound
<1>9. CASE Contains(cycle.todo, l) /\ l \in roster
  <2>1. Counted(l) /\ cycle.left = 0
    BY <1>2, <1>9 DEF Counted, Contains
  <2>2. Account(l) < bound
    BY <2>1 DEF Covered
  <2>3. Paid(l) >= Each /\ Paid(l) \in Int
    <3>1. /\ IsFiniteSet(Broken) /\ Cardinality(Broken) \in Nat
          /\ Cardinality(Broken \ Ahead(l)) <= Cardinality(Broken)
          /\ Cardinality(Broken \ Ahead(l)) \in Nat
      BY CycleAssumption, FS_Subset, FS_CardinalityType
    <3> QED BY <1>2, <2>1, <3>1, CycleAssumption DEF Paid, Each
  <2>4. Cardinality(Debt(l)') <= Cardinality(Debt(l))
    <3>1. \A m : Before(l, m)' <=> Before(l, m)
      BY <1>2, SameOrder
    <3>2. Owed(l)' \subseteq Owed(l)
      BY <1>2, <1>3, <3>1 DEF Owed
    <3> QED BY <1>2, <3>2, DebtShrinks
  <2>5. waited[l] \in Nat /\ waited[l] * Each \in Nat
    <3>1. waited[l] \in Nat
      BY PartTypes
    <3> QED BY <1>6, <3>1, NotNegative
  <2>6. Account(l) = waited[l] * Each + Paid(l) + Cardinality(Debt(l)) + Cardinality(Failing(l))
    BY DEF Account
  <2>7. waited'[l] * Each <= waited[l] * Each + Each
    <3>1. waited'[l] = waited[l] + 1 \/ waited'[l] = waited[l]
      BY <1>2, <1>9
    <3>2. (waited[l] + 1) * Each = waited[l] * Each + Each
      BY <1>6, <2>5, OneMoreCycle
    <3> QED BY <1>6, <2>5, <3>1, <3>2
  <2> HIDE DEF bound
  <2>8. Account(l)' < bound /\ waited'[l] * Each < bound
    BY <1>1, <1>5, <1>6, <1>7, <2>2, <2>3, <2>4, <2>5, <2>6, <2>7
  <2> QED BY <2>8 DEF bound
<1> QED BY <1>8, <1>9

-----------------------------------------------------------------------------
(* The rotation.                                                            *)

RotationInv == TypeOK /\ CycleShape /\ (Each > 0 => Bounded /\ Covered)

\* Nothing is added to any account, or an event pays for it.
LEMMA OtherStepsCovered ==
    ASSUME TypeOK, TypeOK', Each > 0, Bounded, Covered, waited' = waited,
           NEW e \in {0, 1}, Events' = Events + e,
           \A l \in Lists : Counted(l)' => Counted(l) /\ Account(l)' <= Account(l) + e * All
    PROVE  Bounded' /\ Covered'
<1> DEFINE old == (1 + Events) * All
           new == (1 + (Events + e)) * All
<1>1. All \in Nat /\ Events \in Nat
  BY EventsType, BaselinesFinite
<1>2. old \in Nat /\ new \in Nat /\ new = old + e * All /\ e * All \in Nat
  <2>1. CASE e = 0
    BY <1>1, <2>1, AtLeastAll
  <2>2. CASE e = 1
    BY <1>1, <2>2, AtLeastAll
  <2> QED BY <2>1, <2>2
<1>3. /\ Bounded' <=> \A l \in Lists : waited[l] * Each < new
      /\ Covered' <=> \A l \in Lists : Counted(l)' => Account(l)' < new
  BY DEF Bounded, Covered, Each, All, Baselines
<1>4. /\ \A l \in Lists : waited[l] * Each < old
      /\ \A l \in Lists : Counted(l) => Account(l) < old
  BY DEF Bounded, Covered
<1>5. \A l \in Lists : /\ Account(l) \in Int /\ Account(l)' \in Int
                       /\ waited[l] * Each \in Int
  <2>1. \A l \in Lists : Account(l) \in Int /\ waited[l] * Each \in Int
    BY AccountType, PartTypes, EachType
  <2>2. \A l \in Lists : Account(l)' \in Int
    BY AccountTypeNext
  <2> QED BY <2>1, <2>2
<1> DEFINE gain == e * All
<1> HIDE DEF old, new, gain
<1>6. /\ \A l \in Lists : waited[l] * Each < new
      /\ \A l \in Lists : Counted(l)' => Account(l)' < new
  <2>1. \A l \in Lists : Counted(l)' => Counted(l) /\ Account(l)' <= Account(l) + gain
    BY DEF gain
  <2>2. new = old + gain /\ old \in Nat /\ gain \in Nat
    BY <1>2 DEF gain
  <2> QED BY <1>4, <1>5, <2>1, <2>2
<1> QED BY <1>3, <1>6

LEMMA QuietCovered ==
    ASSUME TypeOK, TypeOK', Each > 0, Bounded, Covered, waited' = waited, counts' = counts,
           \A l \in Lists : Counted(l)' => Counted(l) /\ Account(l)' <= Account(l)
    PROVE  Bounded' /\ Covered'
<1>1. Events' = Events + 0
  BY EventsType DEF Events
<1>2. \A l \in Lists : Counted(l)' => Counted(l) /\ Account(l)' <= Account(l) + 0 * All
  <2>1. 0 * All = 0 /\ \A l \in Lists : Account(l) \in Int
    BY BaselinesFinite, AccountType
  <2> QED BY <2>1
<1> QED BY <1>1, <1>2, OtherStepsCovered

LEMMA EventCovered ==
    ASSUME TypeOK, TypeOK', Each > 0, Bounded, Covered, waited' = waited,
           \E b \in DOMAIN Bounds : Use(b),
           \A l \in Lists : Counted(l)' => Counted(l) /\ Account(l)' <= Account(l) + All
    PROVE  Bounded' /\ Covered'
<1>1. Events' = Events + 1
  BY EventsCount
<1>2. 1 * All = All
  BY BaselinesFinite
<1> QED BY <1>1, <1>2, OtherStepsCovered

LEMMA RotationStep ==
    ASSUME RotationInv, TypeOK', NoGhosts', Each > 0, [Next]_vars
    PROVE  Bounded' /\ Covered'
<1> USE DEF RotationInv
<1>1. CASE Heartbeat \/ SignIn \/ Alarm \/ (\E n \in Lists : Notify(n)) \/ UNCHANGED vars
  <2>1. waited' = waited /\ counts' = counts
    BY <1>1 DEF Heartbeat, SignIn, Alarm, Notify, vars, past
  <2>2. \A l \in Lists : Counted(l)' => Counted(l) /\ Account(l)' <= Account(l)
    BY <1>1, PromptAddsNothing
  <2> QED BY <2>1, <2>2, QuietCovered
<1>2. CASE Plan
  <2>1. waited' = waited /\ counts' = counts
    BY <1>2 DEF Plan, past
  <2>2. \A l \in Lists : Counted(l)' => Counted(l) /\ Account(l)' <= Account(l)
    BY <1>2, PlanAddsNothing
  <2> QED BY <2>1, <2>2, QuietCovered
<1>3. CASE SyncRoster
  <2>1. waited' = waited /\ counts' = counts
    BY <1>3 DEF SyncRoster
  <2>2. \A l \in Lists : Counted(l)' => Counted(l) /\ Account(l)' <= Account(l)
    BY <1>3, SyncRosterAddsNothing
  <2> QED BY <2>1, <2>2, QuietCovered
<1>4. ASSUME NEW m \in Lists, FailList(m) PROVE Bounded' /\ Covered'
  <2>1. waited' = waited /\ counts' = counts
    BY <1>4 DEF FailList, past
  <2>2. \A l \in Lists : Counted(l)' => Counted(l) /\ Account(l)' <= Account(l)
    BY <1>4, FailAddsNothing
  <2> QED BY <2>1, <2>2, QuietCovered
<1>5. ASSUME NEW m \in Lists, SyncList(m) PROVE Bounded' /\ Covered'
  <2>1. waited' = waited /\ counts' = counts
    BY <1>5 DEF SyncList, past
  <2>2. \A l \in Lists : Counted(l)' => Counted(l) /\ Account(l)' <= Account(l)
    BY <1>5, SyncAddsNothing
  <2> QED BY <2>1, <2>2, QuietCovered
<1>6. CASE \/ Refuse \/ ResyncEverything
           \/ \E n \in Lists : ChangeLists(n) \/ ChangePolicy(n) \/ Resync(n)
  <2>1. waited' = waited /\ \E b \in DOMAIN Bounds : Use(b)
    BY <1>6 DEF Refuse, ResyncEverything, ChangeLists, ChangePolicy, Resync, past, Bounds
  <2>2. \A l \in Lists : Counted(l)' => Counted(l) /\ Account(l)' <= Account(l) + All
    BY <1>6, ChangeAdds
  <2> QED BY <2>1, <2>2, EventCovered
<1>7. ASSUME NEW m \in Lists, DelayList(m) PROVE Bounded' /\ Covered'
  <2>1. waited' = waited /\ \E b \in DOMAIN Bounds : Use(b)
    BY <1>7 DEF DelayList, past, Bounds
  <2>2. \A l \in Lists : Counted(l)' => Counted(l) /\ Account(l)' <= Account(l) + All
    BY <1>7, DelayAdds
  <2> QED BY <2>1, <2>2, EventCovered
<1>8. CASE RosterFails \/ RosterGone
  <2>1. waited' = waited
    BY <1>8 DEF RosterFails, RosterGone, past
  <2>2. CASE Use("faults")
    <3>1. \A l \in Lists : Counted(l)' => Counted(l) /\ Account(l)' <= Account(l) + All
      <4>1. \A l \in Lists : Account(l) \in Int /\ Account(l)' \in Int /\ All \in Nat
        BY AccountType, AccountTypeNext, BaselinesFinite
      <4>2. \A l \in Lists : Counted(l)' =>
                /\ Counted(l)
                /\ Account(l)' <= Account(l) + All \/ Account(l)' <= Account(l)
        BY <1>8, RosterFaultAdds
      <4> QED BY <4>1, <4>2
    <3>2. \E b \in DOMAIN Bounds : Use(b)
      BY <2>2 DEF Bounds
    <3> QED BY <2>1, <3>1, <3>2, EventCovered
  <2>3. CASE counts' = counts
    <3>1. Events' = Events /\ Events \in Nat
      BY <2>3, EventsType DEF Events
    <3>2. Events' # Events + 1
      BY <3>1
    <3>3. \A l \in Lists : Counted(l)' => Counted(l) /\ Account(l)' <= Account(l)
      BY <1>8, <3>2, RosterFaultAdds
    <3> QED BY <2>1, <2>3, <3>3, QuietCovered
  <2> QED BY <1>8, <2>2, <2>3 DEF RosterFails, RosterGone
<1>9. CASE EndCycle
  <2>1. counts' = counts
    BY <1>9 DEF EndCycle
  <2>2. \A l \in Lists : /\ Account(l)' < (1 + Events) * All
                         /\ waited'[l] * Each < (1 + Events) * All
    BY <1>9, EndCycleCovered
  <2> QED BY <2>1, <2>2 DEF Bounded, Covered, Each, All, Baselines, Events
<1> QED BY <1>1, <1>2, <1>3, <1>4, <1>5, <1>6, <1>7, <1>8, <1>9 DEF Next, InCycle

LEMMA RotationInit == Init => RotationInv
<1> SUFFICES ASSUME Init PROVE RotationInv
  OBVIOUS
<1>1. TypeOK /\ CycleShape
  BY TypeInit, ShapeInit
<1>2. ASSUME NEW l \in Lists, Each > 0
      PROVE  Account(l) < (1 + Events) * All /\ waited[l] * Each < (1 + Events) * All
  <2> DEFINE bound == (1 + Events) * All
  <2>1. bound \in Nat /\ bound >= All /\ All \in Nat /\ All >= 1
    BY <1>1, EventsType, BaselinesFinite, AtLeastAll, AllPositive
  <2>2. waited[l] = 0 /\ Paid(l) = 0 /\ Failing(l) = {}
    BY DEF Init, Idle, Paid, Failing
  <2>3. waited[l] * Each = 0
    BY <2>2, EachType
  <2>4. Cardinality(Failing(l)) = 0
    BY <2>2, FS_EmptySet
  <2>5. Cardinality(Debt(l)) \in 0..(All - 1)
    BY <1>1, PartTypes
  <2>6. Account(l) = Cardinality(Debt(l))
    BY <2>1, <2>2, <2>3, <2>4, <2>5 DEF Account
  <2> HIDE DEF bound
  <2>7. Account(l) < bound /\ waited[l] * Each < bound
    BY <2>1, <2>3, <2>5, <2>6
  <2> QED BY <2>7 DEF bound
<1> QED BY <1>1, <1>2 DEF RotationInv, Bounded, Covered

LEMMA NotPositive == ASSUME NEW w \in Nat, NEW c \in Int, c <= 0 PROVE w * c <= 0
OBVIOUS

LEMMA RotationInvImplies == RotationInv => RotationBound
<1> SUFFICES ASSUME RotationInv, NEW l \in Lists
             PROVE  waited[l] * Each < (1 + Events) * All
  BY DEF RotationBound, Each, Events, All
<1>1. CASE Each > 0
  BY <1>1 DEF RotationInv, Bounded
<1>2. CASE ~(Each > 0)
  <2> DEFINE bound == (1 + Events) * All
             spent == waited[l] * Each
  <2>1. bound \in Nat /\ bound >= All /\ All \in Nat /\ All >= 1
    BY EventsType, BaselinesFinite, AtLeastAll, AllPositive DEF RotationInv
  <2>2. spent \in Int /\ spent <= 0
    <3>1. waited[l] \in Nat /\ Each \in Int /\ Each <= 0
      BY <1>2, PartTypes, EachType DEF RotationInv
    <3> QED BY <3>1, NotPositive
  <2> HIDE DEF bound, spent
  <2>3. spent < bound
    BY <2>1, <2>2
  <2> QED BY <2>3 DEF bound, spent
<1> QED BY <1>1, <1>2

\* As long as resync() leaves no list behind that is gone, a list that a cycle
\* did not come to has waited for less than all baselines take, and that once
\* more for each event: what listIdsByPriority() promises, for any lists, sizes,
\* budget and ties, and with a page to spare for each broken list.
THEOREM RotationBounded == Spec /\ []NoGhosts => []RotationBound
<1>1. RotationInv /\ [Next]_vars /\ NoGhosts' => RotationInv'
  <2> SUFFICES ASSUME RotationInv, [Next]_vars, NoGhosts' PROVE RotationInv'
    OBVIOUS
  <2>1. TypeOK' /\ CycleShape'
    BY TypeStep, ShapeStep DEF RotationInv
  <2>2. CASE Each > 0
    BY <2>1, <2>2, RotationStep DEF RotationInv, Each
  <2>3. CASE ~(Each > 0)
    BY <2>1, <2>3 DEF RotationInv, Each
  <2> QED BY <2>2, <2>3
<1> QED BY <1>1, RotationInit, RotationInvImplies, PTL DEF Spec

\* Nothing is left behind where resync() is never called without a list.
LEMMA NeverGhosts == ASSUME ~ResyncAll PROVE Spec => []NoGhosts
<1> DEFINE J == RInv /\ ghosts = {}
<1>1. Init => J
  BY DEF Init, RInv, RosterIsGraphs, UnlinkedIsGhost
<1>2. J /\ [Next]_vars => J'
  <2> SUFFICES ASSUME J, [Next]_vars PROVE ghosts' = {}
    BY RInvStep
  <2> QED BY DEF Next, InCycle, Heartbeat, SignIn, Refuse, Alarm, SyncRoster, RosterGone,
             RosterFails, Plan, EndCycle, SyncList, FailList, DelayList, ResyncEverything,
             ChangeLists, ChangePolicy, Notify, Resync, past, vars
<1>3. J => NoGhosts
  BY DEF RInv, RosterIsGraphs, NoGhosts
<1> QED BY <1>1, <1>2, <1>3, PTL DEF Spec

\* Where resync() is never called without a list, the bound needs no more.
THEOREM RotationWithoutResync == ASSUME ~ResyncAll PROVE Spec => []RotationBound
BY NeverGhosts, RotationBounded, PTL
=============================================================================

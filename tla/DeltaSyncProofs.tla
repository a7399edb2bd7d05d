---------------------------- MODULE DeltaSyncProofs ----------------------------
(* A list that is served from the index is complete up to its cursor, for   *)
(* any number of tasks, changes, pages, errors, expiries, restarts and      *)
(* write-throughs, when resync() does not run during a call and every last  *)
(* page carries its deltaLink.                                              *)
EXTENDS DeltaSync, TLAPS

\* The rows gathered so far, laid over the index, are what Graph had when the
\* round of link began, save for the tasks the round still has to report.
Covers(rows, link) ==
    \A t \in Tasks : graph[t].ver <= link.at =>
        /\ rows[t] # None => rows[t] = Current(t)
        /\ rows[t] = None /\ t \notin link.left => RowRight(t)

Pending == call.pc = "answered" /\ call.answer.kind = "page"

\* Nothing in the index comes from a delta.
Clean == \A t \in Tasks : index[t].by = "delta" => index[t].ver = 0

\* Links are taken from the past, and the cursor never lies after the round.
Ordered ==
    /\ \A t \in Tasks : graph[t].ver <= clock
    /\ sync.delta # None => sync.delta.at <= clock /\ sync.delta.left = {}
    /\ sync.next # None => sync.next.at <= clock
    /\ sync.delta # None /\ sync.next # None => sync.delta.at <= sync.next.at
    /\ call.pc # "idle" =>
          /\ call.url # None => call.url.at <= clock
          /\ call.url # None /\ sync.delta # None => sync.delta.at <= call.url.at
          /\ call.url = None => sync.delta = None /\ sync.next = None
    /\ Pending => /\ call.answer.link # None
                  /\ call.answer.link.at <= clock
                  /\ call.url # None => call.url.at <= call.answer.link.at

\* The durable half: a restart leaves exactly this.
CursorRight ==
    /\ sync.delta # None => Covers(NoRows, sync.delta)
    /\ sync.next # None => Covers(NoRows, sync.next)
    /\ sync.delta = None /\ sync.next = None => Clean

\* The half in memory.
RoundRight ==
    /\ call.pc # "idle" =>
          /\ call.url = None \/ call.url.left = {} => call.rows = NoRows
          /\ call.url # None => Covers(call.rows, call.url)
    /\ Pending => Covers(Gathered, call.answer.link)

Inv == TypeOK /\ Ordered /\ CursorRight /\ RoundRight

-----------------------------------------------------------------------------
(* Type correctness.                                                        *)

LEMMA CurrentType == ASSUME TypeOK, NEW t \in Tasks PROVE Current(t) \in Version
BY DeltaAssumption DEF TypeOK, Current, Version

LEMMA MergeType ==
    ASSUME NEW old \in Report, NEW new \in Report
    PROVE  Merge(old, new) \in Report
BY DEF Merge, Report

LEMMA AskingType ==
    ASSUME TypeOK, call.pc = "asking"
    PROVE  /\ call.url \in Link \cup {None} /\ call.rows \in Report
           /\ call.budget \in 1..MaxPages /\ call.baseline \in BOOLEAN
BY DEF TypeOK, Call, Idle

LEMMA AnsweredType ==
    ASSUME TypeOK, call.pc = "answered"
    PROVE  /\ call.url \in Link \cup {None} /\ call.rows \in Report
           /\ call.budget \in 1..MaxPages /\ call.baseline \in BOOLEAN
           /\ call.answer \in Page \cup Error
BY DEF TypeOK, Call, Idle

LEMMA PageType ==
    ASSUME TypeOK, Pending
    PROVE  /\ call.answer.rows \in Report
           /\ call.answer.link \in Link \cup {None}
           /\ Gathered \in Report
<1>1. call.answer \in Page
  BY AnsweredType DEF Pending, Page, Error
<1>2. call.answer.rows \in Report /\ call.answer.link \in Link \cup {None}
  BY <1>1 DEF Page
<1> QED BY <1>2, AnsweredType, MergeType DEF Gathered, Pending

LEMMA AnswerType ==
    ASSUME TypeOK, call.pc = "asking", NEW a \in Page \cup Error, Answer(a)
    PROVE  call' \in Call
BY AskingType DEF Answer, Call

LEMMA AppliedType ==
    ASSUME TypeOK, NEW rows \in Report
    PROVE  Applied(rows) \in [Tasks -> [ver : Version, by : {"delta", "tool"}]]
BY DEF TypeOK, Applied, Report

LEMMA NoRowsType == NoRows \in Report
BY DEF NoRows, Report

LEMMA EmptyIndexType ==
    [t \in Tasks |-> NoRow] \in [Tasks -> [ver : Version, by : {"delta", "tool"}]]
BY DeltaAssumption DEF NoRow, Version

LEMMA ChangeType ==
    ASSUME TypeOK, NEW t \in Tasks, Change(t)
    PROVE  /\ clock' \in Version /\ epoch' \in 0..MaxEpoch
           /\ graph' \in [Tasks -> [ver : Version, alive : BOOLEAN]]
           /\ Current(t)' \in Version
<1>1. clock' \in Version /\ clock + 1 \in Version /\ epoch' \in 0..MaxEpoch
  BY DeltaAssumption DEF TypeOK, Change, Version
<1>2. graph' \in [Tasks -> [ver : Version, alive : BOOLEAN]]
  BY <1>1 DEF TypeOK, Change
<1>3. Current(t)' \in Version
  BY <1>2, DeltaAssumption DEF Current, Version
<1> QED BY <1>1, <1>2, <1>3

LEMMA TypeStep == TypeOK /\ [Next]_vars => TypeOK'
<1> SUFFICES ASSUME TypeOK, [Next]_vars PROVE TypeOK'
  OBVIOUS
<1>1. CASE Expire
  BY <1>1, DeltaAssumption DEF Expire, TypeOK
<1>2. CASE ServePage
  <2>1. PICK page \in SUBSET Tasks, left \in SUBSET Tasks, at \in Version,
             end \in BOOLEAN :
           Answer([kind |-> "page",
                   rows |-> [t \in Tasks |->
                                IF t \in page THEN Current(t) ELSE None],
                   link |-> IF end THEN None
                            ELSE [at |-> at, left |-> left, epoch |-> epoch]])
    <3> DEFINE at    == IF call.url # None /\ call.url.left # {}
                        THEN call.url.at ELSE clock
               due   == IF call.url = None THEN {t \in Tasks : graph[t].alive}
                        ELSE IF call.url.left # {} THEN call.url.left
                        ELSE {t \in Tasks : graph[t].ver > call.url.at}
    <3>1. at \in Version /\ due \subseteq Tasks
      BY <1>2, AskingType DEF ServePage, TypeOK, Link
    <3> QED BY <1>2, <3>1, DeltaAssumption DEF ServePage
  <2> DEFINE a == [kind |-> "page",
                   rows |-> [t \in Tasks |->
                                IF t \in page THEN Current(t) ELSE None],
                   link |-> IF end THEN None
                            ELSE [at |-> at, left |-> left, epoch |-> epoch]]
  <2>2. a \in Page
    BY CurrentType DEF Page, Report, Link, TypeOK
  <2>3. call' \in Call
    BY <1>2, <2>1, <2>2, AnswerType DEF ServePage
  <2> QED BY <1>2, <2>3 DEF ServePage, upstream, TypeOK
<1>3. CASE ServeGone
  <2>1. call' \in Call
    BY <1>3, AnswerType DEF ServeGone, Error
  <2> QED BY <1>3, <2>1 DEF ServeGone, upstream, TypeOK
<1>4. CASE ServeError
  <2>1. call' \in Call
    BY <1>4, AnswerType DEF ServeError, Error
  <2>2. faults' \in 0..MaxFaults
    BY <1>4, DeltaAssumption DEF ServeError, TypeOK
  <2> QED BY <1>4, <2>1, <2>2 DEF ServeError, upstream, TypeOK
<1>5. CASE Start
  <2>1. call' \in Call
    BY <1>5, NoRowsType DEF Start, TypeOK, Call
  <2> QED BY <1>5, <2>1 DEF Start, upstream, TypeOK
<1>6. CASE Follow
  <2>1. Pending /\ Gathered \in Report /\ call.answer.link \in Link
    BY <1>6, PageType DEF Follow, IsPage, Pending, MorePages
  <2>2. call.budget - 1 \in 1..MaxPages /\ call.baseline \in BOOLEAN
    BY <1>6, <2>1, AnsweredType, DeltaAssumption DEF Follow, Pending
  <2>3. call' \in Call
    BY <1>6, <2>1, <2>2 DEF Follow, Call
  <2> QED BY <1>6, <2>3 DEF Follow, upstream, TypeOK
<1>7. CASE Commit
  <2>1. /\ Pending /\ Gathered \in Report
        /\ call.answer.link \in Link \cup {None}
    BY <1>7, PageType DEF Commit, IsPage, Pending
  <2>2. /\ Advance.delta \in Link \cup {None} /\ Advance.next \in Link \cup {None}
        /\ Advance.status \in {"none", "baseline", "syncing", "idle", "error"}
        /\ Advance = [delta |-> Advance.delta, next |-> Advance.next,
                      status |-> Advance.status]
    BY <2>1 DEF Advance, TypeOK, MorePages
  <2>3. index' \in [Tasks -> [ver : Version, by : {"delta", "tool"}]]
    BY <1>7, <2>1, AppliedType DEF Commit
  <2> QED BY <1>7, <2>2, <2>3 DEF Commit, upstream, TypeOK, Call
<1>8. CASE Gone
  BY <1>8, EmptyIndexType DEF Gone, upstream, TypeOK, Call
<1>9. CASE Failed
  BY <1>9 DEF Failed, upstream, TypeOK, Call
<1>10. CASE Resync
  BY <1>10, EmptyIndexType, DeltaAssumption DEF Resync, upstream, TypeOK, NoSync
<1>11. CASE Restart
  BY <1>11, DeltaAssumption DEF Restart, upstream, TypeOK, Call
<1>12. ASSUME NEW t \in Tasks, ClientChange(t) PROVE TypeOK'
  BY <1>12, ChangeType DEF ClientChange, TypeOK
<1>13. ASSUME NEW t \in Tasks, ToolWrite(t) PROVE TypeOK'
  <2>1. writes' \subseteq [task : Tasks, ver : Version]
    BY <1>13, ChangeType DEF ToolWrite, TypeOK
  <2> QED BY <1>13, <2>1, ChangeType DEF ToolWrite, TypeOK
<1>14. ASSUME NEW w \in writes, WriteThrough(w) PROVE TypeOK'
  <2>1. w.task \in Tasks /\ w.ver \in Version
    BY DEF TypeOK
  <2> QED BY <1>14, <2>1 DEF WriteThrough, upstream, TypeOK
<1>15. ASSUME NEW w \in writes, LoseWrite(w) PROVE TypeOK'
  BY <1>15, DeltaAssumption DEF LoseWrite, upstream, TypeOK
<1>16. CASE UNCHANGED vars
  BY <1>16 DEF vars, TypeOK
<1> QED BY <1>1, <1>2, <1>3, <1>4, <1>5, <1>6, <1>7, <1>8, <1>9, <1>10, <1>11,
           <1>12, <1>13, <1>14, <1>15, <1>16 DEF Next, Graph, Engine

\* The index, the cursor, the call in progress and the write-throughs keep
\* their types: no branch of #syncResource leaves half a cursor or a call
\* beyond its page budget.
THEOREM TypeCorrect == Spec => []TypeOK
<1>1. Init => TypeOK
  BY DeltaAssumption, EmptyIndexType
  DEF Init, TypeOK, Version, NoSync, Call, Idle
<1> QED BY <1>1, TypeStep, PTL DEF Spec

-----------------------------------------------------------------------------
(* A served list is complete.                                               *)

\* Whatever Graph changes is later than every link it has issued.
LEMMA CoversChange ==
    ASSUME TypeOK, NEW t \in Tasks, Change(t), UNCHANGED index,
           NEW rows \in Report, NEW link \in Link, link.at <= clock,
           Covers(rows, link)
    PROVE  Covers(rows, link)'
<1>1. graph'[t].ver = clock + 1
  BY DEF Change, TypeOK
<1>2. \A u \in Tasks : u # t => graph'[u] = graph[u]
  BY DEF Change, TypeOK
<1>3. clock \in Int /\ link.at \in Int
  BY DeltaAssumption DEF TypeOK, Version, Link
<1>4. ~(graph'[t].ver <= link.at)
  BY <1>1, <1>3
<1> QED BY <1>2, <1>4 DEF Covers, RowRight, Current

\* What a tool writes is exempt.
LEMMA CoversWrite ==
    ASSUME TypeOK, NEW w \in writes, WriteThrough(w),
           NEW rows \in Report, NEW link \in Link, Covers(rows, link)
    PROVE  Covers(rows, link)'
<1>1. w.task \in Tasks /\ index'[w.task].by = "tool"
  BY DEF WriteThrough, TypeOK
<1>2. \A u \in Tasks : u # w.task => index'[u] = index[u]
  BY DEF WriteThrough, TypeOK
<1> QED BY <1>1, <1>2 DEF Covers, RowRight, Current, WriteThrough, upstream

\* Applying what was gathered makes the index cover the same link.
LEMMA CoversApplied ==
    ASSUME TypeOK, UNCHANGED graph, NEW rows \in Report, index' = Applied(rows),
           NEW link \in Link, Covers(rows, link)
    PROVE  Covers(NoRows, link)'
BY DeltaAssumption DEF Covers, RowRight, Current, Applied, NoRows, TypeOK, Version

\* Of a later round, and an older cursor: the older one stays covered.
LEMMA CoversOlder ==
    ASSUME TypeOK, UNCHANGED graph, NEW rows \in Report, index' = Applied(rows),
           NEW link \in Link, Covers(rows, link),
           NEW old \in Link, old.left = {}, old.at <= link.at, Covers(NoRows, old)
    PROVE  Covers(NoRows, old)'
<1> SUFFICES ASSUME NEW t \in Tasks, graph[t].ver <= old.at
             PROVE  index'[t].by = "tool" \/ index'[t].ver = Current(t)
  BY DEF Covers, RowRight, NoRows, Current
<1>1. graph[t].ver \in Int /\ old.at \in Int /\ link.at \in Int
  BY DeltaAssumption DEF TypeOK, Version, Link
<1>2. graph[t].ver <= link.at
  BY <1>1
<1>3. CASE rows[t] = None
  BY <1>3 DEF Covers, NoRows, RowRight, Applied
<1>4. CASE rows[t] # None
  BY <1>2, <1>4 DEF Covers, Applied
<1> QED BY <1>3, <1>4

\* A page extends what has been gathered to the link it carries.
LEMMA CoversPage ==
    ASSUME Inv, ServePage, Linkless = FALSE
    PROVE  /\ call'.pc = "answered" /\ call'.answer.kind = "page"
           /\ call'.url = call.url /\ call'.rows = call.rows
           /\ call'.answer.rows \in Report /\ call'.answer.link \in Link
           /\ call'.answer.link.at <= clock
           /\ call.url # None => call.url.at <= call'.answer.link.at
           /\ Covers(Merge(call.rows, call'.answer.rows), call'.answer.link)
<1> DEFINE url   == call.url
           at    == IF url # None /\ url.left # {} THEN url.at ELSE clock
           due   == IF url = None THEN {t \in Tasks : graph[t].alive}
                    ELSE IF url.left # {} THEN url.left
                    ELSE {t \in Tasks : graph[t].ver > url.at}
           rep(page) == [t \in Tasks |->
                            IF t \in page THEN Current(t) ELSE None]
           link(page) == [at |-> at, left |-> due \ page, epoch |-> epoch]
<1>1. PICK page \in SUBSET Tasks :
         Answer([kind |-> "page", rows |-> rep(page), link |-> link(page)])
  <2>1. due \subseteq Tasks
    BY AskingType DEF Inv, ServePage, TypeOK, Link
  <2> QED BY <2>1 DEF ServePage
<1>2. /\ call'.pc = "answered" /\ call'.answer.kind = "page"
      /\ call'.url = url /\ call'.rows = call.rows
      /\ call'.answer.rows = rep(page) /\ call'.answer.link = link(page)
  BY <1>1 DEF Answer
<1>3. /\ call.pc = "asking" /\ url \in Link \cup {None} /\ call.rows \in Report
      /\ clock \in Version /\ epoch \in 0..MaxEpoch
  BY AskingType DEF ServePage, Inv, TypeOK
<1>4. at \in Version /\ due \subseteq Tasks
  BY <1>3 DEF Link
<1>5. rep(page) \in Report /\ link(page) \in Link
  BY <1>3, <1>4, CurrentType DEF Inv, Report, Link
<1>6. at <= clock /\ (url # None => url.at <= at)
  <2>1. clock \in Int
    BY <1>3, DeltaAssumption DEF Version
  <2>2. url # None => url.at <= clock /\ url.at \in Int
    BY <1>3, DeltaAssumption DEF Inv, Ordered, Link, Version
  <2> QED BY <2>1, <2>2
<1>7. Covers(Merge(call.rows, rep(page)), link(page))
  <2> SUFFICES ASSUME NEW t \in Tasks, graph[t].ver <= at
               PROVE  LET m == Merge(call.rows, rep(page))[t]
                      IN  /\ m # None => m = Current(t)
                          /\ m = None /\ t \notin due \ page => RowRight(t)
    BY DEF Covers
  <2>1. CASE t \in page
    <3>1. Current(t) # None
      BY CurrentType, DeltaAssumption DEF Inv, Version
    <3> QED BY <2>1, <3>1 DEF Merge
  <2>2. CASE t \notin page /\ url = None
    <3>1. call.rows = NoRows /\ Clean
      BY <1>3, <2>2 DEF Inv, RoundRight, Ordered, CursorRight
    <3>2. Merge(call.rows, rep(page))[t] = None
      BY <2>2, <3>1 DEF Merge, NoRows
    <3>3. t \notin due => Current(t) = 0
      BY <2>2 DEF Current
    <3>4. index[t].by \in {"delta", "tool"}
      BY DEF Inv, TypeOK
    <3> QED BY <2>2, <3>1, <3>2, <3>3, <3>4 DEF Clean, RowRight
  <2>3. CASE t \notin page /\ url # None /\ url.left # {}
    <3>1. Covers(call.rows, url)
      BY <1>3, <2>3 DEF Inv, RoundRight
    <3> QED BY <2>3, <3>1 DEF Covers, Merge
  <2>4. CASE t \notin page /\ url # None /\ url.left = {}
    <3>1. Covers(call.rows, url)
      BY <1>3, <2>4 DEF Inv, RoundRight
    <3>2. CASE graph[t].ver <= url.at
      BY <2>4, <3>1, <3>2 DEF Covers, Merge
    <3>3. CASE ~(graph[t].ver <= url.at)
      <4>1. graph[t].ver \in Int /\ url.at \in Int
        BY <1>3, <2>4, DeltaAssumption DEF Inv, TypeOK, Version, Link
      <4>2. t \in due
        BY <2>4, <3>3, <4>1
      <4>3. Merge(call.rows, rep(page))[t] = None
        BY <1>3, <2>4 DEF Merge, Inv, RoundRight, NoRows
      <4> QED BY <2>4, <4>2, <4>3
    <3> QED BY <3>2, <3>3
  <2> QED BY <2>1, <2>2, <2>3, <2>4
<1> QED BY <1>2, <1>5, <1>6, <1>7

LEMMA InvStep == Inv /\ [Next]_vars /\ ~ResyncInFlight /\ ~Linkless => Inv'
<1> SUFFICES ASSUME Inv, [Next]_vars, ~ResyncInFlight, ~Linkless PROVE Inv'
  OBVIOUS
<1> USE DEF Inv
<1>0. TypeOK'
  BY TypeStep
<1>a. /\ clock \in Int
      /\ \A t \in Tasks : graph[t].ver \in Int
      /\ \A link \in Link : link.at \in Int
      /\ sync.delta \in Link \cup {None} /\ sync.next \in Link \cup {None}
      /\ call.pc # "idle" => call.url \in Link \cup {None} /\ call.rows \in Report
      /\ call.pc \in {"idle", "asking", "answered"}
      /\ Pending => Gathered \in Report /\ call.answer.rows \in Report
                    /\ call.answer.link \in Link
      /\ NoRows \in Report
  BY DeltaAssumption, PageType, NoRowsType, AskingType, AnsweredType
  DEF TypeOK, Version, Link, Ordered, Call, Idle
<1>1. CASE Expire
  BY <1>0, <1>1 DEF Expire, Ordered, CursorRight, RoundRight, Covers, RowRight,
     Current, Clean, Pending, Gathered
<1>2. CASE ServePage
  <2>1. /\ call'.pc = "answered" /\ call'.answer.kind = "page"
        /\ call'.url = call.url /\ call'.rows = call.rows
        /\ call'.answer.rows \in Report /\ call'.answer.link \in Link
        /\ call'.answer.link.at <= clock
        /\ call.url # None => call.url.at <= call'.answer.link.at
        /\ Covers(Merge(call.rows, call'.answer.rows), call'.answer.link)
    <3>1. Linkless = FALSE
      BY DeltaAssumption
    <3> QED BY <1>2, <3>1, CoversPage
  <2>2. call.pc # "idle" /\ UNCHANGED <<clock, graph, index, sync>>
    BY <1>2 DEF ServePage, upstream
  <2>3. Ordered'
    <3>1. call'.answer.link # None
      BY <2>1, DeltaAssumption DEF Link, Version
    <3> QED BY <2>1, <2>2, <3>1 DEF Ordered
  <2>4. CursorRight'
    BY <2>2 DEF CursorRight, Covers, RowRight, Current, Clean
  <2>5. RoundRight'
    BY <2>1, <2>2 DEF RoundRight, Covers, RowRight, Current, Gathered, Pending
  <2> QED BY <1>0, <2>3, <2>4, <2>5
<1>3. ASSUME call.pc = "asking", UNCHANGED <<clock, graph, index, sync>>,
             NEW k \in {"gone", "throttled", "failed"}, Answer([kind |-> k])
      PROVE  Inv'
  <2>1. /\ call'.pc = "answered" /\ call'.url = call.url /\ call'.rows = call.rows
        /\ ~Pending'
    BY <1>3 DEF Answer, Pending
  <2>2. Ordered'
    BY <1>3, <2>1 DEF Ordered
  <2>3. CursorRight'
    BY <1>3 DEF CursorRight, Covers, RowRight, Current, Clean
  <2>4. RoundRight'
    BY <1>3, <2>1 DEF RoundRight, Covers, RowRight, Current
  <2> QED BY <1>0, <2>2, <2>3, <2>4
<1>4. CASE ServeGone
  BY <1>3, <1>4 DEF ServeGone, upstream
<1>5. CASE ServeError
  BY <1>3, <1>5 DEF ServeError, upstream
<1>6. CASE Start
  <2>1. /\ call'.pc = "asking" /\ call'.rows = NoRows /\ ~Pending'
        /\ call'.url = IF sync.next # None THEN sync.next ELSE sync.delta
        /\ UNCHANGED <<clock, graph, index, sync>>
    BY <1>6 DEF Start, Pending, upstream
  <2>2. Ordered'
    BY <1>a, <2>1 DEF Ordered
  <2>3. CursorRight' /\ RoundRight'
    BY <2>1 DEF CursorRight, RoundRight, Covers, RowRight, Current, Clean, NoRows
  <2> QED BY <1>0, <2>2, <2>3
<1>7. CASE Follow
  <2>1. /\ Pending /\ call.answer.link.left # {} /\ call'.pc = "asking"
        /\ call'.rows = Gathered /\ call'.url = call.answer.link /\ ~Pending'
        /\ UNCHANGED <<clock, graph, index, sync>>
    BY <1>7 DEF Follow, IsPage, MorePages, Pending, upstream
  <2>2. Ordered'
    BY <1>a, <2>1, DeltaAssumption DEF Ordered, Pending
  <2>3. CursorRight'
    BY <2>1 DEF CursorRight, Covers, RowRight, Current, Clean
  <2>4. RoundRight'
    <3>1. PICK link \in Link : link = call.answer.link
      BY <1>a, <2>1
    <3>2. PICK rows \in Report : rows = Gathered
      BY <1>a, <2>1
    <3>3. Covers(rows, link)
      BY <2>1, <3>1, <3>2 DEF RoundRight
    <3>4. Covers(rows, link)'
      BY <2>1, <3>3 DEF Covers, RowRight, Current
    <3>5. call'.url = link /\ call'.rows = rows /\ link.left # {} /\ link # None
      BY <2>1, <3>1, <3>2 DEF Ordered
    <3> QED BY <2>1, <3>4, <3>5 DEF RoundRight
  <2> QED BY <1>0, <2>2, <2>3, <2>4
<1>8. CASE Commit
  <2>0. PICK link \in Link : link = call.answer.link
    BY <1>8, <1>a DEF Commit, IsPage, Pending
  <2>1. /\ Pending /\ Gathered \in Report /\ link = call.answer.link
        /\ index' = Applied(Gathered) /\ sync' = Advance /\ call' = Idle
        /\ UNCHANGED <<clock, graph>> /\ link.at <= clock
        /\ Covers(Gathered, link)
    BY <1>8, <1>a, <2>0 DEF Commit, IsPage, Pending, upstream, Ordered, RoundRight
  <2>2. link # None /\ call'.pc = "idle" /\ ~Pending'
    BY <2>1, DeltaAssumption DEF Ordered, Idle, Pending
  <2>3. Covers(NoRows, link)'
    BY <2>1, CoversApplied
  <2>4. CASE link.left = {}
    <3>1. sync'.delta = link /\ sync'.next = None
      BY <2>1, <2>2, <2>4 DEF Advance, MorePages
    <3>2. Ordered'
      BY <2>1, <2>2, <2>4, <3>1 DEF Ordered
    <3>3. CursorRight' /\ RoundRight'
      BY <2>2, <2>3, <3>1 DEF CursorRight, RoundRight
    <3> QED BY <1>0, <3>2, <3>3
  <2>5. CASE link.left # {}
    <3>1. sync'.delta = sync.delta /\ sync'.next = link
      BY <2>1, <2>2, <2>5, <1>a DEF Advance, MorePages, TypeOK
    <3>2. sync.delta # None => sync.delta.at <= link.at
      <4>1. sync.delta # None => /\ call.url # None
                                 /\ sync.delta.at <= call.url.at
        BY <2>1 DEF Ordered, Pending
      <4>2. call.url # None => call.url.at <= link.at
        BY <2>1 DEF Ordered
      <4> QED BY <4>1, <4>2, <1>a, <2>1 DEF Pending
    <3>3. Ordered'
      BY <2>1, <2>2, <3>1, <3>2 DEF Ordered
    <3>4. sync'.delta # None => Covers(NoRows, sync.delta)'
      <4> SUFFICES ASSUME sync.delta # None PROVE Covers(NoRows, sync.delta)'
        BY <3>1
      <4>1. PICK old \in Link : old = sync.delta
        BY <1>a
      <4>2. old.left = {} /\ old.at <= link.at /\ Covers(NoRows, old)
        BY <3>2, <4>1 DEF Ordered, CursorRight
      <4>3. Covers(NoRows, old)'
        BY <2>1, <4>2, CoversOlder
      <4> QED BY <3>1, <4>1, <4>3
    <3>5. CursorRight' /\ RoundRight'
      BY <2>2, <2>3, <3>1, <3>4 DEF CursorRight, RoundRight
    <3> QED BY <1>0, <3>3, <3>5
  <2> QED BY <2>4, <2>5
<1>9. CASE Gone \/ Resync
  <2>1. /\ index' = [t \in Tasks |-> NoRow] /\ call' = Idle
        /\ sync'.delta = None /\ sync'.next = None
        /\ UNCHANGED <<clock, graph>>
    BY <1>9 DEF Gone, Resync, NoSync, upstream, TypeOK, Call, Idle
  <2>2. call'.pc = "idle" /\ ~Pending' /\ Clean'
    BY <2>1 DEF Idle, Pending, Clean, NoRow
  <2> QED BY <1>0, <2>1, <2>2 DEF Ordered, CursorRight, RoundRight
<1>10. CASE Failed
  <2>1. /\ sync'.delta = sync.delta /\ sync'.next = sync.next /\ call' = Idle
        /\ UNCHANGED <<clock, graph, index>>
    BY <1>10 DEF Failed, upstream, TypeOK
  <2>2. call'.pc = "idle" /\ ~Pending'
    BY <2>1 DEF Idle, Pending
  <2> QED BY <1>0, <2>1, <2>2
          DEF Ordered, CursorRight, RoundRight, Covers, RowRight, Current, Clean
<1>11. CASE Restart
  <2>1. call'.pc = "idle" /\ ~Pending' /\ UNCHANGED <<clock, graph, index, sync>>
    BY <1>11 DEF Restart, Idle, Pending, upstream
  <2> QED BY <1>0, <2>1
          DEF Ordered, CursorRight, RoundRight, Covers, RowRight, Current, Clean
<1>12. ASSUME NEW t \in Tasks, Change(t), UNCHANGED <<index, sync, call>>
       PROVE  Inv'
  <2>1. /\ clock' = clock + 1
        /\ \A u \in Tasks : graph'[u].ver = clock + 1 \/ graph'[u] = graph[u]
    BY <1>12 DEF Change, TypeOK
  <2>2. \A rows \in Report, link \in Link :
           link.at <= clock /\ Covers(rows, link) => Covers(rows, link)'
    BY <1>12, CoversChange
  <2>3. Pending' <=> Pending
    BY <1>12 DEF Pending
  <2>4. Ordered'
    <3>1. /\ \A u \in Tasks : graph'[u].ver <= clock'
          /\ \A link \in Link : link.at <= clock => link.at <= clock'
      BY <1>a, <2>1 DEF Ordered
    <3> QED BY <1>a, <1>12, <2>3, <3>1 DEF Ordered
  <2>5. CursorRight'
    BY <1>a, <1>12, <2>2 DEF CursorRight, Ordered, Clean
  <2>6. RoundRight'
    BY <1>a, <1>12, <2>2, <2>3 DEF RoundRight, Ordered, Gathered, Pending
  <2> QED BY <1>0, <2>4, <2>5, <2>6
<1>13. ASSUME NEW t \in Tasks, ClientChange(t) \/ ToolWrite(t) PROVE Inv'
  BY <1>12, <1>13 DEF ClientChange, ToolWrite
<1>14. ASSUME NEW w \in writes, WriteThrough(w) PROVE Inv'
  <2>1. UNCHANGED <<clock, graph, sync, call>>
    BY <1>14 DEF WriteThrough, upstream
  <2>2. \A rows \in Report, link \in Link :
           Covers(rows, link) => Covers(rows, link)'
    BY <1>14, CoversWrite
  <2>3. Pending' <=> Pending
    BY <2>1 DEF Pending
  <2>4. Clean => Clean'
    BY <1>14 DEF Clean, WriteThrough, TypeOK
  <2>5. Ordered'
    BY <2>1, <2>3 DEF Ordered
  <2>6. CursorRight'
    BY <1>a, <2>1, <2>2, <2>4 DEF CursorRight
  <2>7. RoundRight'
    BY <1>a, <2>1, <2>2, <2>3 DEF RoundRight, Gathered, Pending
  <2> QED BY <1>0, <2>5, <2>6, <2>7
<1>15. ASSUME UNCHANGED <<clock, graph, index, sync, call>> PROVE Inv'
  BY <1>0, <1>15 DEF Ordered, CursorRight, RoundRight, Covers, RowRight,
     Current, Clean, Pending, Gathered
<1>16. ASSUME NEW w \in writes, LoseWrite(w) PROVE Inv'
  BY <1>15, <1>16 DEF LoseWrite, upstream
<1>17. CASE UNCHANGED vars
  BY <1>15, <1>17 DEF vars
<1> QED BY <1>1, <1>2, <1>4, <1>5, <1>6, <1>7, <1>8, <1>9, <1>10, <1>11,
           <1>13, <1>14, <1>16, <1>17 DEF Next, Graph, Engine

\* Every change Graph made before the cursor of a served list is in the
\* index (or a tool wrote that row), however many pages, partial rounds,
\* errors, expired tokens, restarts and write-throughs went before: reads
\* that isListSynced() sends to the index miss nothing a delta round owed them.
THEOREM ServedListComplete ==
    ASSUME ~ResyncInFlight, ~Linkless
    PROVE  Spec => []SyncedIsComplete
<1>1. Init => Inv
  <2> SUFFICES ASSUME Init PROVE Inv
    OBVIOUS
  <2>1. TypeOK
    BY DeltaAssumption, EmptyIndexType
    DEF Init, TypeOK, Version, NoSync, Call, Idle
  <2>2. Ordered /\ CursorRight /\ RoundRight
    BY DeltaAssumption DEF Init, Ordered, CursorRight, RoundRight, Pending, Idle,
       NoSync, Clean, NoRow
  <2> QED BY <2>1, <2>2 DEF Inv
<1>2. Inv => SyncedIsComplete
  BY DEF Inv, Ordered, CursorRight, Covers, SyncedIsComplete, IsListSynced, NoRows
<1>3. Inv /\ [Next]_vars => Inv'
  BY InvStep
<1> QED BY <1>1, <1>2, <1>3, PTL DEF Spec

-----------------------------------------------------------------------------
(* DeltaSync implements ListIndex.                                          *)

\* No row and no write on its way is newer than the task it is of.
Past ==
    /\ \A t \in Tasks : /\ index[t].ver <= graph[t].ver
                        /\ graph[t].alive => graph[t].ver > 0
    /\ \A w \in writes : w.ver <= graph[w.task].ver

\* What a round has gathered may replace the rows there are, at any time before
\* it does: nothing else brings rows of the delta meanwhile.
Sound(rows) ==
    \A t \in Tasks : rows[t] # None =>
        Promise!MayReplace(index[t], [ver |-> rows[t], by |-> "delta"], graph[t])

\* A round owes reports of tasks that were there only.
Owed(link) == \A t \in link.left : graph[t].ver > 0

Newer ==
    /\ sync.next # None => Owed(sync.next)
    /\ call.pc # "idle" => Sound(call.rows) /\ (call.url # None => Owed(call.url))
    /\ Pending => Sound(Gathered) /\ Owed(call.answer.link)

PInv == Inv /\ Past /\ Newer

\* A change makes no report wrong: ids of deleted tasks are not used again.
LEMMA PastChange ==
    ASSUME PInv, NEW t \in Tasks, Change(t), UNCHANGED index
    PROVE  /\ \A u \in Tasks : graph[u].ver <= graph'[u].ver
           /\ \A u \in Tasks : index[u].ver <= graph'[u].ver
           /\ \A u \in Tasks : graph'[u].alive => graph'[u].ver > 0
           /\ \A rows \in Report : Sound(rows) => Sound(rows)'
           /\ \A link \in Link : Owed(link) => Owed(link)'
<1>1. /\ clock \in Nat /\ graph'[t].ver = clock + 1
      /\ \A u \in Tasks : graph[u].ver \in Nat /\ index[u].ver \in Nat
      /\ \A u \in Tasks : graph[u].ver <= clock
  BY DeltaAssumption DEF PInv, Inv, TypeOK, Version, Ordered, Change
<1>2. \A u \in Tasks : u # t => graph'[u] = graph[u]
  BY DEF PInv, Inv, Change, TypeOK
<1>3. \A u \in Tasks : graph[u].ver <= graph'[u].ver
  BY <1>1, <1>2
<1>0. \A u \in Tasks : graph'[u].ver \in Nat
  BY <1>1, <1>2
<1>4. \A u \in Tasks : index[u].ver <= graph'[u].ver
  BY <1>1, <1>2 DEF PInv, Past
<1>5. \A u \in Tasks : graph'[u].alive => graph'[u].ver > 0
  BY <1>1, <1>2 DEF PInv, Past
<1>6. ASSUME NEW rows \in Report, Sound(rows) PROVE Sound(rows)'
  <2> SUFFICES ASSUME NEW u \in Tasks, rows[u] # None
               PROVE  Promise!MayReplace(index[u], [ver |-> rows[u], by |-> "delta"], graph'[u])
    BY DEF Sound
  <2>1. rows[u] \in Nat
    BY DeltaAssumption DEF Report, Version
  <2>2. Promise!MayReplace(index[u], [ver |-> rows[u], by |-> "delta"], graph[u])
    BY <1>6 DEF Sound
  <2>3. CASE u # t
    BY <1>2, <2>2, <2>3
  <2>4. CASE u = t
    <3>1. rows[u] # 0
      BY <1>1, <2>2, <2>4 DEF Change, Promise!MayReplace
    <3>2. rows[u] <= graph'[u].ver
      BY <1>1, <2>1, <2>2, <2>4 DEF Promise!MayReplace
    <3> QED BY <2>2, <3>1, <3>2 DEF Promise!MayReplace
  <2> QED BY <2>3, <2>4
<1>7. ASSUME NEW link \in Link, Owed(link) PROVE Owed(link)'
  <2>1. \A u \in link.left : u \in Tasks
    BY DEF Link
  <2> QED BY <1>0, <1>1, <1>3, <1>7, <2>1 DEF Owed
<1> QED BY <1>3, <1>4, <1>5, <1>6, <1>7

\* What a page reports may replace the row there is, and what its link leaves to
\* report was there.
LEMMA SoundPage ==
    ASSUME PInv, ServePage, Linkless = FALSE
    PROVE  /\ Sound(Merge(call.rows, call'.answer.rows))
           /\ Owed(call'.answer.link)
<1> DEFINE url   == call.url
           at    == IF url # None /\ url.left # {} THEN url.at ELSE clock
           due   == IF url = None THEN {t \in Tasks : graph[t].alive}
                    ELSE IF url.left # {} THEN url.left
                    ELSE {t \in Tasks : graph[t].ver > url.at}
           fresh == {t \in Tasks : graph[t].ver > at}
           rep(page) == [t \in Tasks |->
                            IF t \in page THEN Current(t) ELSE None]
           link(page) == [at |-> at, left |-> due \ page, epoch |-> epoch]
<1>1. /\ call.pc = "asking" /\ url \in Link \cup {None} /\ call.rows \in Report
      /\ clock \in Nat /\ (url # None => url.at \in Nat)
      /\ \A t \in Tasks : graph[t].ver \in Nat /\ graph[t].alive \in BOOLEAN
      /\ \A t \in Tasks : index[t].ver \in Nat
  BY AskingType, DeltaAssumption DEF ServePage, PInv, Inv, TypeOK, Link, Version
<1>2. PICK page \in SUBSET (due \cup fresh) :
         Answer([kind |-> "page", rows |-> rep(page), link |-> link(page)])
  <2>1. PICK page \in SUBSET (due \cup fresh), end \in {FALSE, Linkless} :
           Answer([kind |-> "page", rows |-> rep(page),
                   link |-> IF end THEN None ELSE link(page)])
    BY Zenon DEF ServePage
  <2>2. ~end
    OBVIOUS
  <2> QED BY <2>1, <2>2
<1>3. call'.answer.rows = rep(page) /\ call'.answer.link = link(page)
  BY <1>2 DEF Answer
<1>4. at \in Nat
  BY <1>1
<1>5. \A t \in due \cup fresh : t \in Tasks /\ graph[t].ver > 0
  <2>1. \A t \in fresh : t \in Tasks /\ graph[t].ver > 0
    BY <1>1, <1>4
  <2>2. CASE url = None
    BY <2>1, <2>2 DEF PInv, Past
  <2>3. CASE url # None /\ url.left # {}
    <3>1. due = url.left /\ url.left \subseteq Tasks /\ Owed(url)
      BY <1>1, <2>3 DEF Link, PInv, Newer
    <3> QED BY <2>1, <3>1 DEF Owed
  <2>4. CASE url # None /\ url.left = {}
    <3>1. due = {t \in Tasks : graph[t].ver > url.at}
      BY <2>4
    <3>2. \A t \in due : t \in Tasks /\ graph[t].ver > url.at
      BY Zenon, <3>1
    <3>3. url.at \in Nat /\ \A t \in Tasks : graph[t].ver \in Nat
      BY <1>1, <2>4
    <3>4. \A t \in due : t \in Tasks /\ graph[t].ver > 0
      BY ONLY <3>2, <3>3
    <3> QED BY Zenon, <2>1, <3>4
  <2> QED BY <2>2, <2>3, <2>4
<1>6. Owed(link(page))
  BY <1>5 DEF Owed
<1>7. Sound(Merge(call.rows, rep(page)))
  <2> SUFFICES ASSUME NEW t \in Tasks, Merge(call.rows, rep(page))[t] # None
               PROVE  Promise!MayReplace(index[t],
                          [ver |-> Merge(call.rows, rep(page))[t], by |-> "delta"], graph[t])
    BY DEF Sound
  <2>1. Current(t) \in Nat /\ Current(t) # None
    BY CurrentType, DeltaAssumption DEF PInv, Inv, Version
  <2>2. CASE t \in page
    <3>1. Merge(call.rows, rep(page))[t] = Current(t)
      BY <2>1, <2>2 DEF Merge
    <3>2. graph[t].ver > 0 /\ index[t].ver <= graph[t].ver
      BY <1>5, <2>2 DEF PInv, Past
    <3> QED BY <1>1, <3>1, <3>2 DEF Current, Promise!MayReplace
  <2>3. CASE t \notin page
    <3>1. Merge(call.rows, rep(page))[t] = call.rows[t]
      BY <2>3 DEF Merge
    <3>2. Sound(call.rows)
      BY <1>1 DEF PInv, Newer
    <3> QED BY <3>1, <3>2 DEF Sound
  <2> QED BY <2>2, <2>3
<1> QED BY <1>3, <1>6, <1>7

LEMMA PInvStep ==
    ASSUME PInv, [Next]_vars, ~ResyncInFlight, ~Linkless
    PROVE  PInv'
<1> USE DEF PInv
<1>0. Inv'
  BY InvStep
<1>a. /\ \A t \in Tasks : graph[t].ver \in Nat /\ index[t].ver \in Nat
      /\ sync.delta \in Link \cup {None} /\ sync.next \in Link \cup {None}
      /\ call.pc # "idle" => call.url \in Link \cup {None} /\ call.rows \in Report
      /\ Pending => Gathered \in Report /\ call.answer.link \in Link
      /\ Pending => call.pc # "idle"
  BY DeltaAssumption, PageType, AskingType, AnsweredType
  DEF Inv, TypeOK, Version, Ordered, Call, Idle, Pending
<1>b. Linkless = FALSE
  BY DeltaAssumption
<1>1. ASSUME UNCHANGED <<graph, index>>, writes' \subseteq writes, ~Pending',
             sync'.next = sync.next \/ sync'.next = None,
             call'.pc # "idle" =>
                 /\ call.pc # "idle"
                 /\ call'.url = call.url /\ call'.rows = call.rows
      PROVE  PInv'
  <2>1. Past'
    BY <1>1 DEF Past
  <2>2. Newer'
    BY <1>1 DEF Newer, Sound, Owed
  <2> QED BY <1>0, <2>1, <2>2
<1>2. ASSUME UNCHANGED <<graph, index, sync, call>>, writes' \subseteq writes
      PROVE  PInv'
  <2>1. Past'
    BY <1>2 DEF Past
  <2>2. Newer'
    BY <1>2 DEF Newer, Sound, Owed, Pending, Gathered
  <2> QED BY <1>0, <2>1, <2>2
<1>3. CASE ServePage
  <2>1. /\ call'.url = call.url /\ call'.rows = call.rows
        /\ Sound(Merge(call.rows, call'.answer.rows)) /\ Owed(call'.answer.link)
    BY <1>3, <1>b, CoversPage, SoundPage
  <2>2. call.pc # "idle" /\ UNCHANGED <<graph, index, sync, writes>>
    BY <1>3 DEF ServePage, upstream
  <2>3. Past'
    BY <2>2 DEF Past
  <2>4. Newer'
    BY <2>1, <2>2 DEF Newer, Sound, Owed, Gathered
  <2> QED BY <1>0, <2>3, <2>4
<1>4. CASE ServeGone \/ ServeError
  <2>1. /\ call.pc = "asking" /\ UNCHANGED <<graph, index, sync, writes>>
        /\ call'.url = call.url /\ call'.rows = call.rows /\ ~Pending'
    BY <1>4 DEF ServeGone, ServeError, Answer, Pending, upstream
  <2> QED BY <1>1, <2>1
<1>5. CASE Start
  <2>1. /\ call'.rows = NoRows /\ ~Pending' /\ UNCHANGED <<graph, index, sync, writes>>
        /\ call'.url = IF sync.next # None THEN sync.next ELSE sync.delta
    BY <1>5 DEF Start, Pending, upstream
  <2>2. Past'
    BY <2>1 DEF Past
  <2>3. Sound(call.rows)'
    BY <2>1 DEF Sound, NoRows
  <2>4. call'.url # None => Owed(call.url)'
    BY <2>1 DEF Newer, Owed, Inv, Ordered
  <2>5. Newer'
    BY <2>1, <2>3, <2>4 DEF Newer, Owed
  <2> QED BY <1>0, <2>2, <2>5
<1>6. CASE Follow
  <2>1. /\ Pending /\ ~Pending' /\ UNCHANGED <<graph, index, sync, writes>>
        /\ call'.rows = Gathered /\ call'.url = call.answer.link
    BY <1>6 DEF Follow, IsPage, Pending, upstream
  <2>2. Past'
    BY <2>1 DEF Past
  <2>3. PICK rows : rows = Gathered /\ Sound(rows)
    BY <2>1 DEF Newer
  <2>4. Sound(rows)'
    BY <2>1, <2>3 DEF Sound
  <2>5. Sound(call.rows)' /\ Owed(call.url)'
    BY <2>1, <2>3, <2>4 DEF Newer, Owed
  <2>6. Newer'
    BY <2>1, <2>5 DEF Newer, Owed
  <2> QED BY <1>0, <2>2, <2>6
<1>7. CASE Commit
  <2>1. /\ Pending /\ Gathered \in Report /\ Sound(Gathered) /\ call.answer.link \in Link
        /\ Owed(call.answer.link) /\ call.answer.link # None
        /\ index' = Applied(Gathered) /\ sync' = Advance
        /\ call'.pc = "idle" /\ ~Pending' /\ UNCHANGED <<graph, writes>>
    BY <1>7, <1>a DEF Commit, IsPage, Pending, upstream, Newer, Idle, Inv, Ordered
  <2>2. ASSUME NEW t \in Tasks PROVE index'[t].ver <= graph[t].ver
    <3>1. CASE Gathered[t] = None
      BY <2>1, <3>1 DEF Applied, Past
    <3>2. CASE Gathered[t] # None
      BY <2>1, <3>2 DEF Applied, Sound, Promise!MayReplace
    <3> QED BY <3>1, <3>2
  <2>3. Past'
    BY <2>1, <2>2 DEF Past
  <2>4. sync'.next = None \/ sync'.next = call.answer.link
    BY <1>a, <2>1 DEF Advance, MorePages, Inv, TypeOK
  <2>5. Newer'
    BY <2>1, <2>4 DEF Newer, Owed
  <2> QED BY <1>0, <2>3, <2>5
<1>8. CASE Gone \/ Resync
  <2>1. /\ index' = [t \in Tasks |-> NoRow] /\ call'.pc = "idle" /\ ~Pending'
        /\ sync'.next = None /\ UNCHANGED <<graph, writes>>
    BY <1>8 DEF Gone, Resync, NoSync, upstream, Inv, TypeOK, Call, Idle, Pending
  <2>2. Past'
    BY <1>a, <2>1 DEF Past, NoRow
  <2>3. Newer'
    BY <2>1 DEF Newer
  <2> QED BY <1>0, <2>2, <2>3
<1>9. CASE Failed \/ Restart
  <2>1. /\ call'.pc = "idle" /\ ~Pending' /\ UNCHANGED <<graph, index, writes>>
        /\ sync'.next = sync.next
    BY <1>9 DEF Failed, Restart, Idle, Pending, upstream, Inv, TypeOK
  <2> QED BY <1>1, <2>1
<1>10. ASSUME NEW t \in Tasks, Change(t), UNCHANGED <<index, sync, call>>,
              \A w \in writes' : w \in writes \/ w = [task |-> t, ver |-> Current(t)']
       PROVE  PInv'
  <2>1. /\ \A u \in Tasks : graph[u].ver <= graph'[u].ver
        /\ \A u \in Tasks : index[u].ver <= graph'[u].ver
        /\ \A u \in Tasks : graph'[u].alive => graph'[u].ver > 0
        /\ \A rows \in Report : Sound(rows) => Sound(rows)'
        /\ \A link \in Link : Owed(link) => Owed(link)'
    BY <1>10, PastChange
  <2>2. /\ \A u \in Tasks : graph'[u].ver \in Nat
        /\ \A w \in writes : w.task \in Tasks /\ w.ver \in Nat
    BY <1>0, DeltaAssumption DEF Inv, TypeOK, Version
  <2>3. ASSUME NEW w \in writes' PROVE w.ver <= graph'[w.task].ver
    <3>1. CASE w \in writes
      BY <1>a, <2>1, <2>2, <3>1 DEF Past
    <3>2. CASE w = [task |-> t, ver |-> Current(t)']
      BY <2>2, <3>2 DEF Current
    <3> QED BY <1>10, <3>1, <3>2
  <2>4. Past'
    BY <1>10, <2>1, <2>3 DEF Past
  <2>5. (Pending' <=> Pending) /\ Gathered' = Gathered
    BY <1>10 DEF Pending, Gathered
  <2>6. Newer'
    BY <1>10, <1>a, <2>1, <2>5 DEF Newer
  <2> QED BY <1>0, <2>4, <2>6
<1>11. ASSUME NEW t \in Tasks, ClientChange(t) \/ ToolWrite(t) PROVE PInv'
  BY <1>10, <1>11 DEF ClientChange, ToolWrite
<1>12. ASSUME NEW w \in writes, WriteThrough(w) PROVE PInv'
  <2>1. /\ index' = [index EXCEPT ![w.task] = [ver |-> w.ver, by |-> "tool"]]
        /\ writes' \subseteq writes /\ UNCHANGED <<graph, sync, call>>
    BY <1>12 DEF WriteThrough, upstream
  <2>2. \A t \in Tasks : \/ index'[t] = index[t]
                         \/ index'[t] = [ver |-> w.ver, by |-> "tool"] /\ t = w.task
    <3>1. index \in [Tasks -> [ver : Version, by : {"delta", "tool"}]]
      BY DEF Inv, TypeOK
    <3> QED BY ONLY <2>1, <3>1
  <2>3. Past'
    BY <2>1, <2>2 DEF Past
  <2>4. ASSUME NEW rows, Sound(rows) PROVE Sound(rows)'
    <3> SUFFICES ASSUME NEW t \in Tasks, rows[t] # None
                 PROVE  Promise!MayReplace(index'[t], [ver |-> rows[t], by |-> "delta"], graph[t])
      BY <2>1 DEF Sound
    <3>1. Promise!MayReplace(index[t], [ver |-> rows[t], by |-> "delta"], graph[t])
      BY <2>4 DEF Sound
    <3> QED BY <2>2, <3>1 DEF Promise!MayReplace
  <2>5. (Pending' <=> Pending) /\ Gathered' = Gathered
    BY <2>1 DEF Pending, Gathered
  <2>6. Newer'
    BY <2>1, <2>4, <2>5 DEF Newer, Owed
  <2> QED BY <1>0, <2>3, <2>6
<1>13. ASSUME NEW w \in writes, LoseWrite(w) PROVE PInv'
  BY <1>2, <1>13 DEF LoseWrite, upstream
<1>14. CASE Expire
  BY <1>2, <1>14 DEF Expire
<1>15. CASE UNCHANGED vars
  BY <1>2, <1>15 DEF vars
<1> QED BY <1>3, <1>4, <1>5, <1>6, <1>7, <1>8, <1>9, <1>11, <1>12, <1>13, <1>14, <1>15
        DEF Next, Graph, Engine

\* Every step of the pages, links and retries is a step of the promise, or none.
LEMMA StepKeepsPromise ==
    ASSUME PInv, PInv', [Next]_vars, ~ResyncInFlight, ~Linkless
    PROVE  [Promise!Next]_(Promise!vars)
<1> DEFINE upto == IF sync.delta = None THEN None ELSE sync.delta.at
<1> USE DEF PInv
<1>1. ASSUME UNCHANGED <<clock, graph, index>>, sync'.delta = sync.delta
      PROVE  UNCHANGED Promise!vars
  BY <1>1 DEF Promise!vars
<1>2. CASE Commit
  <2>1. /\ Pending /\ Gathered \in Report /\ Sound(Gathered) /\ call.answer.link \in Link
        /\ index' = Applied(Gathered) /\ sync' = Advance /\ UNCHANGED <<clock, graph>>
        /\ call.answer.link # None /\ call.pc # "idle"
    BY <1>2, PageType DEF Commit, IsPage, Pending, upstream, Newer, Inv, Ordered
  <2>2. /\ clock \in Nat /\ \A t \in Tasks : index'[t].ver <= clock
        /\ index' \in [Tasks -> [ver : Nat, by : {"delta", "tool"}]]
    <3>1. /\ clock \in Nat /\ index' \in [Tasks -> [ver : Nat, by : {"delta", "tool"}]]
          /\ \A t \in Tasks : graph[t].ver \in Nat /\ graph[t].ver <= clock
      BY DeltaAssumption DEF Inv, TypeOK, Version, Ordered
    <3>2. \A t \in Tasks : index'[t].ver <= graph[t].ver
      BY <2>1 DEF Past
    <3> QED BY <3>1, <3>2
  <2>3. index' \in [Tasks -> [ver : 0..clock, by : {"delta", "tool"}]]
    BY <2>2
  <2>4. ASSUME NEW t \in Tasks
        PROVE  index'[t] = index[t] \/ Promise!MayReplace(index[t], index'[t], graph[t])
    <3>1. CASE Gathered[t] = None
      BY <2>1, <3>1 DEF Applied
    <3>2. CASE Gathered[t] # None
      BY <2>1, <3>2 DEF Applied, Sound
    <3> QED BY <3>1, <3>2
  <2>5. upto' \in 0..clock \cup {None}
    BY <2>1, DeltaAssumption DEF Inv, Ordered, TypeOK, Link, Version
  <2>6. upto # None => upto' # None /\ upto <= upto'
    <3> SUFFICES ASSUME sync.delta # None
                 PROVE  sync'.delta # None /\ sync'.delta.at # None /\ sync.delta.at <= sync'.delta.at
      OBVIOUS
    <3>1. sync.delta \in Link /\ sync.delta.at \in Nat
      BY DeltaAssumption DEF Inv, TypeOK, Link, Version
    <3>2. CASE MorePages
      <4>1. sync'.delta = sync.delta
        BY <2>1, <3>2 DEF Advance, Inv, TypeOK
      <4>2. sync.delta.at # None
        BY <3>1, DeltaAssumption
      <4> QED BY <3>1, <4>1, <4>2
    <3>3. CASE ~MorePages
      <4>1. sync'.delta = call.answer.link
        BY <2>1, <3>3 DEF Advance
      <4>2. /\ call.url # None /\ sync.delta.at <= call.url.at
            /\ call.url.at <= call.answer.link.at
        BY <2>1 DEF Inv, Ordered
      <4>3. call.url.at \in Nat /\ call.answer.link.at \in Nat
        BY <2>1, <4>2, AnsweredType, DeltaAssumption DEF Inv, Pending, Link, Version
      <4> QED BY <2>1, <3>1, <4>1, <4>2, <4>3, DeltaAssumption
    <3> QED BY <3>2, <3>3
  <2>7. Promise!Complete(index', upto')
    <3>1. SyncedIsComplete'
      BY DEF Inv, Ordered, CursorRight, Covers, SyncedIsComplete, IsListSynced, NoRows
    <3> QED BY <2>1, <3>1 DEF SyncedIsComplete, IsListSynced, RowRight, Current, Promise!Complete
  <2>8. Promise!CatchUp
    BY <2>1, <2>3, <2>4, <2>5, <2>6, <2>7 DEF Promise!CatchUp
  <2> QED BY <2>8 DEF Promise!Next
<1>3. CASE Gone \/ Resync
  <2>1. /\ index' = [t \in Tasks |-> NoRow] /\ sync'.delta = None
        /\ UNCHANGED <<clock, graph>>
    BY <1>3 DEF Gone, Resync, NoSync, upstream
  <2>2. Promise!Purge
    BY <2>1 DEF Promise!Purge, Promise!NoRow, NoRow
  <2> QED BY <2>2 DEF Promise!Next
<1>4. ASSUME NEW t \in Tasks, ClientChange(t) \/ ToolWrite(t)
      PROVE  Promise!Next
  <2>1. Change(t) /\ UNCHANGED <<index, sync>>
    BY <1>4 DEF ClientChange, ToolWrite
  <2>2. Promise!Change(t)
    BY <2>1 DEF Change, Promise!Change
  <2> QED BY <2>2 DEF Promise!Next
<1>5. ASSUME NEW w \in writes, WriteThrough(w) PROVE Promise!Next
  <2>1. /\ w.task \in Tasks /\ w.ver \in 0..graph[w.task].ver
        /\ index' = [index EXCEPT ![w.task] = [ver |-> w.ver, by |-> "tool"]]
        /\ UNCHANGED <<clock, graph, sync>>
    BY <1>5, DeltaAssumption DEF WriteThrough, upstream, Past, Inv, TypeOK, Version
  <2>2. Promise!Note(w.task)
    BY <2>1 DEF Promise!Note
  <2> QED BY <2>1, <2>2 DEF Promise!Next
<1>6. CASE Expire \/ ServePage \/ ServeGone \/ ServeError \/ Start \/ Follow \/ Failed \/ Restart
  <2>1. UNCHANGED <<clock, graph, index>> /\ sync'.delta = sync.delta
    BY <1>6 DEF Expire, ServePage, ServeGone, ServeError, Start, Follow, Failed, Restart,
       upstream, Inv, TypeOK
  <2> QED BY <1>1, <2>1
<1>7. ASSUME NEW w \in writes, LoseWrite(w) PROVE UNCHANGED Promise!vars
  BY <1>1, <1>7 DEF LoseWrite, upstream
<1>8. CASE UNCHANGED vars
  BY <1>1, <1>8 DEF vars
<1> QED BY <1>2, <1>3, <1>4, <1>5, <1>6, <1>7, <1>8 DEF Next, Graph, Engine

\* However pages, links, retries, expiries, restarts and write-throughs
\* interleave, the index behaves as ListIndex says: what the delta brought is
\* never replaced by anything older nor dropped while the task exists, unless
\* the list is purged, and the moment a served list is complete up to never
\* goes back.
THEOREM ListIndexImplemented ==
    ASSUME ~ResyncInFlight, ~Linkless
    PROVE  Spec => KeepsPromise
<1>1. Init => PInv /\ Promise!Init
  <2> SUFFICES ASSUME Init PROVE PInv /\ Promise!Init
    OBVIOUS
  <2>1. TypeOK
    BY DeltaAssumption, EmptyIndexType
    DEF Init, TypeOK, Version, NoSync, Call, Idle
  <2>2. Ordered /\ CursorRight /\ RoundRight
    BY DeltaAssumption DEF Init, Ordered, CursorRight, RoundRight, Pending, Idle,
       NoSync, Clean, NoRow
  <2>3. Past /\ Newer
    BY DEF Init, Past, Newer, Pending, Idle, NoSync, NoRow
  <2>4. Promise!Init
    BY DEF Init, NoSync, NoRow, Promise!Init, Promise!NoRow
  <2> QED BY <2>1, <2>2, <2>3, <2>4 DEF Inv, PInv
<1>2. PInv /\ [Next]_vars => PInv'
  BY PInvStep
<1>3. PInv /\ PInv' /\ [Next]_vars => [Promise!Next]_(Promise!vars)
  BY StepKeepsPromise
<1> QED BY <1>1, <1>2, <1>3, PTL DEF Spec, KeepsPromise, Promise!Spec
=============================================================================

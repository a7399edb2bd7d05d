------------------------------ MODULE OrderProofs ------------------------------
(***************************************************************************)
(* What the tools promise that read tasks in an order, for any number of   *)
(* tasks, writes and moves.                                                *)
(*                                                                         *)
(* QueryPages: a client that walks the pages reads each task that nobody   *)
(* writes meanwhile, and that passes the filters, exactly once.  The       *)
(* invariant says where in the order the client is.                        *)
(*                                                                         *)
(* ManualOrder: a move puts the task where the caller asked, whatever the  *)
(* orders of the others are.  The invariant says that the order in hand    *)
(* fits the tasks that were read; that there is always one that fits       *)
(* follows from finitely many tasks having a highest and a lowest order.   *)
(***************************************************************************)
EXTENDS Tools, FiniteSetTheorems, TLAPS

-----------------------------------------------------------------------------
(* A behaviour is of one component, and its steps are that component's.      *)

LEMMA Same == [Next]_vars => which' = which
BY DEF Next, vars, OnGraph, OnMove, OnTask, OnConfig, OnQuery, OnChecklist, OnMyDay,
       OnOrder

LEMMA QueryStep == ASSUME [Next]_vars, which = "query" PROVE [Q!Next]_(Q!vars)
<1>1. CASE Next
  BY <1>1 DEF Next, Q!Next, OnGraph, OnMove, OnTask, OnConfig, OnQuery, OnChecklist, OnMyDay,
         OnOrder
<1>2. CASE UNCHANGED vars
  BY <1>2 DEF vars, Q!vars
<1> QED BY <1>1, <1>2

LEMMA OrderStep == ASSUME [Next]_vars, which = "order" PROVE [O!Next]_(O!vars)
<1>1. CASE Next
  BY <1>1 DEF Next, O!Next, OnGraph, OnMove, OnTask, OnConfig, OnQuery, OnChecklist, OnMyDay,
         OnOrder
<1>2. CASE UNCHANGED vars
  BY <1>2 DEF vars, O!vars
<1> QED BY <1>1, <1>2

-----------------------------------------------------------------------------
(* The pages of a query.                                                     *)

QueryFields == {"pc", "lists", "open", "asked", "limit", "cursor", "read", "written"}
Paging      == {"more", "end"}
Single      == {"cold", "recent", "found"}

QueryTypes ==
    /\ index \in [Numbered -> Q!Row \cup {None}] /\ time \in 1..MaxTime
    /\ DOMAIN call = QueryFields /\ call.pc \in {"idle"} \cup Paging \cup Single
    /\ call.read \in Seq(Numbered)
    /\ call.pc = "idle" => call.read = <<>>
    /\ call.pc = "more" => call.cursor \in Q!Keys /\ call.limit \in Limits /\ call.lists # {}
    /\ call.pc = "end" => call.cursor = None

\* Where the client is in the order: what has passed the filters up to there, and
\* was not written since the first page, has been read once, and nothing else.
Passed(t) == call.lists # {} /\ Q!Passes(t, call.lists, call.open)
             /\ (call.cursor # None => ~Q!Before(call.cursor, Q!Key(t)))
Paged == call.pc \in Paging =>
            \A t \in Numbered \ call.written : IF Passed(t) THEN Q!Once(t) ELSE ~Q!Read(t)

QueryOk == QueryTypes /\ Paged /\ (call.pc \in Single => Q!NothingElse)

\* Before is a strict order of keys, total up to the id.
LEMMA BeforeIsOrder ==
    ASSUME NEW x \in Q!Keys, NEW y \in Q!Keys, NEW z \in Q!Keys
    PROVE  /\ ~Q!Before(x, x)
           /\ Q!Before(x, y) /\ Q!Before(y, z) => Q!Before(x, z)
           /\ x.t # y.t => Q!Before(x, y) \/ Q!Before(y, x)
<1>1. \A k \in Q!Keys : k.t \in Nat /\ (k.m = None \/ k.m \in Nat)
  <2> SUFFICES ASSUME NEW k \in Q!Keys PROVE k.t \in Nat /\ (k.m = None \/ k.m \in Nat)
    OBVIOUS
  <2>1. k.m \in 1..MaxTime \cup {None} /\ k.t \in Numbered
    BY DEF Q!Keys
  <2>2. k.m = None \/ k.m \in Nat
    BY <2>1, QueryAssumption
  <2> QED BY <2>1, <2>2, QueryAssumption
<1>2. ~Q!Before(x, x)
  BY <1>1 DEF Q!Before
<1>3. Q!Before(x, y) /\ Q!Before(y, z) => Q!Before(x, z)
  BY <1>1 DEF Q!Before
<1>4. x.t # y.t => Q!Before(x, y) \/ Q!Before(y, x)
  <2>1. CASE x.m = None
    BY <1>1, <2>1 DEF Q!Before
  <2>2. CASE x.m # None /\ y.m = None
    BY <1>1, <2>2 DEF Q!Before
  <2>3. CASE x.m # None /\ y.m # None
    BY <1>1, <2>3 DEF Q!Before
  <2> QED BY <2>1, <2>2, <2>3
<1> QED BY <1>2, <1>3, <1>4

\* The key of a row that is there.
LEMMA KeyIs ==
    ASSUME QueryTypes, NEW t \in Numbered, index[t] # None
    PROVE  Q!Key(t) \in Q!Keys /\ Q!Key(t).t = t /\ Q!Key(t) # None
BY QueryAssumption DEF QueryTypes, Q!Row, Q!Keys, Q!Key

\* What a page adds to what was read.
OnceIn(s, t) == \E i \in DOMAIN s : \A j \in DOMAIN s : s[j] = t <=> j = i
ReadIn(s, t) == \E i \in DOMAIN s : s[i] = t

LEMMA ReadOn ==
    ASSUME NEW read \in Seq(Numbered), NEW page \in Seq(Numbered), NEW t
    PROVE  /\ ReadIn(read \o page, t) <=> ReadIn(read, t) \/ ReadIn(page, t)
           /\ OnceIn(read, t) /\ ~ReadIn(page, t) => OnceIn(read \o page, t)
           /\ ~ReadIn(read, t) /\ OnceIn(page, t) => OnceIn(read \o page, t)
<1> DEFINE all == read \o page
<1>1. /\ all \in Seq(Numbered) /\ DOMAIN read = 1..Len(read) /\ DOMAIN page = 1..Len(page)
      /\ DOMAIN all = 1..(Len(read) + Len(page)) /\ Len(read) \in Nat /\ Len(page) \in Nat
      /\ \A i \in DOMAIN read : all[i] = read[i] /\ i \in DOMAIN all
      /\ \A i \in DOMAIN page : all[Len(read) + i] = page[i] /\ Len(read) + i \in DOMAIN all
      /\ \A k \in DOMAIN all : k \in DOMAIN read \/ (k - Len(read) \in DOMAIN page /\ all[k] = page[k - Len(read)])
  OBVIOUS
<1> HIDE DEF all
<1>2. ReadIn(all, t) => ReadIn(read, t) \/ ReadIn(page, t)
  BY <1>1 DEF ReadIn
<1>3. ReadIn(read, t) => ReadIn(all, t)
  BY <1>1 DEF ReadIn
<1>4. ASSUME NEW i \in DOMAIN page, page[i] = t PROVE ReadIn(all, t)
  BY <1>1, <1>4 DEF ReadIn
<1>5. ASSUME OnceIn(read, t), ~ReadIn(page, t) PROVE OnceIn(all, t)
  <2>1. PICK i \in DOMAIN read : \A j \in DOMAIN read : read[j] = t <=> j = i
    BY <1>5 DEF OnceIn
  <2>2. i \in DOMAIN all /\ \A j \in DOMAIN all : all[j] = t <=> j = i
    BY <1>1, <1>5, <2>1 DEF ReadIn
  <2> QED BY <2>2 DEF OnceIn
<1>6. ASSUME ~ReadIn(read, t), NEW i \in DOMAIN page, \A j \in DOMAIN page : page[j] = t <=> j = i
      PROVE  OnceIn(all, t)
  <2> DEFINE n == Len(read) + i
  <2>1. n \in DOMAIN all /\ \A j \in DOMAIN all : all[j] = t <=> j = n
    <3>1. n \in DOMAIN all /\ all[n] = t
      BY <1>1, <1>6
    <3>2. ASSUME NEW j \in DOMAIN all, all[j] = t PROVE j = n
      <4>1. j \notin DOMAIN read
        BY <1>1, <1>6, <3>2 DEF ReadIn
      <4>2. j - Len(read) \in DOMAIN page /\ page[j - Len(read)] = t /\ j \in Nat
        BY <1>1, <3>2, <4>1
      <4>3. j - Len(read) = i
        BY <1>6, <4>2
      <4> QED BY <1>1, <4>2, <4>3
    <3> QED BY <3>1, <3>2
  <2> QED BY <2>1 DEF OnceIn
<1> QED BY <1>2, <1>3, <1>4, <1>5, <1>6 DEF all, OnceIn, ReadIn

\* What is in a sequence without duplicates is in it once.
LEMMA InjectiveIsOnce ==
    ASSUME NEW s, Q!IsInjective(s), NEW t, ReadIn(s, t)
    PROVE  OnceIn(s, t)
BY DEF Q!IsInjective, ReadIn, OnceIn

\* A page holds the first rows in order, each once, and all of them when it is not
\* full.
LEMMA PageIs ==
    ASSUME QueryTypes, NEW rows \in SUBSET {t \in Numbered : index[t] # None},
           NEW limit \in Limits, NEW page \in Q!FirstOf(rows, limit)
    PROVE  /\ page \in Seq(Numbered) /\ Len(page) <= limit
           /\ \A t : ReadIn(page, t) => t \in rows /\ OnceIn(page, t)
           /\ Len(page) # limit => \A t \in rows : ReadIn(page, t)
           /\ Len(page) = limit =>
                /\ page[limit] \in rows
                /\ \A t \in rows : Q!Before(Q!Key(page[limit]), Q!Key(t)) <=> ~ReadIn(page, t)
<1>1. PICK n \in 0..limit : page \in [1..n -> rows]
  BY DEF Q!FirstOf
<1>2. /\ \A i, j \in DOMAIN page : i < j => Q!Before(Q!Key(page[i]), Q!Key(page[j]))
      /\ \A t \in rows \ Q!ToSet(page) :
            Len(page) = limit /\ \A i \in DOMAIN page : Q!Before(Q!Key(page[i]), Q!Key(t))
  BY DEF Q!FirstOf
<1>3. limit \in Nat \ {0} /\ n \in Nat /\ rows \subseteq Numbered
  BY <1>1, QueryAssumption
<1>4. page \in Seq(rows) /\ page \in Seq(Numbered) /\ Len(page) = n /\ DOMAIN page = 1..n
  BY <1>1, <1>3
<1>5. \A t : t \in Q!ToSet(page) <=> ReadIn(page, t)
  BY DEF Q!ToSet, ReadIn
<1>6. \A t \in rows : Q!Key(t) \in Q!Keys
  BY KeyIs
<1>7. ASSUME NEW t, NEW i \in DOMAIN page, page[i] = t PROVE t \in rows /\ OnceIn(page, t)
  <2>1. \A j \in DOMAIN page : page[j] \in rows
    BY <1>1, <1>4
  <2>2. ASSUME NEW j \in DOMAIN page, page[j] = t PROVE j = i
    <3>1. ~Q!Before(Q!Key(t), Q!Key(t))
      BY <1>6, <1>7, <2>1, BeforeIsOrder
    <3>2. ~(i < j) /\ ~(j < i)
      BY <1>2, <1>7, <2>2, <3>1
    <3> QED BY <1>3, <1>4, <3>2
  <2> QED BY <1>7, <2>1, <2>2 DEF OnceIn
<1>8. ASSUME Len(page) = limit PROVE
        /\ page[limit] \in rows
        /\ \A t \in rows : Q!Before(Q!Key(page[limit]), Q!Key(t)) <=> ~ReadIn(page, t)
  <2>1. limit \in DOMAIN page /\ page[limit] \in rows
    BY <1>1, <1>3, <1>4, <1>8
  <2>2. \A t \in rows : ~ReadIn(page, t) => Q!Before(Q!Key(page[limit]), Q!Key(t))
    BY <1>2, <1>5, <2>1
  <2>3. ASSUME NEW i \in DOMAIN page PROVE ~Q!Before(Q!Key(page[limit]), Q!Key(page[i]))
    <3>1. page[i] \in rows
      BY <1>1, <1>4
    <3>2. Q!Key(page[limit]) \in Q!Keys /\ Q!Key(page[i]) \in Q!Keys
      BY <1>6, <2>1, <3>1
    <3>3. CASE i = limit
      BY <3>2, <3>3, BeforeIsOrder
    <3>4. CASE i # limit
      <4>1. i < limit
        BY <1>3, <1>4, <1>8, <3>4
      <4>2. Q!Before(Q!Key(page[i]), Q!Key(page[limit]))
        BY <1>2, <2>1, <4>1
      <4> QED BY <3>2, <4>2, BeforeIsOrder
    <3> QED BY <3>3, <3>4
  <2> QED BY <2>1, <2>2, <2>3 DEF ReadIn
<1>9. Len(page) # limit => \A t \in rows : ReadIn(page, t)
  BY <1>2, <1>5
<1> QED BY <1>3, <1>4, <1>7, <1>8, <1>9 DEF ReadIn

\* One more page after the first `read' of them keeps what Paged says: the rows are
\* those that pass and come after the cursor.
LEMMA GotPage ==
    ASSUME QueryTypes, QueryTypes', index' = index,
           NEW lists, NEW open, NEW limit \in Limits, NEW cursor \in Q!Keys \cup {None},
           NEW read \in Seq(Numbered), NEW p, p.read = read, p.limit = limit,
           p.lists = lists, p.open = open, DOMAIN p = QueryFields,
           lists # {},
           NEW page \in Q!Query(lists, open, limit, cursor), call' = Q!Got(p, page),
           \A t \in Numbered \ p.written :
              IF cursor # None /\ Q!Passes(t, lists, open) /\ ~Q!Before(cursor, Q!Key(t))
                THEN OnceIn(read, t) ELSE ~ReadIn(read, t)
    PROVE  Paged'
<1> DEFINE rows == {t \in Numbered : Q!Passes(t, lists, open) /\ Q!After(t, cursor)}
<1>1. rows \in SUBSET {t \in Numbered : index[t] # None} /\ page \in Q!FirstOf(rows, limit)
  BY DEF Q!Passes, Q!Query
<1> HIDE DEF rows
<1>2. /\ page \in Seq(Numbered)
      /\ \A t : ReadIn(page, t) => t \in rows /\ OnceIn(page, t)
      /\ Len(page) # limit => \A t \in rows : ReadIn(page, t)
      /\ Len(page) = limit => page[limit] \in rows
  BY <1>1, PageIs
<1>9. Len(page) = limit =>
         \A t \in rows : Q!Before(Q!Key(page[limit]), Q!Key(t)) <=> ~ReadIn(page, t)
  BY <1>1, PageIs
<1>3. /\ call'.read = read \o page /\ call'.lists = lists /\ call'.open = open
      /\ call'.written = p.written
      /\ call'.cursor = IF Len(page) = limit THEN Q!Key(page[limit]) ELSE None
  BY DEF Q!Got, Q!NextCursor, QueryFields
<1> SUFFICES ASSUME NEW t \in Numbered \ p.written
             PROVE  IF Passed(t)' THEN OnceIn(read \o page, t) ELSE ~ReadIn(read \o page, t)
  BY <1>3 DEF Paged, OnceIn, ReadIn, Q!Once, Q!Read
<1>4. /\ ReadIn(read \o page, t) <=> ReadIn(read, t) \/ ReadIn(page, t)
      /\ OnceIn(read, t) /\ ~ReadIn(page, t) => OnceIn(read \o page, t)
      /\ ~ReadIn(read, t) /\ OnceIn(page, t) => OnceIn(read \o page, t)
  BY <1>2, ReadOn
<1>5. Passed(t)' <=> /\ Q!Passes(t, lists, open)
                     /\ call'.cursor # None => ~Q!Before(call'.cursor, Q!Key(t))
  BY <1>3 DEF Passed, Q!Passes, Q!Key
<1>6. CASE ~Q!Passes(t, lists, open)
  BY <1>2, <1>4, <1>5, <1>6 DEF rows
<1>7. CASE Q!Passes(t, lists, open) /\ t \notin rows
  <2>1. cursor # None /\ ~Q!Before(cursor, Q!Key(t))
    BY <1>7 DEF rows, Q!After
  <2>2. OnceIn(read \o page, t)
    BY <1>2, <1>4, <1>7, <2>1
  <2>3. ASSUME Len(page) = limit PROVE ~Q!Before(Q!Key(page[limit]), Q!Key(t))
    <3>1. page[limit] \in Numbered /\ index[page[limit]] # None /\ Q!Before(cursor, Q!Key(page[limit]))
      BY <1>2, <2>1, <2>3 DEF rows, Q!Passes, Q!After
    <3>2. Q!Key(t) \in Q!Keys /\ Q!Key(page[limit]) \in Q!Keys /\ cursor \in Q!Keys
      BY <1>7, <2>1, <3>1, KeyIs DEF Q!Passes
    <3> QED BY <2>1, <3>1, <3>2, BeforeIsOrder
  <2> QED BY <1>3, <1>5, <1>7, <2>2, <2>3
<1>8. CASE t \in rows
  <2>1. Q!Passes(t, lists, open) /\ ~ReadIn(read, t)
    BY <1>8 DEF rows, Q!After
  <2>2. CASE Len(page) # limit
    BY <1>2, <1>3, <1>4, <1>5, <1>8, <2>1, <2>2
  <2>3. CASE Len(page) = limit
    <3>1. call'.cursor = Q!Key(page[limit]) /\ call'.cursor # None
      <4>1. page[limit] \in Numbered /\ index[page[limit]] # None
        BY <1>2, <2>3 DEF rows, Q!Passes
      <4> QED BY <1>3, <2>3, <4>1, KeyIs
    <3>2. Q!Before(Q!Key(page[limit]), Q!Key(t)) <=> ~ReadIn(page, t)
      BY <1>8, <1>9, <2>3
    <3> QED BY <1>2, <1>4, <1>5, <2>1, <3>1, <3>2
  <2> QED BY <2>2, <2>3
<1> QED BY <1>6, <1>7, <1>8

\* The client's fields after a page.
LEMMA GotTypes ==
    ASSUME QueryTypes, index' = index, time' = time,
           NEW lists, NEW open, NEW limit \in Limits, NEW cursor,
           NEW p, p.read \in Seq(Numbered), p.limit = limit, p.lists = lists,
           DOMAIN p = QueryFields, lists # {},
           NEW page \in Q!Query(lists, open, limit, cursor), call' = Q!Got(p, page)
    PROVE  QueryTypes' /\ call'.pc \in Paging
<1> DEFINE rows == {t \in Numbered : Q!Passes(t, lists, open) /\ Q!After(t, cursor)}
<1>1. rows \in SUBSET {t \in Numbered : index[t] # None} /\ page \in Q!FirstOf(rows, limit)
  BY DEF Q!Passes, Q!Query
<1>2. page \in Seq(Numbered) /\ (Len(page) = limit => page[limit] \in rows)
  BY <1>1, PageIs
<1>3. Len(page) = limit => Q!Key(page[limit]) \in Q!Keys /\ Q!Key(page[limit]) # None
  BY <1>1, <1>2, KeyIs
<1>4. /\ call'.read = p.read \o page /\ call'.lists = lists /\ call'.limit = limit
      /\ DOMAIN call' = QueryFields
      /\ call'.cursor = Q!NextCursor(page, limit)
      /\ call'.pc = IF call'.cursor = None THEN "end" ELSE "more"
  BY DEF Q!Got, QueryFields
<1>5. call'.read \in Seq(Numbered)
  BY <1>2, <1>4
<1> HIDE DEF rows
<1> QED BY <1>3, <1>4, <1>5 DEF QueryTypes, Paging, Q!NextCursor

\* What a read of one page leaves.
LEMMA QueryInit == Q!Init => QueryOk
<1> SUFFICES ASSUME Q!Init PROVE QueryOk
  OBVIOUS
<1>1. index \in [Numbered -> Q!Row \cup {None}]
  <2>1. 1 \in 1..MaxTime
    BY QueryAssumption
  <2>2. {None} \cup [list : Lists, m : {1, None}, c : {None}] \subseteq Q!Row \cup {None}
    BY <2>1 DEF Q!Row
  <2> QED BY <2>2 DEF Q!Init
<1>2. time \in 1..MaxTime
  BY QueryAssumption DEF Q!Init
<1>3. /\ DOMAIN call = QueryFields /\ call.pc = "idle" /\ call.read = <<>>
      /\ call.read \in Seq(Numbered)
  BY DEF Q!Init, Q!NoPager, QueryFields
<1> QED BY <1>1, <1>2, <1>3 DEF QueryOk, QueryTypes, Paged, Paging, Single

\* Any tasks in any order, without duplicates.
LEMMA SomeOfIs ==
    ASSUME NEW tasks \in SUBSET Numbered, NEW n \in Nat, NEW s \in Q!SomeOf(tasks, n)
    PROVE  /\ s \in Seq(Numbered) /\ Q!IsInjective(s)
           /\ \A t : ReadIn(s, t) => t \in tasks /\ OnceIn(s, t)
<1>1. PICK k \in 0..n : s \in [1..k -> tasks]
  BY DEF Q!SomeOf
<1>2. Q!IsInjective(s)
  BY DEF Q!SomeOf
<1>3. s \in Seq(Numbered) /\ \A i \in DOMAIN s : s[i] \in tasks
  BY <1>1
<1> QED BY <1>2, <1>3, InjectiveIsOnce DEF ReadIn

\* An answer of one page, without a cursor.
LEMMA OnePage ==
    ASSUME QueryTypes, index' = index, time' = time, DOMAIN call' = QueryFields, call'.pc \in Single,
           call'.read \in Seq(Numbered), Q!IsInjective(call'.read),
           \A t \in Numbered : ReadIn(call'.read, t) =>
              /\ Q!Passes(t, call'.lists, call'.open)
              /\ call'.lists # None => index[t].list \in call'.lists
    PROVE  QueryOk'
<1>1. QueryTypes'
  BY DEF QueryTypes, Single, Paging
<1>2. \A t : ReadIn(call'.read, t) => OnceIn(call'.read, t)
  BY InjectiveIsOnce
<1>3. Q!NothingElse'
  BY <1>2 DEF Q!NothingElse, Q!Read, Q!Once, Q!Passes, ReadIn, OnceIn
<1> QED BY <1>1, <1>3 DEF QueryOk, Paged, Paging, Single

\* The first page: nothing has been read before it.
LEMMA FirstPageIs ==
    ASSUME QueryOk, NEW scope, NEW open, NEW limit \in Limits, Q!FirstPage(scope, open, limit)
    PROVE  QueryOk'
<1> DEFINE p == [Q!NoPager EXCEPT !.lists = scope, !.open = open, !.asked = open, !.limit = limit]
<1>1. PICK page \in Q!Scoped(p) : call' = Q!Got(p, page)
  BY DEF Q!FirstPage
<1>2. /\ DOMAIN p = QueryFields /\ p.read = <<>> /\ p.limit = limit /\ p.lists = scope
      /\ p.open = open /\ p.written = {}
  BY DEF Q!NoPager, QueryFields
<1>3. index' = index /\ time' = time /\ QueryTypes
  BY DEF Q!FirstPage, QueryOk
<1> HIDE DEF p
<1>4. limit \in Nat /\ limit # 0
  BY QueryAssumption
<1>5. CASE scope = {}
  <2>1. page = <<>> /\ Len(page) # limit
    BY <1>1, <1>2, <1>4, <1>5 DEF Q!Scoped
  <2>2. DOMAIN call' = QueryFields /\ call'.pc = "end" /\ call'.read = <<>> /\ call'.cursor = None
        /\ call'.lists = {}
    BY <1>1, <1>2, <1>5, <2>1 DEF Q!Got, Q!NextCursor, QueryFields
  <2>3. QueryTypes'
    BY <1>3, <2>2 DEF QueryTypes, Paging
  <2>4. Paged'
    BY <2>2 DEF Paged, Passed, Q!Read
  <2> QED BY <2>2, <2>3, <2>4 DEF QueryOk, Single
<1>6. CASE scope # {}
  <2>1. page \in Q!Query(scope, open, limit, None)
    BY <1>1, <1>2, <1>6 DEF Q!Scoped
  <2>2. p.read \in Seq(Numbered) /\ \A t : ~ReadIn(p.read, t)
    BY <1>2 DEF ReadIn
  <2>3. QueryTypes' /\ call'.pc \in Paging
    BY <1>1, <1>2, <1>3, <1>6, <2>1, <2>2, GotTypes
  <2>4. Paged'
    BY <1>1, <1>2, <1>3, <1>6, <2>1, <2>2, <2>3, GotPage
  <2> QED BY <2>3, <2>4 DEF QueryOk, Paging, Single
<1> QED BY <1>5, <1>6

\* The next page begins where the last one ended.
LEMMA NextPageIs == ASSUME QueryOk, Q!NextPage(call.open) PROVE QueryOk'
<1> DEFINE p == [call EXCEPT !.open = call.open]
<1>1. PICK page \in Q!Query(call.lists, call.open, call.limit, call.cursor) : call' = Q!Got(p, page)
  BY DEF Q!NextPage
<1>2. QueryTypes /\ Paged /\ call.pc = "more" /\ index' = index /\ time' = time
  BY DEF QueryOk, Q!NextPage
<1>3. /\ DOMAIN p = QueryFields /\ p.read = call.read /\ p.limit = call.limit
      /\ p.lists = call.lists /\ p.open = call.open /\ p.written = call.written
  BY <1>2 DEF QueryTypes, QueryFields
<1> HIDE DEF p
<1>4. /\ call.read \in Seq(Numbered) /\ call.limit \in Limits /\ call.lists # {}
      /\ call.cursor \in Q!Keys
  BY <1>2 DEF QueryTypes
<1>5. call.cursor # None
  BY <1>4, QueryAssumption
<1>6. QueryTypes' /\ call'.pc \in Paging
  BY <1>1, <1>2, <1>3, <1>4, GotTypes
<1>7. \A t \in Numbered \ p.written :
         IF /\ call.cursor # None /\ Q!Passes(t, call.lists, call.open)
            /\ ~Q!Before(call.cursor, Q!Key(t))
           THEN OnceIn(call.read, t) ELSE ~ReadIn(call.read, t)
  BY <1>2, <1>3, <1>4, <1>5 DEF Paged, Paging, Passed, OnceIn, ReadIn, Q!Once, Q!Read
<1>8. Paged'
  BY <1>1, <1>2, <1>3, <1>4, <1>6, <1>7, GotPage
<1> QED BY <1>6, <1>8 DEF QueryOk, Paging, Single

\* A write between two pages: it is of a task that counts as written.
LEMMA WriteKeeps ==
    ASSUME QueryOk, NEW t \in Numbered, Q!Written(t),
           index' \in [Numbered -> Q!Row \cup {None}],
           \A u \in Numbered \ {t} : index'[u] = index[u]
    PROVE  QueryOk'
<1>1. QueryTypes /\ Paged /\ call.pc \in {"idle", "more"}
  BY DEF QueryOk, Q!Written
<1>2. time' \in 1..MaxTime
  BY <1>1, QueryAssumption DEF QueryTypes, Q!Written
<1>3. CASE call.pc = "idle"
  <2>1. call' = call
    BY <1>3 DEF Q!Written
  <2> QED BY <1>1, <1>2, <1>3, <2>1 DEF QueryOk, QueryTypes, Paged, Paging, Single
<1>4. CASE call.pc = "more"
  <2>1. call' = [call EXCEPT !.written = @ \cup {t}]
    BY <1>4 DEF Q!Written
  <2>2. /\ DOMAIN call' = QueryFields /\ call'.pc = "more" /\ call'.read = call.read
        /\ call'.lists = call.lists /\ call'.open = call.open /\ call'.limit = call.limit
        /\ call'.cursor = call.cursor /\ call'.written = call.written \cup {t}
    BY <1>1, <1>4, <2>1 DEF QueryTypes, QueryFields
  <2>3. QueryTypes'
    BY <1>1, <1>2, <1>4, <2>2 DEF QueryTypes, Paging
  <2>4. ASSUME NEW u \in Numbered \ call'.written
        PROVE  IF Passed(u)' THEN Q!Once(u)' ELSE ~Q!Read(u)'
    <3>1. u \in Numbered \ call.written /\ index'[u] = index[u]
      BY <2>2
    <3>2. IF Passed(u) THEN Q!Once(u) ELSE ~Q!Read(u)
      BY <1>1, <1>4, <3>1 DEF Paged, Paging
    <3>3. Passed(u)' <=> Passed(u)
      BY <2>2, <3>1 DEF Passed, Q!Passes, Q!Key
    <3>4. (Q!Once(u)' <=> Q!Once(u)) /\ (Q!Read(u)' <=> Q!Read(u))
      BY <2>2 DEF Q!Once, Q!Read
    <3> QED BY <3>2, <3>3, <3>4
  <2>5. Paged'
    BY <2>2, <2>4 DEF Paged
  <2> QED BY <2>2, <2>3, <2>5 DEF QueryOk, Single
<1> QED BY <1>1, <1>3, <1>4

LEMMA PageAtOnce ==
    ASSUME QueryTypes, index' = index, time' = time, NEW pc \in Single, NEW scope, NEW open,
           NEW limit, NEW read \in Seq(Numbered), Q!IsInjective(read),
           Q!OnePage(pc, scope, open, limit, read),
           \A t : ReadIn(read, t) =>
              /\ Q!Passes(t, scope, open)
              /\ scope # None => index[t].list \in scope
    PROVE  QueryOk'
<1>1. /\ DOMAIN call' = QueryFields /\ call'.pc = pc /\ call'.lists = scope
      /\ call'.open = open /\ call'.read = read
  BY DEF Q!OnePage, Q!NoPager, QueryFields
<1> QED BY <1>1, OnePage

LEMMA QueryNext == ASSUME QueryOk, [Q!Next]_(Q!vars) PROVE QueryOk'
<1>0. QueryTypes
  BY DEF QueryOk
<1>1. ASSUME NEW t \in Numbered, NEW l \in Lists, NEW c \in 1..MaxTime \cup {None}, Q!Write(t, l, c)
      PROVE  QueryOk'
  <2>1. index' = [index EXCEPT ![t] = [list |-> l, m |-> time + 1, c |-> c]] /\ Q!Written(t)
    BY <1>1 DEF Q!Write
  <2>2. time + 1 \in 1..MaxTime
    BY <1>0, <2>1, QueryAssumption DEF QueryTypes, Q!Written
  <2> DEFINE m == time + 1
             row == [list |-> l, m |-> m, c |-> c]
  <2>3. row \in Q!Row
    <3> HIDE DEF m
    <3> QED BY <2>2 DEF Q!Row, m
  <2> HIDE DEF row
  <2>4. index' = [index EXCEPT ![t] = row]
    BY <2>1 DEF row
  <2>5. /\ index' \in [Numbered -> Q!Row \cup {None}]
        /\ \A u \in Numbered \ {t} : index'[u] = index[u]
    BY <1>0, <2>3, <2>4 DEF QueryTypes
  <2> QED BY <2>1, <2>5, WriteKeeps
<1>2. ASSUME NEW t \in Numbered, Q!Delete(t) PROVE QueryOk'
  <2>1. index' = [index EXCEPT ![t] = None] /\ Q!Written(t)
    BY <1>2 DEF Q!Delete
  <2>2. /\ index' \in [Numbered -> Q!Row \cup {None}]
        /\ \A u \in Numbered \ {t} : index'[u] = index[u]
    BY <1>0, <2>1 DEF QueryTypes
  <2> QED BY <2>1, <2>2, WriteKeeps
<1>3. ASSUME NEW lists, NEW types, NEW exclude, NEW open, NEW n \in Limits,
             Q!query_tasks(lists, types, exclude, open, n)
      PROVE  QueryOk'
  BY <1>3, FirstPageIs DEF Q!query_tasks
<1>4. ASSUME NEW type, NEW n \in Limits, Q!get_pending_across_lists(type, n) PROVE QueryOk'
  BY <1>4, FirstPageIs DEF Q!get_pending_across_lists
<1>5. ASSUME NEW l, NEW open, NEW n \in Limits, Q!list_tasks(l, open, n) PROVE QueryOk'
  BY <1>5, FirstPageIs DEF Q!list_tasks
<1>6. ASSUME NEW l \in Lists, NEW open, NEW n \in Limits, Q!ColdPage(l, open, n) PROVE QueryOk'
  <2> DEFINE rows == {t \in Numbered : Q!Passes(t, {l}, open)}
  <2>1. PICK page \in Q!SomeOf(rows, n) : Q!OnePage("cold", {l}, open, n, page)
    BY <1>6 DEF Q!ColdPage
  <2>2. \A t \in rows : Q!Passes(t, {l}, open) /\ ({l} # None => index[t].list \in {l})
    BY DEF Q!Passes
  <2> HIDE DEF rows
  <2>3. rows \in SUBSET Numbered /\ n \in Nat
    BY QueryAssumption DEF rows
  <2>4. /\ page \in Seq(Numbered) /\ Q!IsInjective(page)
        /\ \A t : ReadIn(page, t) => t \in rows
    BY <2>1, <2>3, SomeOfIs
  <2>5. index' = index /\ time' = time
    BY <1>6 DEF Q!ColdPage
  <2> QED BY <1>0, <2>1, <2>2, <2>4, <2>5, PageAtOnce DEF Single
<1>7. ASSUME Q!NextPage(call.open) PROVE QueryOk'
  BY <1>7, NextPageIs
<1>8. ASSUME NEW list, NEW type, NEW after, NEW n \in Limits,
             Q!get_recently_completed(list, type, after, n)
      PROVE  QueryOk'
  <2> DEFINE scope == IF list # None THEN {list}
                      ELSE IF type # None THEN {l \in Lists : Class[l] = type} ELSE None
             rows == {t \in Numbered : Q!Passes(t, scope, FALSE) /\ index[t].c >= after}
  <2>1. PICK page \in IF scope = {} THEN {<<>>} ELSE Q!QueryCompleted(scope, after, n) :
           \E read \in Q!ByCompletion(page) : Q!OnePage("recent", scope, FALSE, n, read)
    BY <1>8 DEF Q!get_recently_completed
  <2>2. PICK read \in Q!ByCompletion(page) : Q!OnePage("recent", scope, FALSE, n, read)
    BY <2>1
  <2> HIDE DEF scope
  <2>3. /\ page \in Seq(Numbered)
        /\ \A t : ReadIn(page, t) =>
              /\ Q!Passes(t, scope, FALSE)
              /\ scope # None => index[t].list \in scope
    <3>1. CASE scope = {}
      BY <2>1, <3>1 DEF ReadIn
    <3>2. CASE scope # {}
      <4>1. rows \in SUBSET {t \in Numbered : index[t] # None} /\ page \in Q!FirstOf(rows, n)
        BY <2>1, <3>2 DEF Q!Passes, Q!QueryCompleted
      <4>2. \A t \in rows : /\ Q!Passes(t, scope, FALSE)
                            /\ scope # None => index[t].list \in scope
        BY <3>2 DEF Q!Passes
      <4> HIDE DEF rows
      <4>3. page \in Seq(Numbered) /\ \A t : ReadIn(page, t) => t \in rows
        BY <1>0, <4>1, PageIs
      <4> QED BY <4>2, <4>3
    <3> QED BY <3>1, <3>2
  <2>4. Q!ToSet(page) \in SUBSET Numbered /\ Len(page) \in Nat
    BY <2>3 DEF Q!ToSet
  <2>5. /\ read \in Seq(Numbered) /\ Q!IsInjective(read)
        /\ \A t : ReadIn(read, t) => ReadIn(page, t)
    <3>1. read \in Q!SomeOf(Q!ToSet(page), Len(page))
      BY <2>2 DEF Q!ByCompletion
    <3>2. \A t \in Q!ToSet(page) : ReadIn(page, t)
      BY <2>3 DEF Q!ToSet, ReadIn
    <3> QED BY <2>4, <3>1, <3>2, SomeOfIs
  <2>6. index' = index /\ time' = time
    BY <1>8 DEF Q!get_recently_completed
  <2> QED BY <1>0, <2>2, <2>3, <2>5, <2>6, PageAtOnce DEF Single
<1>9. ASSUME NEW lists, NEW types, NEW exclude, NEW open, NEW n \in Limits,
             Q!search_tasks(lists, types, exclude, open, n)
      PROVE  QueryOk'
  <2> DEFINE scope == Q!resolveListScope(lists, types, exclude)
             rows == {t \in Numbered : Q!Passes(t, scope, open)}
             hits == IF scope = {} THEN {<<>>} ELSE Q!SomeOf(rows, n)
  <2>1. PICK title \in hits, items \in hits :
           \E read \in Q!Merged(title, items, n) : Q!OnePage("found", scope, open, n, read)
    BY <1>9 DEF Q!search_tasks
  <2>2. PICK read \in Q!Merged(title, items, n) : Q!OnePage("found", scope, open, n, read)
    BY <2>1
  <2> HIDE DEF scope
  <2>3. \A s \in hits : /\ s \in Seq(Numbered)
                        /\ \A t : ReadIn(s, t) =>
                              /\ Q!Passes(t, scope, open)
                              /\ scope # None => index[t].list \in scope
    <3>1. CASE scope = {}
      BY <3>1 DEF ReadIn
    <3>2. CASE scope # {}
      <4>1. rows \in SUBSET Numbered /\ n \in Nat
        BY QueryAssumption
      <4>2. \A t \in rows : /\ Q!Passes(t, scope, open)
                            /\ scope # None => index[t].list \in scope
        BY <3>2 DEF Q!Passes
      <4> HIDE DEF rows
      <4>3. \A s \in hits : s \in Seq(Numbered) /\ \A t : ReadIn(s, t) => t \in rows
        BY <3>2, <4>1, SomeOfIs
      <4> QED BY <4>2, <4>3
    <3> QED BY <3>1, <3>2
  <2> HIDE DEF hits
  <2>4. title \in Seq(Numbered) /\ items \in Seq(Numbered)
    BY <2>1, <2>3
  <2>5. /\ Q!ToSet(title) \cup Q!ToSet(items) \in SUBSET Numbered
        /\ \A t \in Q!ToSet(title) \cup Q!ToSet(items) : ReadIn(title, t) \/ ReadIn(items, t)
    BY <2>4 DEF Q!ToSet, ReadIn
  <2>6. /\ read \in Seq(Numbered) /\ Q!IsInjective(read)
        /\ \A t : ReadIn(read, t) => ReadIn(title, t) \/ ReadIn(items, t)
    <3>1. read \in Q!SomeOf(Q!ToSet(title) \cup Q!ToSet(items), n)
      BY <2>2 DEF Q!Merged
    <3>2. n \in Nat
      BY QueryAssumption
    <3> QED BY <2>5, <3>1, <3>2, SomeOfIs
  <2>7. index' = index /\ time' = time
    BY <1>9 DEF Q!search_tasks
  <2> QED BY <1>0, <2>1, <2>2, <2>3, <2>6, <2>7, PageAtOnce DEF Single
<1>10. ASSUME UNCHANGED Q!vars PROVE QueryOk'
  <2>1. index' = index /\ call' = call /\ time' = time
    BY <1>10 DEF Q!vars
  <2> QED BY <2>1 DEF QueryOk, QueryTypes, Paged, Passed, Q!NothingElse, Q!Once, Q!Read,
                      Q!Passes, Q!Key
<1> QED BY <1>1, <1>2, <1>3, <1>4, <1>5, <1>6, <1>7, <1>8, <1>9, <1>10 DEF Q!Next

LEMMA QueryKept == Spec => [](which = "query" => QueryOk)
<1>1. Init => (which = "query" => QueryOk)
  BY QueryInit DEF Init
<1>2. (which = "query" => QueryOk) /\ [Next]_vars => (which = "query" => QueryOk)'
  BY Same, QueryStep, QueryNext
<1> QED BY <1>1, <1>2, PTL DEF Spec

\* What the invariant says of a walk that is over, and of one that is not.
LEMMA QuerySafe == ASSUME QueryOk PROVE Q!PagesComplete /\ Q!NothingElse
<1>1. Q!PagesComplete
  BY DEF QueryOk, QueryTypes, Paged, Paging, Passed, Q!PagesComplete
<1>2. CASE call.pc = "idle"
  BY <1>1, <1>2 DEF QueryOk, QueryTypes, Q!NothingElse, Q!Read
<1>3. CASE call.pc \in Paging
  BY <1>1, <1>3 DEF QueryOk, Paged, Passed, Q!Passes, Q!NothingElse
<1>4. CASE call.pc \in Single
  BY <1>1, <1>4 DEF QueryOk
<1> QED BY <1>1, <1>2, <1>3, <1>4 DEF QueryOk, QueryTypes

\* Whoever walks the pages of query_tasks, list_tasks or the pending tasks reads
\* each row that passes the filters, and that nobody writes meanwhile, exactly
\* once, and no row from outside the scope: whatever sync and other tools write
\* between the pages, for any number of tasks and any page limits.
THEOREM PagesAreExact == Spec => []PagesExact
<1>1. (which = "query" => QueryOk) => PagesExact
  BY QuerySafe DEF PagesExact
<1> QED BY <1>1, QueryKept, PTL

-----------------------------------------------------------------------------
(* The arithmetic of an order.                                               *)

\* Among the orders of finitely many tasks there is a highest and a lowest.
LEMMA HighestIs ==
    ASSUME NEW tasks, IsFiniteSet(tasks), NEW orders, \A t \in tasks : orders[t] \in Int,
           NEW values \in SUBSET Int, values # {},
           \A v \in values : \E t \in tasks : orders[t] = v
    PROVE  \E v \in values : \A w \in values : v >= w
<1> DEFINE Over(v) == {t \in tasks : orders[t] > v}
           family == {Over(v) : v \in values}
<1>1. IsWellFoundedOn(StrictSubsetOrdering(tasks), FiniteSubsetsOf(tasks))
  BY FS_StrictSubsetOrderingWellFounded
<1>2. family \subseteq FiniteSubsetsOf(tasks) /\ family # {}
  <2>1. ASSUME NEW v PROVE Over(v) \in FiniteSubsetsOf(tasks)
    <3>1. Over(v) \in SUBSET tasks
      OBVIOUS
    <3>2. IsFiniteSet(Over(v))
      BY <3>1, FS_Subset
    <3> QED BY <3>1, <3>2 DEF FiniteSubsetsOf
  <2> HIDE DEF Over
  <2> QED BY <2>1
<1>3. PICK s \in family : \A r \in family : <<r, s>> \notin StrictSubsetOrdering(tasks)
  <2> HIDE DEF family
  <2> QED BY <1>1, <1>2, WFMin
<1>4. PICK v \in values : s = Over(v)
  BY <1>3
<1>5. ASSUME NEW w \in values, ~(v >= w) PROVE FALSE
  <2>1. v \in Int /\ w \in Int /\ w > v
    BY <1>5
  <2>2. PICK u \in tasks : orders[u] = w
    BY <1>5
  <2>3. u \in Over(v) /\ u \notin Over(w) /\ Over(w) \subseteq Over(v)
    BY <2>1, <2>2
  <2>4. <<Over(w), Over(v)>> \in StrictSubsetOrdering(tasks)
    BY <2>3 DEF StrictSubsetOrdering
  <2> QED BY <1>3, <1>4, <1>5, <2>4
<1> QED BY <1>5

LEMMA LowestIs ==
    ASSUME NEW tasks, IsFiniteSet(tasks), NEW orders, \A t \in tasks : orders[t] \in Int,
           NEW values \in SUBSET Int, values # {},
           \A v \in values : \E t \in tasks : orders[t] = v
    PROVE  \E v \in values : \A w \in values : v =< w
<1> DEFINE Under(v) == {t \in tasks : orders[t] < v}
           family == {Under(v) : v \in values}
<1>1. IsWellFoundedOn(StrictSubsetOrdering(tasks), FiniteSubsetsOf(tasks))
  BY FS_StrictSubsetOrderingWellFounded
<1>2. family \subseteq FiniteSubsetsOf(tasks) /\ family # {}
  <2>1. ASSUME NEW v PROVE Under(v) \in FiniteSubsetsOf(tasks)
    <3>1. Under(v) \in SUBSET tasks
      OBVIOUS
    <3>2. IsFiniteSet(Under(v))
      BY <3>1, FS_Subset
    <3> QED BY <3>1, <3>2 DEF FiniteSubsetsOf
  <2> HIDE DEF Under
  <2> QED BY <2>1
<1>3. PICK s \in family : \A r \in family : <<r, s>> \notin StrictSubsetOrdering(tasks)
  <2> HIDE DEF family
  <2> QED BY <1>1, <1>2, WFMin
<1>4. PICK v \in values : s = Under(v)
  BY <1>3
<1>5. ASSUME NEW w \in values, ~(v =< w) PROVE FALSE
  <2>1. v \in Int /\ w \in Int /\ w < v
    BY <1>5
  <2>2. PICK u \in tasks : orders[u] = w
    BY <1>5
  <2>3. u \in Under(v) /\ u \notin Under(w) /\ Under(w) \subseteq Under(v)
    BY <2>1, <2>2
  <2>4. <<Under(w), Under(v)>> \in StrictSubsetOrdering(tasks)
    BY <2>3 DEF StrictSubsetOrdering
  <2> QED BY <1>3, <1>4, <1>5, <2>4
<1> QED BY <1>5

\* Max and Min of the values are the highest and the lowest of them.
LEMMA MaxIs ==
    ASSUME NEW tasks, IsFiniteSet(tasks), NEW orders, \A t \in tasks : orders[t] \in Int,
           NEW values \in SUBSET Int, values # {},
           \A v \in values : \E t \in tasks : orders[t] = v
    PROVE  /\ O!Max(values) \in values /\ O!Min(values) \in values
           /\ O!Max(values) \in Int /\ O!Min(values) \in Int
           /\ \A w \in values : O!Max(values) >= w /\ O!Min(values) =< w
<1>1. \E v \in values : \A w \in values : v >= w
  BY HighestIs
<1>2. \E v \in values : \A w \in values : v =< w
  BY LowestIs
<1> QED BY <1>1, <1>2 DEF O!Max, O!Min

\* The counting of ManualOrder is the counting of FiniteSets.
LEMMA SameCount == \A S : O!Cardinality(S) = Cardinality(S)
BY Zenon DEF O!Cardinality, Cardinality, O!IsFiniteSet, IsFiniteSet

\* The r-th order from the top: fewer than r are higher, and r are no lower.
LEMMA RankIs ==
    ASSUME NEW tasks, IsFiniteSet(tasks), NEW orders, \A t \in tasks : orders[t] \in Int,
           NEW r \in 1..Cardinality(tasks)
    PROVE  LET v == O!Rank(tasks, orders, r)
           IN  /\ v \in Int
               /\ Cardinality({t \in tasks : orders[t] > v}) < r
               /\ Cardinality({t \in tasks : orders[t] >= v}) >= r
<1> DEFINE all == {orders[t] : t \in tasks}
           Over(v) == {t \in tasks : orders[t] > v}
           From(v) == {t \in tasks : orders[t] >= v}
           low == {v \in all : Cardinality(Over(v)) < r}
<1>1. r \in Nat /\ r >= 1 /\ Cardinality(tasks) \in Nat /\ r <= Cardinality(tasks)
  BY FS_CardinalityType
<1>2. /\ tasks # {} /\ all # {} /\ all \in SUBSET Int
      /\ \A v \in all : \E t \in tasks : orders[t] = v
  BY <1>1, FS_EmptySet
<1>3. low # {}
  <2>1. PICK v \in all : \A w \in all : v >= w
    <3> HIDE DEF all
    <3> QED BY <1>2, HighestIs
  <2>2. Over(v) = {}
    BY <1>2, <2>1
  <2>3. Cardinality(Over(v)) = 0
    BY <2>2, FS_EmptySet
  <2> QED BY <1>1, <2>1, <2>3
<1>4. PICK v \in low : \A w \in low : v =< w
  <2>1. low \in SUBSET Int /\ \A v \in low : \E t \in tasks : orders[t] = v
    BY <1>2
  <2> HIDE DEF low
  <2> QED BY <1>3, <2>1, LowestIs
<1>5. v \in Int /\ v \in all /\ Cardinality(Over(v)) < r
  BY <1>2, <1>4
<1>6. IsFiniteSet(From(v)) /\ Cardinality(From(v)) \in Nat
  BY FS_Subset, FS_CardinalityType
<1>7. ASSUME Cardinality(From(v)) < r PROVE FALSE
  <2> DEFINE under == {w \in all : w < v}
  <2>1. CASE under = {}
    <3>1. From(v) = tasks
      BY <1>2, <1>5, <2>1
    <3> QED BY <1>1, <1>7, <3>1
  <2>2. CASE under # {}
    <3>1. under \in SUBSET Int /\ \A x \in under : \E t \in tasks : orders[t] = x
      BY <1>2
    <3>2. PICK w \in under : \A x \in under : w >= x
      <4> HIDE DEF under
      <4> QED BY <2>2, <3>1, HighestIs
    <3>3. w \in all /\ w \in Int /\ w < v
      BY <1>2, <3>2
    <3>4. Over(w) = From(v)
      <4>1. ASSUME NEW t \in tasks PROVE orders[t] > w <=> orders[t] >= v
        <5>1. orders[t] \in all /\ orders[t] \in Int
          OBVIOUS
        <5> QED BY <1>5, <3>2, <3>3, <5>1
      <4> QED BY <4>1
    <3>5. w \in low
      BY <1>7, <3>3, <3>4
    <3> QED BY <1>4, <1>5, <3>3, <3>5
  <2> QED BY <2>1, <2>2
<1>8. Cardinality(From(v)) >= r
  BY <1>1, <1>6, <1>7
<1>9. \E x \in all : Cardinality(Over(x)) < r /\ Cardinality(From(x)) >= r
  BY <1>5, <1>8
<1> DEFINE rank == O!Rank(tasks, orders, r)
<1>10. rank \in all /\ Cardinality(Over(rank)) < r /\ Cardinality(From(rank)) >= r
  <2>1. rank = CHOOSE x \in all : Cardinality(Over(x)) < r /\ Cardinality(From(x)) >= r
    BY SameCount, Zenon DEF O!Rank
  <2> HIDE DEF rank, all, Over, From
  <2> QED BY <1>9, <2>1, Zenon
<1> QED BY <1>2, <1>10

\* Between two orders is their middle, if there is anything between them.
LEMMA MidpointIs ==
    ASSUME NEW hi \in Int, NEW lo \in Int
    PROVE  /\ O!midpoint(hi, lo) # None =>
                O!midpoint(hi, lo) \in Int /\ lo < O!midpoint(hi, lo) /\ O!midpoint(hi, lo) < hi
           /\ O!midpoint(hi, lo) = None /\ lo =< hi => hi =< lo + 1
<1> DEFINE mid == (hi + lo) \div 2
<1>1. mid \in Int /\ 2 * mid =< hi + lo /\ hi + lo < 2 * mid + 2
  OBVIOUS
<1>2. O!midpoint(hi, lo) = IF mid <= lo \/ mid >= hi THEN None ELSE mid
  BY DEF O!midpoint
<1> HIDE DEF mid
<1>3. mid # None
  BY <1>1, OrderAssumption
<1> QED BY <1>1, <1>2, <1>3

-----------------------------------------------------------------------------
(* What computeReorder() answers fits, and it gives up only where nothing    *)
(* does.                                                                     *)

Orderings == [Numbered -> Int \cup {None}]

\* Fits(), of any position, others and order of the reference.
Placed(p, others, orders, refAt, x) ==
    /\ p.kind = "top"    => \A t \in others : orders[t] < x
    /\ p.kind = "bottom" => \A t \in others : orders[t] > x
    /\ p.kind = "before" =>
          x > refAt /\ \A t \in others : ~(refAt < orders[t] /\ orders[t] <= x)
    /\ p.kind = "after"  =>
          x < refAt /\ \A t \in others : ~(x <= orders[t] /\ orders[t] < refAt)
    /\ p.kind = "index"  =>
          /\ \A t \in others : orders[t] # x
          /\ Cardinality({t \in others : orders[t] > x}) =
                IF p.at - 1 < Cardinality(others) THEN p.at - 1 ELSE Cardinality(others)
    /\ p.kind = "set"    => x = p.at

\* A position names a reference, an index, an order or none of them.
LEMMA PositionIs ==
    ASSUME NEW p \in O!Positions
    PROVE  \/ p.kind \in {"top", "bottom"} /\ p.ref = None
           \/ p.kind \in {"before", "after"} /\ p.ref \in Numbered \cup {None}
           \/ p.kind = "index" /\ p.ref = None /\ p.at \in Nat \ {0}
           \/ p.kind = "set" /\ p.ref = None /\ p.at \in Int
<1>1. CASE p \in [kind : O!Edges, ref : {None}, at : {None}]
  BY <1>1 DEF O!Edges
<1>2. CASE p \in [kind : O!Relative, ref : Numbered \cup {None}, at : {None}]
  BY <1>2 DEF O!Relative
<1>3. CASE p \in [kind : {"index"}, ref : {None}, at : 1..O!Cardinality(Numbered)]
  <2>1. O!Cardinality(Numbered) \in Nat
    BY OrderAssumption, SameCount, FS_CardinalityType
  <2> QED BY <1>3, <2>1
<1>4. CASE p \in [kind : {"set"}, ref : {None}, at : Orders]
  BY <1>4, OrderAssumption
<1> QED BY <1>1, <1>2, <1>3, <1>4 DEF O!Positions

\* The tasks a mover is placed among.
LEMMA OthersAre ==
    ASSUME NEW tool, NEW mover, NEW orders \in Orderings
    PROVE  LET others == O!Others(tool, mover, orders)
           IN  /\ others \in SUBSET Numbered /\ IsFiniteSet(others)
               /\ \A t \in others : orders[t] \in Int
               /\ mover \notin Renamed => mover \notin others
BY OrderAssumption, FS_Subset DEF O!Others, Orderings

\* Above all others, and below all others.
LEMMA EdgesFit ==
    ASSUME NEW others, IsFiniteSet(others), NEW orders, \A t \in others : orders[t] \in Int
    PROVE  LET values == {orders[t] : t \in others}
           IN  /\ O!top(values) \in Int /\ \A t \in others : orders[t] < O!top(values)
               /\ O!bottom(values) \in Int /\ \A t \in others : orders[t] > O!bottom(values)
<1> DEFINE values == {orders[t] : t \in others}
<1>1. CASE others = {}
  <2>1. values = {}
    BY <1>1
  <2> HIDE DEF values
  <2>2. O!top(values) = Now /\ O!bottom(values) = Now
    BY <2>1 DEF O!top, O!bottom
  <2> QED BY <1>1, <2>2, OrderAssumption DEF values
<1>2. CASE others # {}
  <2>1. /\ values \in SUBSET Int /\ values # {} /\ \A v \in values : \E t \in others : orders[t] = v
        /\ \A t \in others : orders[t] \in values
    BY <1>2
  <2> HIDE DEF values
  <2>2. /\ O!Max(values) \in Int /\ O!Min(values) \in Int
        /\ \A w \in values : O!Max(values) >= w /\ O!Min(values) =< w
    BY <2>1, MaxIs
  <2>3. O!top(values) = O!Max(values) + Nudge /\ O!bottom(values) = O!Min(values) - Nudge
    BY <2>1 DEF O!top, O!bottom
  <2> DEFINE max == O!Max(values)
             min == O!Min(values)
  <2>4. max + Nudge \in Int /\ min - Nudge \in Int
    BY <2>2, OrderAssumption
  <2>5. ASSUME NEW t \in others PROVE orders[t] < max + Nudge /\ orders[t] > min - Nudge
    <3>1. max >= orders[t] /\ min =< orders[t] /\ orders[t] \in Int /\ max \in Int /\ min \in Int
      BY <2>1, <2>2
    <3> HIDE DEF max, min
    <3> QED BY <3>1, OrderAssumption
  <2> QED BY <2>3, <2>4, <2>5 DEF values
<1> QED BY <1>1, <1>2

\* Next above an order, with nothing between; none only if the next order is taken.
LEMMA BeforeFits ==
    ASSUME NEW others, IsFiniteSet(others), NEW orders, \A t \in others : orders[t] \in Int,
           NEW ref \in Int
    PROVE  LET x == O!before({orders[t] : t \in others}, ref)
           IN  /\ x # None => /\ x \in Int /\ x > ref
                              /\ \A t \in others : ~(ref < orders[t] /\ orders[t] <= x)
               /\ x = None => \E t \in others : orders[t] = ref + 1
<1> DEFINE values == {orders[t] : t \in others}
           above  == {v \in values : v > ref}
           x      == O!before(values, ref)
<1>1. \A t \in others : orders[t] > ref => orders[t] \in above
  OBVIOUS
<1>2. above \in SUBSET Int /\ \A v \in above : v > ref /\ \E t \in others : orders[t] = v
  OBVIOUS
<1>3. x = IF above = {} THEN ref + Nudge ELSE O!midpoint(O!Min(above), ref)
  BY DEF O!before
<1> HIDE DEF x, above, values
<1>4. CASE above = {}
  <2>1. x = ref + Nudge
    BY <1>3, <1>4
  <2>2. x \in Int /\ x > ref /\ x # None
    BY <2>1, OrderAssumption
  <2> QED BY <1>1, <1>4, <2>2 DEF x, values
<1>5. CASE above # {}
  <2> DEFINE hi == O!Min(above)
  <2>1. hi \in above /\ hi \in Int /\ \A w \in above : hi =< w
    BY <1>2, <1>5, MaxIs
  <2>2. hi > ref /\ \E t \in others : orders[t] = hi
    BY <1>2, <2>1
  <2>3. x = O!midpoint(hi, ref)
    BY <1>3, <1>5
  <2> HIDE DEF hi
  <2>4. /\ x # None => x \in Int /\ ref < x /\ x < hi
        /\ x = None => hi =< ref + 1
    BY <2>1, <2>2, <2>3, MidpointIs
  <2>5. ASSUME x # None, NEW t \in others, ref < orders[t], orders[t] <= x PROVE FALSE
    <3>1. orders[t] \in above
      BY <1>1, <2>5
    <3>2. hi =< orders[t] /\ x < hi /\ x \in Int
      BY <2>1, <2>4, <2>5, <3>1
    <3> QED BY <2>1, <2>5, <3>2
  <2>6. x = None => hi = ref + 1
    BY <2>1, <2>2, <2>4
  <2> QED BY <2>2, <2>4, <2>5, <2>6 DEF x, values
<1> QED BY <1>4, <1>5

\* Next below an order, with nothing between; none only if the next order is taken.
LEMMA AfterFits ==
    ASSUME NEW others, IsFiniteSet(others), NEW orders, \A t \in others : orders[t] \in Int,
           NEW ref \in Int
    PROVE  LET x == O!after({orders[t] : t \in others}, ref)
           IN  /\ x # None => /\ x \in Int /\ x < ref
                              /\ \A t \in others : ~(x <= orders[t] /\ orders[t] < ref)
               /\ x = None => \E t \in others : orders[t] = ref - 1
<1> DEFINE values == {orders[t] : t \in others}
           below  == {v \in values : v < ref}
           x      == O!after(values, ref)
<1>1. \A t \in others : orders[t] < ref => orders[t] \in below
  OBVIOUS
<1>2. below \in SUBSET Int /\ \A v \in below : v < ref /\ \E t \in others : orders[t] = v
  OBVIOUS
<1>3. x = IF below = {} THEN ref - Nudge ELSE O!midpoint(ref, O!Max(below))
  BY DEF O!after
<1> HIDE DEF x, below, values
<1>4. CASE below = {}
  <2>1. x = ref - Nudge
    BY <1>3, <1>4
  <2>2. x \in Int /\ x < ref /\ x # None
    BY <2>1, OrderAssumption
  <2> QED BY <1>1, <1>4, <2>2 DEF x, values
<1>5. CASE below # {}
  <2> DEFINE lo == O!Max(below)
  <2>1. lo \in below /\ lo \in Int /\ \A w \in below : lo >= w
    BY <1>2, <1>5, MaxIs
  <2>2. lo < ref /\ \E t \in others : orders[t] = lo
    BY <1>2, <2>1
  <2>3. x = O!midpoint(ref, lo)
    BY <1>3, <1>5
  <2> HIDE DEF lo
  <2>4. /\ x # None => x \in Int /\ lo < x /\ x < ref
        /\ x = None => ref =< lo + 1
    BY <2>1, <2>2, <2>3, MidpointIs
  <2>5. ASSUME x # None, NEW t \in others, x <= orders[t], orders[t] < ref PROVE FALSE
    <3>1. orders[t] \in below
      BY <1>1, <2>5
    <3>2. lo >= orders[t] /\ lo < x /\ x \in Int
      BY <2>1, <2>4, <2>5, <3>1
    <3> QED BY <2>1, <2>5, <3>2
  <2>6. x = None => lo = ref - 1
    BY <2>1, <2>2, <2>4
  <2> QED BY <2>2, <2>4, <2>5, <2>6 DEF x, values
<1> QED BY <1>4, <1>5

\* Between the two that will be its neighbours.
LEMMA IndexFits ==
    ASSUME NEW others, IsFiniteSet(others), NEW orders, \A t \in others : orders[t] \in Int,
           NEW at \in Nat, at > 1, at <= Cardinality(others)
    PROVE  LET x == O!midpoint(O!Rank(others, orders, at - 1), O!Rank(others, orders, at))
               Fit(y) == /\ \A t \in others : orders[t] # y
                         /\ Cardinality({t \in others : orders[t] > y}) = at - 1
           IN  /\ x # None => x \in Int /\ Fit(x)
               /\ x = None => \A y \in Int : ~Fit(y)
<1> DEFINE hi == O!Rank(others, orders, at - 1)
           lo == O!Rank(others, orders, at)
           Over(v) == {t \in others : orders[t] > v}
           From(v) == {t \in others : orders[t] >= v}
           x == O!midpoint(hi, lo)
<1>1. Cardinality(others) \in Nat /\ at \in 1..Cardinality(others)
      /\ at - 1 \in 1..Cardinality(others)
  BY FS_CardinalityType
<1>2. hi \in Int /\ Cardinality(Over(hi)) < at - 1 /\ Cardinality(From(hi)) >= at - 1
  BY <1>1, RankIs
<1>3. lo \in Int /\ Cardinality(Over(lo)) < at /\ Cardinality(From(lo)) >= at
  BY <1>1, RankIs
<1> HIDE DEF hi, lo
<1>4. \A v : IsFiniteSet(Over(v)) /\ IsFiniteSet(From(v))
  BY FS_Subset
<1>5. \A v : Cardinality(Over(v)) \in Nat /\ Cardinality(From(v)) \in Nat
  BY <1>4, FS_CardinalityType
<1>6. ASSUME hi < lo PROVE FALSE
  <2>1. From(lo) \subseteq Over(hi)
    BY <1>2, <1>3, <1>6
  <2>2. Cardinality(From(lo)) <= Cardinality(Over(hi))
    BY <1>4, <2>1, FS_Subset
  <2> HIDE DEF Over, From
  <2> QED BY <1>2, <1>3, <1>5, <2>2
<1>7. /\ x # None => x \in Int /\ lo < x /\ x < hi
      /\ x = None => hi =< lo + 1
  BY <1>2, <1>3, <1>6, MidpointIs
<1> HIDE DEF x
<1>8. ASSUME x # None PROVE \A t \in others : orders[t] # x
  <2> SUFFICES ASSUME NEW t \in others, orders[t] = x PROVE FALSE
    OBVIOUS
  <2>1. From(hi) \subseteq Over(lo) /\ t \in Over(lo) /\ t \notin From(hi)
    BY <1>2, <1>3, <1>7, <1>8
  <2>2. /\ Cardinality(From(hi)) <= Cardinality(Over(lo))
        /\ Cardinality(From(hi)) # Cardinality(Over(lo))
    BY <1>4, <2>1, FS_Subset
  <2> HIDE DEF Over, From
  <2> QED BY <1>2, <1>3, <1>5, <2>2
<1>9. ASSUME x # None PROVE Cardinality(Over(x)) = at - 1
  <2>1. From(hi) \subseteq Over(x) /\ Over(x) \subseteq Over(lo)
    BY <1>2, <1>3, <1>7, <1>9
  <2>2. /\ Cardinality(From(hi)) <= Cardinality(Over(x))
        /\ Cardinality(Over(x)) <= Cardinality(Over(lo))
    BY <1>4, <2>1, FS_Subset
  <2> HIDE DEF Over, From
  <2> QED BY <1>2, <1>3, <1>5, <2>2
<1>10. ASSUME x = None, NEW y \in Int, \A t \in others : orders[t] # y,
              Cardinality(Over(y)) = at - 1
       PROVE  FALSE
  <2>1. CASE y >= hi
    <3>1. Over(y) \subseteq Over(hi)
      BY <1>2, <2>1
    <3>2. Cardinality(Over(y)) <= Cardinality(Over(hi))
      BY <1>4, <3>1, FS_Subset
    <3> HIDE DEF Over, From
    <3> QED BY <1>2, <1>5, <1>10, <3>2
  <2>2. CASE y =< lo
    <3>1. From(lo) \subseteq Over(y)
      BY <1>3, <1>10, <2>2
    <3>2. Cardinality(From(lo)) <= Cardinality(Over(y))
      BY <1>4, <3>1, FS_Subset
    <3> HIDE DEF Over, From
    <3> QED BY <1>3, <1>5, <1>10, <3>2
  <2> QED BY <1>2, <1>3, <1>7, <1>10, <2>1, <2>2
<1> QED BY <1>7, <1>8, <1>9, <1>10 DEF x, hi, lo

\* computeReorder fits wherever it answers, and nothing fits where it does not.
LEMMA ComputedFits ==
    ASSUME NEW p \in O!Positions, NEW others, IsFiniteSet(others),
           NEW orders, \A t \in others : orders[t] \in Int,
           NEW refAt, p.kind \in O!Relative => refAt \in Int
    PROVE  LET x == O!computeReorder(p, others, orders, refAt)
           IN  /\ x # None => x \in Int /\ Placed(p, others, orders, refAt, x)
               /\ x = None => \A y \in Int : ~Placed(p, others, orders, refAt, y)
<1> DEFINE values == {orders[t] : t \in others}
           count == Cardinality(others)
           x == O!computeReorder(p, others, orders, refAt)
<1>1. \A y \in Int : y # None
  BY OrderAssumption
<1>2. /\ O!top(values) \in Int /\ \A t \in others : orders[t] < O!top(values)
      /\ O!bottom(values) \in Int /\ \A t \in others : orders[t] > O!bottom(values)
  BY EdgesFit
<1>3. CASE p.kind = "top"
  <2>1. x = O!top(values)
    BY <1>3 DEF O!computeReorder
  <2> HIDE DEF x, values
  <2> QED BY <1>1, <1>2, <1>3, <2>1 DEF Placed, x
<1>4. CASE p.kind = "bottom"
  <2>1. x = O!bottom(values)
    BY <1>4 DEF O!computeReorder
  <2> HIDE DEF x, values
  <2> QED BY <1>1, <1>2, <1>4, <2>1 DEF Placed, x
<1>5. CASE p.kind = "before"
  <2>1. x = O!before(values, refAt) /\ refAt \in Int
    BY <1>5 DEF O!computeReorder, O!Relative
  <2> HIDE DEF x
  <2>2. /\ x # None => /\ x \in Int /\ x > refAt
                       /\ \A t \in others : ~(refAt < orders[t] /\ orders[t] <= x)
        /\ x = None => \E t \in others : orders[t] = refAt + 1
    BY <2>1, BeforeFits
  <2>3. ASSUME x = None, NEW y \in Int PROVE ~Placed(p, others, orders, refAt, y)
    <3>1. PICK t \in others : orders[t] = refAt + 1
      BY <2>2, <2>3
    <3> QED BY <1>5, <2>1, <3>1 DEF Placed
  <2>4. x # None => x \in Int /\ Placed(p, others, orders, refAt, x)
    BY <1>5, <2>2 DEF Placed
  <2> QED BY <2>3, <2>4 DEF x
<1>6. CASE p.kind = "after"
  <2>1. x = O!after(values, refAt) /\ refAt \in Int
    BY <1>6 DEF O!computeReorder, O!Relative
  <2> HIDE DEF x
  <2>2. /\ x # None => /\ x \in Int /\ x < refAt
                       /\ \A t \in others : ~(x <= orders[t] /\ orders[t] < refAt)
        /\ x = None => \E t \in others : orders[t] = refAt - 1
    BY <2>1, AfterFits
  <2>3. ASSUME x = None, NEW y \in Int PROVE ~Placed(p, others, orders, refAt, y)
    <3>1. PICK t \in others : orders[t] = refAt - 1
      BY <2>2, <2>3
    <3> QED BY <1>6, <2>1, <3>1 DEF Placed
  <2>4. x # None => x \in Int /\ Placed(p, others, orders, refAt, x)
    BY <1>6, <2>2 DEF Placed
  <2> QED BY <2>3, <2>4 DEF x
<1>7. CASE p.kind = "index"
  <2>1. p.at \in Nat /\ p.at > 0 /\ count \in Nat /\ (count = 0 <=> others = {})
    <3>1. p.at \in Nat \ {0}
      BY <1>7, PositionIs
    <3> QED BY <3>1, FS_CardinalityType, FS_EmptySet
  <2>2. x = IF p.at <= 1 \/ count = 0 THEN O!top(values)
            ELSE IF p.at > count THEN O!bottom(values)
            ELSE O!midpoint(O!Rank(others, orders, p.at - 1), O!Rank(others, orders, p.at))
    BY <1>7, SameCount DEF O!computeReorder
  <2> HIDE DEF x, values
  <2>3. CASE p.at <= 1 \/ count = 0
    <3>1. x = O!top(values)
      BY <2>2, <2>3
    <3>2. x \in Int /\ \A t \in others : orders[t] < x
      BY <1>2, <3>1
    <3>3. {t \in others : orders[t] > x} = {} /\ \A t \in others : orders[t] # x
      BY <3>2
    <3>4. Cardinality({t \in others : orders[t] > x}) = 0
      BY <3>3, FS_EmptySet
    <3> QED BY <1>1, <1>7, <2>1, <2>3, <3>2, <3>3, <3>4 DEF Placed, x
  <2>4. CASE p.at > count /\ ~(p.at <= 1 \/ count = 0)
    <3>1. x = O!bottom(values)
      BY <2>2, <2>4
    <3>2. x \in Int /\ \A t \in others : orders[t] > x
      BY <1>2, <3>1
    <3>3. {t \in others : orders[t] > x} = others /\ \A t \in others : orders[t] # x
      BY <3>2
    <3> QED BY <1>1, <1>7, <2>1, <2>4, <3>2, <3>3 DEF Placed, x
  <2>5. CASE p.at > 1 /\ p.at <= count
    <3>1. x = O!midpoint(O!Rank(others, orders, p.at - 1), O!Rank(others, orders, p.at))
      BY <2>1, <2>2, <2>5
    <3> DEFINE Fit(y) == /\ \A t \in others : orders[t] # y
                         /\ Cardinality({t \in others : orders[t] > y}) = p.at - 1
    <3>2. /\ x # None => x \in Int /\ Fit(x)
          /\ x = None => \A y \in Int : ~Fit(y)
      BY <2>1, <2>5, <3>1, IndexFits
    <3>3. \A y : Placed(p, others, orders, refAt, y) <=> Fit(y)
      BY <1>7, <2>1, <2>5 DEF Placed
    <3> HIDE DEF Fit
    <3> QED BY <3>2, <3>3 DEF x
  <2> QED BY <2>1, <2>3, <2>4, <2>5
<1>8. CASE p.kind = "set"
  <2>1. x = p.at /\ p.at \in Int
    BY <1>8, PositionIs DEF O!computeReorder
  <2> QED BY <1>1, <1>8, <2>1 DEF Placed
<1> QED BY <1>3, <1>4, <1>5, <1>6, <1>7, <1>8, PositionIs

-----------------------------------------------------------------------------
(* The tools.                                                                *)

OrderFields == {"pc", "tool", "mover", "position", "seen", "new", "raced"}
Moving      == {"patching", "noting", "ok"}

\* The orders that the tool's position is among.
Cur == IF call.tool = "my_day" THEN index ELSE graph

\* Fits(), of any call.
PlacedIn(tool, mover, p, orders, x) ==
    Placed(p, O!Others(tool, mover, orders) \ {mover}, orders, orders[p.ref], x)

OrderTypes ==
    /\ graph \in Orderings /\ index \in Orderings /\ DOMAIN call = OrderFields
    /\ call.pc \in {"idle", "reading", "reference", "exhausted", "refused", "failed"} \cup Moving
    /\ call.raced \in {"no", "reference", "yes"}
    /\ call.pc # "idle" => /\ call.tool \in {"task", "item", "my_day"}
                           /\ call.mover \in Numbered /\ call.position \in O!Positions

\* What has been read differs from what is, at most, by what others moved since.
ReadIsCurrent ==
    call.pc = "reference" =>
        /\ call.seen \in Orderings /\ call.tool = "task" /\ call.position.kind \in O!Relative
        /\ call.raced = "no" => call.seen = graph
        /\ call.raced = "reference" =>
              \A t \in Numbered \ {call.position.ref} : call.seen[t] = graph[t]

NewFits ==
    /\ call.pc \in Moving =>
          call.new \in Int /\ (call.position.kind \in O!Relative => call.position.ref \in Numbered)
    /\ call.pc = "noting" => call.tool = "my_day"
    /\ call.pc = "ok" => Cur[call.mover] = call.new
    /\ /\ call.pc \in Moving /\ call.raced # "yes" /\ call.position.ref # call.mover
       /\ call.position.kind = "index" => call.mover \notin Renamed
       => PlacedIn(call.tool, call.mover, call.position, Cur, call.new)

NothingFits ==
    /\ call.pc = "exhausted" /\ call.raced = "no" /\ call.mover \notin Renamed
    /\ call.position.ref # call.mover
    => \A x \in Int : ~PlacedIn(call.tool, call.mover, call.position, Cur, x)

OrderOk == OrderTypes /\ ReadIsCurrent /\ NewFits /\ NothingFits

\* Fits, of a call that is on, in terms of the position.
LEMMA FitsIs ==
    ASSUME OrderTypes, call.pc # "idle", NEW orders \in Orderings, NEW x \in Int
    PROVE  O!Fits(x, orders) <=> PlacedIn(call.tool, call.mover, call.position, orders, x)
<1> DEFINE others == O!Others(call.tool, call.mover, orders) \ {call.mover}
           p == call.position
<1>1. p \in O!Positions
  BY DEF OrderTypes
<1>2. \A t \in others : orders[t] \in Int
  BY DEF O!Others, Orderings
<1>3. CASE p.kind = "top"
  BY <1>2, <1>3 DEF O!Fits, PlacedIn, Placed
<1>4. CASE p.kind = "bottom"
  BY <1>2, <1>4 DEF O!Fits, PlacedIn, Placed
<1>5. CASE p.kind = "before"
  BY <1>5 DEF O!Fits, PlacedIn, Placed
<1>6. CASE p.kind = "after"
  BY <1>6 DEF O!Fits, PlacedIn, Placed
<1>7. CASE p.kind = "index"
  BY <1>7, SameCount DEF O!Fits, PlacedIn, Placed
<1>8. CASE p.kind = "set"
  BY <1>8 DEF O!Fits, PlacedIn, Placed
<1> QED BY <1>1, <1>3, <1>4, <1>5, <1>6, <1>7, <1>8, PositionIs

\* Where the mover itself is says nothing of where it belongs.
LEMMA FitsKeeps ==
    ASSUME NEW tool, NEW mover, NEW p, NEW one, NEW two, NEW x,
           p.ref # mover, p.kind \in O!Relative => p.ref \in Numbered,
           \A t \in Numbered \ {mover} : one[t] = two[t]
    PROVE  PlacedIn(tool, mover, p, one, x) <=> PlacedIn(tool, mover, p, two, x)
<1> DEFINE others == O!Others(tool, mover, one) \ {mover}
<1>1. others = O!Others(tool, mover, two) \ {mover} /\ others \subseteq Numbered \ {mover}
  BY DEF O!Others
<1>2. \A t \in others : one[t] = two[t]
  BY <1>1
<1>3. p.kind \in O!Relative => one[p.ref] = two[p.ref]
  OBVIOUS
<1> HIDE DEF others
<1>4. \A y : {t \in others : one[t] > y} = {t \in others : two[t] > y}
  BY <1>2
<1> QED BY <1>1, <1>2, <1>3, <1>4 DEF PlacedIn, Placed, O!Relative, others

\* An order that fits among what was read fits among what is there now, if nothing
\* but the reference moved; and the other way round, if nothing did.
LEMMA FitsNow ==
    ASSUME NEW tool, NEW mover, NEW p, NEW seen, NEW cur, NEW x \in Int, p.ref # mover,
           p.kind = "index" => mover \notin Renamed,
           \/ seen = cur
           \/ /\ p.kind \in {"before", "after"} /\ cur[p.ref] \in Int
              /\ \A t \in Numbered \ {p.ref} : seen[t] = cur[t],
           Placed(p, O!Others(tool, mover, seen), seen, cur[p.ref], x)
    PROVE  PlacedIn(tool, mover, p, cur, x)
<1> DEFINE others == O!Others(tool, mover, seen)
           now == O!Others(tool, mover, cur) \ {mover}
<1>1. CASE seen = cur
  <2>1. now \subseteq others /\ (mover \notin Renamed => now = others)
    BY <1>1 DEF O!Others
  <2> HIDE DEF now, others
  <2>2. Placed(p, now, cur, cur[p.ref], x)
    BY <1>1, <2>1 DEF Placed, others
  <2> QED BY <2>2 DEF PlacedIn, now
<1>2. CASE /\ p.kind \in {"before", "after"} /\ cur[p.ref] \in Int
           /\ \A t \in Numbered \ {p.ref} : seen[t] = cur[t]
  <2>1. \A t \in now : t = p.ref \/ (t \in others /\ seen[t] = cur[t])
    BY <1>2 DEF O!Others
  <2> HIDE DEF now, others
  <2>2. Placed(p, now, cur, cur[p.ref], x)
    BY <1>2, <2>1 DEF Placed, others
  <2> QED BY <2>2 DEF PlacedIn, now
<1> QED BY <1>1, <1>2

\* The answer, or the order to write, once the others and the reference are read.
LEMMA ComputedOk ==
    ASSUME OrderOk, call.pc \in {"reading", "reference"}, NEW seen \in Orderings,
           NEW refAt \in Int \cup {None},
           call.position.kind \in O!Relative =>
              call.position.ref \in Numbered /\ refAt = Cur[call.position.ref],
           \/ seen = Cur \/ call.raced = "yes"
           \/ /\ call.position.kind \in O!Relative /\ call.raced = "reference"
              /\ \A t \in Numbered \ {call.position.ref} : seen[t] = Cur[t],
           call' = O!Computed(seen, refAt), UNCHANGED <<graph, index>>
    PROVE  OrderOk'
<1> DEFINE p == call.position
           others == O!Others(call.tool, call.mover, seen)
           x == O!computeReorder(p, others, seen, refAt)
<1>1. /\ p \in O!Positions /\ DOMAIN call = OrderFields /\ Cur \in Orderings
      /\ call.tool \in {"task", "item", "my_day"} /\ call.mover \in Numbered
      /\ call.raced \in {"no", "reference", "yes"} /\ OrderTypes
  BY DEF OrderOk, OrderTypes, Cur
<1>2. /\ IsFiniteSet(others) /\ \A t \in others : seen[t] \in Int
      /\ call.mover \notin Renamed => call.mover \notin others
  BY OthersAre
<1>3. CASE p.kind \in O!Relative /\ refAt = None
  <2>1. call' = [call EXCEPT !.pc = "refused"]
    BY <1>3 DEF O!Computed
  <2> QED BY <1>1, <2>1 DEF OrderOk, OrderTypes, ReadIsCurrent, NewFits, NothingFits, OrderFields,
                              Moving
<1>4. CASE ~(p.kind \in O!Relative /\ refAt = None)
  <2>1. p.kind \in O!Relative => refAt \in Int
    BY <1>4
  <2> HIDE DEF others
  <2>2. /\ x # None => x \in Int /\ Placed(p, others, seen, refAt, x)
        /\ x = None => \A y \in Int : ~Placed(p, others, seen, refAt, y)
    BY <1>1, <1>2, <2>1, ComputedFits
  <2>3. call' = IF x = None THEN [call EXCEPT !.pc = "exhausted"]
                ELSE [call EXCEPT !.pc = "patching", !.new = x]
    BY <1>4 DEF O!Computed, others
  <2> HIDE DEF x
  <2>4. \A y : p.kind \notin O!Relative =>
           (Placed(p, others, seen, refAt, y) <=> Placed(p, others, seen, Cur[p.ref], y))
    BY DEF Placed, O!Relative
  <2>5. CASE x = None
    <3>1. /\ call'.pc = "exhausted" /\ call'.raced = call.raced /\ call'.mover = call.mover
          /\ call'.tool = call.tool /\ call'.position = p /\ DOMAIN call' = OrderFields
      BY <1>1, <2>3, <2>5 DEF OrderFields
    <3>2. Cur' = Cur
      BY <3>1 DEF Cur
    <3>3. ASSUME call.raced = "no", call.mover \notin Renamed, p.ref # call.mover, NEW y \in Int
          PROVE  ~PlacedIn(call.tool, call.mover, p, Cur, y)
      <4>1. seen = Cur
        BY <3>3
      <4>2. others = O!Others(call.tool, call.mover, Cur) \ {call.mover}
        BY <1>2, <3>3, <4>1 DEF others
      <4>3. ~Placed(p, others, seen, Cur[p.ref], y)
        BY <2>2, <2>4, <2>5, <3>3
      <4> QED BY <4>1, <4>2, <4>3 DEF PlacedIn
    <3>4. NothingFits'
      BY <3>1, <3>2, <3>3 DEF NothingFits
    <3>5. OrderTypes' /\ ReadIsCurrent' /\ NewFits'
      BY <1>1, <3>1 DEF OrderTypes, ReadIsCurrent, NewFits, Moving
    <3> QED BY <3>4, <3>5 DEF OrderOk
  <2>6. CASE x # None
    <3>1. /\ call'.pc = "patching" /\ call'.raced = call.raced /\ call'.mover = call.mover
          /\ call'.tool = call.tool /\ call'.position = p /\ call'.new = x
          /\ DOMAIN call' = OrderFields
      BY <1>1, <2>3, <2>6 DEF OrderFields
    <3>2. Cur' = Cur
      BY <3>1 DEF Cur
    <3>3. ASSUME call.raced # "yes", p.ref # call.mover,
                 p.kind = "index" => call.mover \notin Renamed
          PROVE  PlacedIn(call.tool, call.mover, p, Cur, x)
      <4>1. x \in Int /\ Placed(p, others, seen, Cur[p.ref], x)
        BY <2>2, <2>4, <2>6
      <4>2. \/ seen = Cur
            \/ /\ p.kind \in {"before", "after"} /\ Cur[p.ref] \in Int
               /\ \A t \in Numbered \ {p.ref} : seen[t] = Cur[t]
        BY <2>1, <3>3 DEF O!Relative
      <4> DEFINE cur == Cur
      <4> HIDE DEF cur
      <4>3. /\ Placed(p, O!Others(call.tool, call.mover, seen), seen, cur[p.ref], x)
            /\ \/ seen = cur
               \/ /\ p.kind \in {"before", "after"} /\ cur[p.ref] \in Int
                  /\ \A t \in Numbered \ {p.ref} : seen[t] = cur[t]
        BY <4>1, <4>2 DEF others, cur
      <4>4. PlacedIn(call.tool, call.mover, p, cur, x)
        BY <3>3, <4>1, <4>3, FitsNow
      <4> QED BY <4>4 DEF cur
    <3>4. NewFits'
      BY <2>2, <2>6, <3>1, <3>2, <3>3 DEF NewFits, Moving
    <3>5. OrderTypes' /\ ReadIsCurrent' /\ NothingFits'
      BY <1>1, <3>1 DEF OrderTypes, ReadIsCurrent, NothingFits, Moving
    <3> QED BY <3>4, <3>5 DEF OrderOk
  <2> QED BY <2>5, <2>6
<1> QED BY <1>3, <1>4

LEMMA OrderInit == O!Init => OrderOk
<1> SUFFICES ASSUME O!Init PROVE OrderOk
  OBVIOUS
<1>1. graph \in Orderings /\ index \in Orderings
  BY OrderAssumption DEF O!Init, Orderings
<1>2. DOMAIN call = OrderFields /\ call.pc = "idle" /\ call.raced = "no"
  BY DEF O!Init, O!NoCall, OrderFields
<1> QED BY <1>1, <1>2 DEF OrderOk, OrderTypes, ReadIsCurrent, NewFits, NothingFits, Moving

\* A call that ends without having written anything.
LEMMA GivesUp ==
    ASSUME OrderOk, call.pc # "idle", NEW pc \in {"refused", "failed"},
           call' = [call EXCEPT !.pc = pc], graph' \in Orderings, index' = index
    PROVE  OrderOk'
<1>1. /\ DOMAIN call' = OrderFields /\ call'.pc = pc /\ call'.raced = call.raced
      /\ call'.tool = call.tool /\ call'.mover = call.mover /\ call'.position = call.position
  BY DEF OrderOk, OrderTypes, OrderFields
<1> QED BY <1>1 DEF OrderOk, OrderTypes, ReadIsCurrent, NewFits, NothingFits, Moving

\* The mover has got its order.
LEMMA MoverPut ==
    ASSUME NEW orders \in Orderings, NEW mover \in Numbered, NEW x \in Int
    PROVE  LET put == [orders EXCEPT ![mover] = x]
           IN  /\ put \in Orderings /\ put[mover] = x
               /\ \A t \in Numbered \ {mover} : put[t] = orders[t]
BY DEF Orderings

LEMMA OrderBegins ==
    ASSUME OrderOk, NEW tool \in {"task", "item", "my_day"}, NEW mover \in Numbered,
           NEW p \in O!Positions, O!Begin(tool, mover, p)
    PROVE  OrderOk'
<1>1. /\ call' = [O!NoCall EXCEPT !.pc = "reading", !.tool = tool, !.mover = mover,
                                  !.position = p]
      /\ graph' = graph /\ index' = index
  BY DEF O!Begin
<1>2. /\ DOMAIN call' = OrderFields /\ call'.pc = "reading" /\ call'.raced = "no"
      /\ call'.tool = tool /\ call'.mover = mover /\ call'.position = p
  BY <1>1 DEF O!NoCall, OrderFields
<1> QED BY <1>1, <1>2 DEF OrderOk, OrderTypes, ReadIsCurrent, NewFits, NothingFits, Moving

\* A read of the others, or of the reference.
LEMMA Reads ==
    ASSUME OrderOk, O!ReadTasks \/ O!ReadItems \/ O!ReadDay \/ O!ReadReference
    PROVE  OrderOk'
<1> DEFINE p == call.position
<1>1. /\ OrderTypes /\ call.pc # "idle" /\ p \in O!Positions /\ call.pc \in {"reading", "reference"}
      /\ graph' = graph /\ index' = index /\ Cur \in Orderings /\ DOMAIN call = OrderFields
  BY DEF OrderOk, OrderTypes, Cur, O!ReadTasks, O!ReadItems, O!ReadDay, O!ReadReference, O!ReadOnce
<1>2. p.ref \in Numbered => Cur[p.ref] \in Int \cup {None}
  BY <1>1 DEF Orderings
<1>3. p.kind \in O!Relative => p.ref \in Numbered \cup {None}
  BY <1>1, PositionIs DEF O!Relative
<1>4. CASE O!ReadTasks
  <2>1. Cur = graph /\ call.pc = "reading" /\ call.tool = "task"
    BY <1>4 DEF O!ReadTasks, Cur
  <2>2. CASE p.kind \notin O!Relative
    <3>1. call' = O!Computed(graph, None)
      BY <1>4, <2>2 DEF O!ReadTasks
    <3> QED BY <1>1, <2>1, <2>2, <3>1, ComputedOk
  <2>3. CASE p.kind \in O!Relative
    <3>1. call' = [call EXCEPT !.pc = "reference", !.seen = graph]
      BY <1>4, <2>3 DEF O!ReadTasks
    <3>2. /\ DOMAIN call' = OrderFields /\ call'.pc = "reference" /\ call'.raced = call.raced
          /\ call'.tool = "task" /\ call'.mover = call.mover /\ call'.position = p
          /\ call'.seen = graph
      BY <1>1, <2>1, <3>1 DEF OrderFields
    <3> QED BY <1>1, <2>3, <3>2 DEF OrderOk, OrderTypes, ReadIsCurrent, NewFits, NothingFits, Moving
  <2> QED BY <2>2, <2>3
<1>5. CASE O!ReadItems \/ O!ReadDay
  <2>1. O!ReadOnce(Cur) \/ call' = [call EXCEPT !.pc = "refused"]
    BY <1>5 DEF O!ReadItems, O!ReadDay, Cur
  <2>a. CASE call' = [call EXCEPT !.pc = "refused"]
    BY <1>1, <2>a, GivesUp DEF OrderTypes
  <2>2. CASE O!ReadOnce(Cur) /\ p.kind \notin O!Relative
    <3>1. call' = O!Computed(Cur, None)
      BY <2>1, <2>2 DEF O!ReadOnce
    <3> QED BY <1>1, <2>2, <3>1, ComputedOk
  <2>3. CASE O!ReadOnce(Cur) /\ p.kind \in O!Relative /\ p.ref = None
    <3>1. call' = [call EXCEPT !.pc = "refused"]
      BY <2>1, <2>3 DEF O!ReadOnce
    <3> QED BY <1>1, <3>1, GivesUp DEF OrderTypes
  <2>4. CASE O!ReadOnce(Cur) /\ p.kind \in O!Relative /\ p.ref # None
    <3>1. call' = O!Computed(Cur, Cur[p.ref])
      BY <2>1, <2>4 DEF O!ReadOnce
    <3>2. p.ref \in Numbered /\ Cur[p.ref] \in Int \cup {None}
      BY <1>2, <1>3, <2>4
    <3> QED BY <1>1, <2>4, <3>1, <3>2, ComputedOk
  <2> QED BY <2>1, <2>2, <2>3, <2>4, <2>a
<1>6. CASE O!ReadReference
  <2>1. /\ Cur = graph /\ call.pc = "reference" /\ call.seen \in Orderings
        /\ p.kind \in O!Relative
        /\ call.raced = "no" => call.seen = graph
        /\ call.raced = "reference" => \A t \in Numbered \ {p.ref} : call.seen[t] = graph[t]
    BY <1>6 DEF O!ReadReference, OrderOk, ReadIsCurrent, Cur
  <2>2. CASE p.ref = None
    <3>1. call' = [call EXCEPT !.pc = "refused"]
      BY <1>6, <2>2 DEF O!ReadReference
    <3> QED BY <1>1, <3>1, GivesUp DEF OrderTypes
  <2>3. CASE p.ref # None
    <3>1. call' = O!Computed(call.seen, Cur[p.ref])
      BY <1>6, <2>1, <2>3 DEF O!ReadReference
    <3>2. p.ref \in Numbered /\ Cur[p.ref] \in Int \cup {None}
      BY <1>2, <1>3, <2>1, <2>3
    <3>3. \/ call.seen = Cur \/ call.raced = "yes"
          \/ /\ p.kind \in O!Relative /\ call.raced = "reference"
             /\ \A t \in Numbered \ {p.ref} : call.seen[t] = Cur[t]
      BY <1>1, <2>1 DEF OrderTypes
    <3> QED BY <1>1, <2>1, <3>1, <3>2, <3>3, ComputedOk
  <2> QED BY <2>2, <2>3
<1> QED BY <1>4, <1>5, <1>6

\* The mover gets its order in Graph.
LEMMA OrderIsPatched == ASSUME OrderOk, O!Patch PROVE OrderOk'
<1>1. /\ OrderTypes /\ call.pc = "patching" /\ DOMAIN call = OrderFields /\ call.mover \in Numbered
      /\ call.new \in Int /\ graph \in Orderings /\ index' = index
      /\ call.position.kind \in O!Relative => call.position.ref \in Numbered
      /\ graph' = [graph EXCEPT ![call.mover] = call.new]
  BY DEF OrderOk, OrderTypes, NewFits, Moving, O!Patch
<1>2. /\ graph' \in Orderings /\ graph'[call.mover] = call.new
      /\ \A t \in Numbered \ {call.mover} : graph'[t] = graph[t]
  BY <1>1 DEF Orderings
<1>3. /\ DOMAIN call' = OrderFields /\ call'.raced = call.raced
      /\ call'.tool = call.tool /\ call'.mover = call.mover /\ call'.position = call.position
      /\ call'.new = call.new
      /\ call'.pc = IF call.tool = "my_day" THEN "noting" ELSE "ok"
  BY <1>1 DEF O!Patch, OrderFields
<1>4. \A t \in Numbered \ {call.mover} : Cur'[t] = Cur[t]
  BY <1>1, <1>2, <1>3 DEF Cur
<1>5. ASSUME call.raced # "yes", call.position.ref # call.mover,
             call.position.kind = "index" => call.mover \notin Renamed
      PROVE  PlacedIn(call.tool, call.mover, call.position, Cur', call.new)
  <2>1. PlacedIn(call.tool, call.mover, call.position, Cur, call.new)
    BY <1>1, <1>5 DEF OrderOk, NewFits, Moving
  <2> DEFINE cur == Cur
             nxt == Cur'
  <2>2. \A t \in Numbered \ {call.mover} : cur[t] = nxt[t]
    BY <1>4
  <2> HIDE DEF cur, nxt
  <2>3. PlacedIn(call.tool, call.mover, call.position, cur, call.new)
           <=> PlacedIn(call.tool, call.mover, call.position, nxt, call.new)
    BY <1>1, <1>5, <2>2, FitsKeeps
  <2> QED BY <2>1, <2>3 DEF cur, nxt
<1>6. NewFits'
  BY <1>1, <1>2, <1>3, <1>5 DEF NewFits, Moving, Cur
<1> QED BY <1>1, <1>2, <1>3, <1>6 DEF OrderOk, OrderTypes, ReadIsCurrent, NothingFits, Moving

\* The mover gets its order in the cached day.
LEMMA OrderIsNoted == ASSUME OrderOk, O!Note PROVE OrderOk'
<1>1. /\ OrderTypes /\ call.pc = "noting" /\ DOMAIN call = OrderFields /\ call.mover \in Numbered
      /\ call.new \in Int /\ index \in Orderings /\ graph' = graph /\ graph \in Orderings
      /\ call.position.kind \in O!Relative => call.position.ref \in Numbered
      /\ call.tool = "my_day" /\ Cur = index
  BY DEF OrderOk, OrderTypes, NewFits, Moving, Cur, O!Note
<1>2. CASE index' = [index EXCEPT ![call.mover] = call.new] /\ call' = [call EXCEPT !.pc = "ok"]
  <2>1. /\ index' \in Orderings /\ index'[call.mover] = call.new
        /\ \A t \in Numbered \ {call.mover} : index'[t] = index[t]
    BY <1>1, <1>2 DEF Orderings
  <2>2. /\ DOMAIN call' = OrderFields /\ call'.raced = call.raced /\ call'.pc = "ok"
        /\ call'.tool = call.tool /\ call'.mover = call.mover /\ call'.position = call.position
        /\ call'.new = call.new
    BY <1>1, <1>2 DEF OrderFields
  <2>3. Cur' = index'
    BY <1>1, <2>2 DEF Cur
  <2>4. ASSUME call.raced # "yes", call.position.ref # call.mover,
               call.position.kind = "index" => call.mover \notin Renamed
        PROVE  PlacedIn(call.tool, call.mover, call.position, index', call.new)
    <3>1. PlacedIn(call.tool, call.mover, call.position, index, call.new)
      BY <1>1, <2>4 DEF OrderOk, NewFits, Moving
    <3> DEFINE nxt == index'
    <3>2. \A t \in Numbered \ {call.mover} : index[t] = nxt[t]
      BY <2>1
    <3> HIDE DEF nxt
    <3>3. PlacedIn(call.tool, call.mover, call.position, index, call.new)
             <=> PlacedIn(call.tool, call.mover, call.position, nxt, call.new)
      BY <1>1, <2>4, <3>2, FitsKeeps
    <3> QED BY <3>1, <3>3 DEF nxt
  <2>5. NewFits'
    BY <1>1, <2>1, <2>2, <2>3, <2>4 DEF NewFits, Moving
  <2> QED BY <1>1, <2>1, <2>2, <2>5 DEF OrderOk, OrderTypes, ReadIsCurrent, NothingFits, Moving
<1>3. CASE index' = index /\ call' = [call EXCEPT !.pc = "failed"]
  BY <1>1, <1>3, GivesUp
<1> QED BY <1>2, <1>3 DEF O!Note

\* Somebody else moves something, or a scan stores what it has read.
LEMMA OthersMove ==
    ASSUME OrderOk, NEW t \in Numbered, NEW v \in Orders, O!Move(t, v)
    PROVE  OrderOk'
<1>1. /\ OrderTypes /\ call.pc \notin {"idle", "ok", "exhausted", "refused", "failed"}
      /\ DOMAIN call = OrderFields /\ graph \in Orderings /\ index' = index
      /\ graph' = [graph EXCEPT ![t] = v] /\ v \in Int
  BY OrderAssumption DEF OrderOk, OrderTypes, O!Move, O!AtRest, O!Answers
<1>2. graph' \in Orderings /\ \A u \in Numbered \ {t} : graph'[u] = graph[u]
  BY <1>1 DEF Orderings
<1>3. CASE call' = call /\ (call.tool \notin {"task", "item"} \/ call.pc = "reading")
  <2>1. call.pc = "reference" => call.tool = "task"
    BY DEF OrderOk, ReadIsCurrent
  <2>2. call.tool = "my_day" \/ call.pc = "reading"
    BY <1>1, <1>3 DEF OrderTypes
  <2>3. call.tool = "my_day" => Cur' = Cur
    BY <1>1, <1>3 DEF Cur
  <2>4. OrderTypes'
    BY <1>1, <1>2, <1>3 DEF OrderTypes
  <2>5. NewFits'
    BY <1>1, <1>3, <2>2, <2>3 DEF OrderOk, NewFits, Moving
  <2> QED BY <1>1, <1>3, <2>1, <2>2, <2>4, <2>5 DEF OrderOk, ReadIsCurrent, NothingFits
<1>4. CASE /\ call' = [call EXCEPT !.raced = "reference"] /\ call.pc = "reference"
           /\ t = call.position.ref /\ call.raced # "yes"
  <2>1. /\ DOMAIN call' = OrderFields /\ call'.pc = "reference" /\ call'.raced = "reference"
        /\ call'.tool = call.tool /\ call'.mover = call.mover /\ call'.position = call.position
        /\ call'.seen = call.seen
    BY <1>1, <1>4 DEF OrderFields
  <2>2. ReadIsCurrent'
    BY <1>1, <1>2, <1>4, <2>1 DEF OrderOk, OrderTypes, ReadIsCurrent
  <2> QED BY <1>1, <1>2, <2>1, <2>2 DEF OrderOk, OrderTypes, NewFits, NothingFits, Moving
<1>5. CASE call' = [call EXCEPT !.raced = "yes"]
  <2>1. /\ DOMAIN call' = OrderFields /\ call'.pc = call.pc /\ call'.raced = "yes"
        /\ call'.tool = call.tool /\ call'.mover = call.mover /\ call'.position = call.position
        /\ call'.seen = call.seen /\ call'.new = call.new
    BY <1>1, <1>5 DEF OrderFields
  <2> QED BY <1>1, <1>2, <2>1
          DEF OrderOk, OrderTypes, ReadIsCurrent, NewFits, NothingFits, Moving
<1> QED BY <1>3, <1>4, <1>5 DEF O!Move

\* A scan brings the cached day to what Graph has.
LEMMA DayIsScanned == ASSUME OrderOk, O!Scan PROVE OrderOk'
<1>1. /\ OrderTypes /\ call.pc \notin {"idle", "ok", "exhausted", "refused", "failed"}
      /\ DOMAIN call = OrderFields /\ graph' = graph /\ index' = graph
  BY DEF OrderOk, OrderTypes, O!Scan, O!AtRest, O!Answers
<1>2. CASE call.tool # "my_day"
  <2>1. call' = call /\ Cur' = Cur
    BY <1>1, <1>2 DEF O!Scan, Cur
  <2> QED BY <1>1, <1>2, <2>1 DEF OrderOk, OrderTypes, ReadIsCurrent, NewFits, NothingFits, Moving
<1>3. CASE call.tool = "my_day"
  <2>1. call' = [call EXCEPT !.raced = "yes"]
    BY <1>3 DEF O!Scan
  <2>2. /\ DOMAIN call' = OrderFields /\ call'.pc = call.pc /\ call'.raced = "yes"
        /\ call'.tool = call.tool /\ call'.mover = call.mover /\ call'.position = call.position
        /\ call'.seen = call.seen /\ call'.new = call.new
    BY <1>1, <2>1 DEF OrderFields
  <2> QED BY <1>1, <1>3, <2>2
          DEF OrderOk, OrderTypes, ReadIsCurrent, NewFits, NothingFits, Moving
<1> QED BY <1>2, <1>3

LEMMA OrderNext == ASSUME OrderOk, [O!Next]_(O!vars) PROVE OrderOk'
<1>1. ASSUME O!ReadFails PROVE OrderOk'
  <2>1. /\ call.pc # "idle" /\ call' = [call EXCEPT !.pc = "failed"] /\ graph' \in Orderings
        /\ index' = index
    BY <1>1 DEF O!ReadFails, OrderOk, OrderTypes
  <2> QED BY <2>1, GivesUp
<1>2. ASSUME O!PatchFails PROVE OrderOk'
  <2>1. /\ call.pc # "idle" /\ call' = [call EXCEPT !.pc = "failed"] /\ index' = index
        /\ graph \in Orderings /\ call.mover \in Numbered /\ call.new \in Int
        /\ graph' \in {graph, [graph EXCEPT ![call.mover] = call.new]}
    BY <1>2 DEF O!PatchFails, OrderOk, OrderTypes, NewFits, Moving
  <2>2. graph' \in Orderings
    BY <2>1, MoverPut
  <2> QED BY <2>1, <2>2, GivesUp
<1>3. ASSUME UNCHANGED O!vars PROVE OrderOk'
  <2>1. graph' = graph /\ index' = index /\ call' = call
    BY <1>3 DEF O!vars
  <2> QED BY <2>1 DEF OrderOk, OrderTypes, ReadIsCurrent, NewFits, NothingFits, Cur
<1> QED BY <1>1, <1>2, <1>3, OrderBegins, Reads, OrderIsPatched, OrderIsNoted, OthersMove,
           DayIsScanned DEF O!Next

\* What the invariant says of a call that has been answered.
LEMMA OrderSafe == ASSUME OrderOk PROVE O!AsAsked
<1>1. CASE call.pc \notin {"ok", "exhausted"}
  BY <1>1 DEF O!AsAsked
<1>2. CASE call.pc \in {"ok", "exhausted"}
  <2>1. Cur \in Orderings /\ OrderTypes /\ call.pc # "idle" /\ call.mover \in Numbered
    BY <1>2 DEF OrderOk, OrderTypes, Cur
  <2>2. ASSUME call.pc = "ok", call.raced # "yes", call.position.ref # call.mover,
               call.position.kind = "index" => call.mover \notin Renamed
        PROVE  O!Fits(Cur[call.mover], Cur)
    <3>1. /\ Cur[call.mover] = call.new /\ call.new \in Int
          /\ PlacedIn(call.tool, call.mover, call.position, Cur, call.new)
      BY <2>2 DEF OrderOk, NewFits, Moving
    <3>2. O!Fits(call.new, Cur)
      BY <2>1, <3>1, FitsIs
    <3> QED BY <3>1, <3>2
  <2>3. ASSUME call.pc = "exhausted", call.raced = "no", call.mover \notin Renamed,
               call.position.ref # call.mover, NEW x \in Int
        PROVE  ~O!Fits(x, Cur)
    <3>1. ~PlacedIn(call.tool, call.mover, call.position, Cur, x)
      BY <2>3 DEF OrderOk, NothingFits
    <3> QED BY <2>1, <3>1, FitsIs
  <2>4. \A a, b : \A x \in a..b : x \in Int
    OBVIOUS
  <2> QED BY <2>2, <2>3, <2>4 DEF O!AsAsked, Cur
<1> QED BY <1>1, <1>2

\* What the order tools moved is where the caller asked, of a list and of a
\* checklist in Exchange and of My Day in the cache it is listed from, unless
\* something moved after the tool's last read of it; and a tool says that there is
\* no room only where there is none: for any number of tasks and any orders.
THEOREM OrdersAreAsAsked == Spec => []AsAsked
<1>1. Init => (which = "order" => OrderOk)
  BY OrderInit DEF Init
<1>2. (which = "order" => OrderOk) /\ [Next]_vars => (which = "order" => OrderOk)'
  BY Same, OrderStep, OrderNext
<1>3. (which = "order" => OrderOk) => AsAsked
  BY OrderSafe DEF AsAsked
<1> QED BY <1>1, <1>2, <1>3, PTL DEF Spec

=============================================================================

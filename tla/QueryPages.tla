------------------------------ MODULE QueryPages ------------------------------
(***************************************************************************)
(* Reading tasks from the index page by page: TodoIndex.query(), search()  *)
(* and the tools above them                                                *)
(* (src/core/index/index-core.ts:1160-1308, src/core/util/cursor.ts,       *)
(* src/core/config/query-scope.ts, src/core/mcp/register-tools.ts:744-835, *)
(* 3082-3335, 3474-3576).                                                  *)
(*                                                                         *)
(* One client reads; sync and other tools write the tasks table between    *)
(* its pages.  A query filters by list and by status, the two filters that *)
(* tell one page from the next here; dates and importance are more of the  *)
(* same.  Task ids are numbers, in the order SQLite compares them.         *)
(***************************************************************************)
EXTENDS Naturals, Sequences, SequencesExt

CONSTANTS
    Tasks,     \* task ids: numbers
    Lists,     \* lists of the roster
    Class,     \* each list's class
    None,      \* NULL, undefined
    Limits,    \* page sizes
    MaxTime,   \* bound: modification times
    MaxQueries \* bound: queries begun

VARIABLES
    table,  \* tasks table
    clock,  \* the latest modification time
    pager,  \* what the client has read, and asks for
    queries \* queries begun

vars == <<table, clock, pager, queries>>

Row == [list : Lists, m : 1..MaxTime \cup {None}, c : 1..MaxTime \cup {None}]
Keys == [m : 1..MaxTime \cup {None}, t : Tasks]
NoPager == [pc |-> "idle", lists |-> None, open |-> None, asked |-> None,
            limit |-> 0, cursor |-> None, read |-> <<>>, written |-> {}]

TypeOK ==
    /\ table \in [Tasks -> Row \cup {None}]
    /\ clock \in 1..MaxTime
    /\ pager \in [pc : {"idle", "more", "end", "cold", "recent", "found"},
                  lists : SUBSET Lists \cup {None}, open : BOOLEAN \cup {None},
                  asked : BOOLEAN \cup {None}, limit : Limits \cup {0},
                  cursor : Keys \cup {None}, read : Seq(Tasks),
                  written : SUBSET Tasks]
    /\ queries \in 0..MaxQueries

Init ==
    /\ table \in [Tasks -> {None} \cup [list : Lists, m : {1, None}, c : {None}]]
    /\ clock = 1
    /\ pager = NoPager
    /\ queries = 0

-----------------------------------------------------------------------------
(* The query.                                                               *)

\* ORDER BY modified_at DESC, task_id DESC; NULL comes last.
Before(a, b) ==
    IF a.m = None THEN b.m = None /\ a.t > b.t
    ELSE b.m = None \/ a.m > b.m \/ (a.m = b.m /\ a.t > b.t)

Key(t) == [m |-> table[t].m, t |-> t]

\* Whether a row passes the filters.
Passes(t, lists, open) ==
    /\ table[t] # None
    /\ lists # None /\ lists # {} => table[t].list \in lists
    /\ open # None => open = (table[t].c = None)

\* Mutant of After: the rows without a time are forgotten once there was one.
AfterNoTail(t, cursor) ==
    cursor # None => Before(cursor, Key(t)) /\ (table[t].m = None => cursor.m = None)

\* The keyset predicate of a cursor.
After(t, cursor) == cursor # None => Before(cursor, Key(t))

\* ORDER BY ... LIMIT: the first of the rows in order, no more than the limit,
\* and fewer only if there are no more.  There is one such page.
FirstOf(rows, limit) ==
    {page \in UNION {[1..n -> rows] : n \in 0..limit} :
        /\ \A i, j \in DOMAIN page : i < j => Before(Key(page[i]), Key(page[j]))
        /\ \A t \in rows \ ToSet(page) :
              Len(page) = limit /\ \A i \in DOMAIN page : Before(Key(page[i]), Key(t))}

\* query(): the first rows after the cursor.
Query(lists, open, limit, cursor) ==
    FirstOf({t \in Tasks : Passes(t, lists, open) /\ After(t, cursor)}, limit)

\* query() with completed_after, which a row without completion time never passes.
QueryCompleted(lists, after, limit) ==
    FirstOf({t \in Tasks : Passes(t, lists, FALSE) /\ table[t].c >= after}, limit)

\* A full page has a cursor: the key of its last row.
NextCursor(page, limit) == IF Len(page) = limit THEN Key(page[limit]) ELSE None

\* resolveListScope(): None when nothing restricts the lists.
resolveListScope(lists, types, exclude) ==
    IF lists = None /\ types = {} /\ exclude = {} THEN None
    ELSE {l \in (IF lists = None THEN Lists ELSE lists) :
             /\ types # {} => Class[l] \in types
             /\ Class[l] \notin exclude}

-----------------------------------------------------------------------------
(* Writes; what comes after the last page matters to nobody.                *)

\* The table is written while the client is not through.
Written(t) ==
    /\ pager.pc \in {"idle", "more"}
    /\ clock < MaxTime /\ clock' = clock + 1
    /\ pager' = IF pager.pc = "idle" THEN pager ELSE [pager EXCEPT !.written = @ \cup {t}]
    /\ UNCHANGED queries

\* A row is inserted, edited, completed or reopened: its time is the latest.
Write(t, list, c) ==
    /\ Written(t)
    /\ table[t] # None => list = table[t].list
    /\ c \in {None, clock + 1} \cup (IF table[t] = None THEN {} ELSE {table[t].c})
    /\ table' = [table EXCEPT ![t] = [list |-> list, m |-> clock + 1, c |-> c]]

\* It goes.
Delete(t) ==
    /\ Written(t) /\ table[t] # None
    /\ table' = [table EXCEPT ![t] = None]

-----------------------------------------------------------------------------
(* Reads.                                                                   *)

Begun == queries < MaxQueries /\ queries' = queries + 1

\* The client has read one more page.
Got(p, page) ==
    LET cursor == NextCursor(page, p.limit)
    IN  [p EXCEPT !.read = @ \o page, !.cursor = cursor,
                  !.pc = IF cursor = None THEN "end" ELSE "more"]

\* The first page within a scope; a scope of no list is an empty answer.
Scoped(p) == IF p.lists = {} THEN {<<>>} ELSE Query(p.lists, p.open, p.limit, None)

FirstPage(scope, open, limit) ==
    /\ Begun
    /\ LET p == [NoPager EXCEPT !.lists = scope, !.open = open, !.asked = open,
                                !.limit = limit]
       IN  \E page \in Scoped(p) : pager' = Got(p, page)
    /\ UNCHANGED <<table, clock>>

query_tasks(lists, types, exclude, open, limit) ==
    FirstPage(resolveListScope(lists, types, exclude), open, limit)

\* The lists of one class; open tasks.
get_pending_across_lists(type, limit) ==
    FirstPage({l \in Lists : Class[l] = type}, TRUE, limit)

\* list_tasks of a list that is synced.
list_tasks(list, open, limit) == FirstPage({list}, open, limit)

\* Some of these tasks in some order, no more than n.
SomeOf(tasks, n) == {s \in UNION {[1..k -> tasks] : k \in 0..n} : IsInjective(s)}

\* An answer of one page, without a cursor.
OnePage(pc, scope, open, limit, read) ==
    pager' = [NoPager EXCEPT !.pc = pc, !.lists = scope, !.open = open, !.asked = open,
                             !.limit = limit, !.read = read]

\* list_tasks of one that is not: one page from Graph, no cursor.
ColdPage(list, open, limit) ==
    /\ Begun
    /\ \E page \in SomeOf({t \in Tasks : Passes(t, {list}, open)}, limit) :
        OnePage("cold", {list}, open, limit, page)
    /\ UNCHANGED <<table, clock>>

\* The next page: the cursor is only a place in the order; lists, status and
\* limit are those of this call.
NextPage(open) ==
    /\ pager.pc = "more"
    /\ \E page \in Query(pager.lists, open, pager.limit, pager.cursor) :
        pager' = Got([pager EXCEPT !.open = open], page)
    /\ UNCHANGED <<table, clock, queries>>

\* The rows of a page, sorted again by their completion.
ByCompletion(page) ==
    {s \in SomeOf(ToSet(page), Len(page)) :
        Len(s) = Len(page) /\ \A i, j \in DOMAIN s : i < j => table[s[i]].c >= table[s[j]].c}

\* One page of the tasks completed in the window: of one list, of a class, or of all;
\* a class of no list is an empty answer.
get_recently_completed(list, type, after, limit) ==
    /\ Begun
    /\ LET scope == IF list # None THEN {list}
                    ELSE IF type # None THEN {l \in Lists : Class[l] = type} ELSE None
       IN  \E page \in IF scope = {} THEN {<<>>} ELSE QueryCompleted(scope, after, limit) :
           \E read \in ByCompletion(page) : OnePage("recent", scope, FALSE, limit, read)
    /\ UNCHANGED <<table, clock>>

\* search(): hits in title or body, then those in checklist items only, in any
\* order, since items may be in any.
Merged(title, items, limit) ==
    {s \in SomeOf(ToSet(title) \cup ToSet(items), limit) :
        /\ Len(title) <= Len(s) /\ \A i \in DOMAIN title : s[i] = title[i]
        /\ Len(s) < limit => ToSet(items) \subseteq ToSet(s)}

\* search_tasks: lists and status filter both tiers, each is cut to the limit first,
\* and one task may be hit twice in the second; a scope of no list is an empty answer.
search_tasks(lists, types, exclude, open, limit) ==
    /\ Begun
    /\ LET scope == resolveListScope(lists, types, exclude)
           hits == IF scope = {} THEN {<<>>}
                   ELSE SomeOf({t \in Tasks : Passes(t, scope, open)}, limit)
       IN  \E title, items \in hits : \E read \in Merged(title, items, limit) :
              OnePage("found", scope, open, limit, read)
    /\ UNCHANGED <<table, clock>>

Scopes == SUBSET {Class[l] : l \in Lists}

Next == \/ \E t \in Tasks, l \in Lists, c \in 1..MaxTime \cup {None} : Write(t, l, c)
        \/ \E t \in Tasks : Delete(t)
        \/ \E lists \in {None} \cup {{l} : l \in Lists}, types, exclude \in Scopes,
              open \in BOOLEAN \cup {None}, n \in Limits :
              query_tasks(lists, types, exclude, open, n)
        \/ \E l \in Lists, n \in Limits : get_pending_across_lists(Class[l], n)
        \/ \E l \in Lists, open \in BOOLEAN \cup {None}, n \in Limits : list_tasks(l, open, n)
        \/ \E l \in Lists, open \in BOOLEAN \cup {None}, n \in Limits : ColdPage(l, open, n)
        \/ NextPage(pager.open)
        \/ \E l \in Lists \cup {None}, type \in {Class[k] : k \in Lists} \cup {None},
              after \in 1..MaxTime, n \in Limits : get_recently_completed(l, type, after, n)
        \/ \E lists \in {None} \cup {{l} : l \in Lists}, types, exclude \in Scopes,
              open \in BOOLEAN \cup {None}, n \in Limits :
              search_tasks(lists, types, exclude, open, n)

Spec == Init /\ [][Next]_vars

\* The same with a client that does not repeat the filter with the cursor.
Forgetful == \/ Next
             \/ NextPage(None)

SpecForgetful == Init /\ [][Forgetful]_vars

-----------------------------------------------------------------------------
(* Properties.                                                              *)

Read(t) == \E i \in DOMAIN pager.read : pager.read[i] = t
Once(t) == \E i \in DOMAIN pager.read : \A j \in DOMAIN pager.read : pager.read[j] = t <=> j = i

\* "stable under concurrent writes" (cursor.ts:5): whatever is written between
\* the pages, when they are through each row that passes the filters and was
\* not written has been read, and read once.
PagesComplete ==
    pager.pc = "end" =>
        \A t \in Tasks \ pager.written :
            IF pager.lists # {} /\ Passes(t, pager.lists, pager.open) THEN Once(t) ELSE ~Read(t)

\* "matched no lists -> genuinely empty (NOT all lists)": whether it comes page by page
\* or at once, nothing is returned from outside the scope or of another status, and no
\* task twice, unless it was written meanwhile.
NothingElse ==
    \A t \in Tasks \ pager.written : Read(t) =>
        /\ Once(t) /\ Passes(t, pager.lists, pager.open)
        /\ pager.lists # None => table[t].list \in pager.lists

\* "Ignored when cursor is supplied (the cursor preserves the original filter)"
\* (register-tools.ts:757): every row has the status first asked for.
CursorKeepsFilter ==
    \A t \in Tasks \ pager.written :
        Read(t) => Passes(t, None, pager.asked)

\* "tasks completed within the last N days, most-recent first": a task left out
\* was not completed after one that is returned.
RecentIsRecent ==
    pager.pc = "recent" =>
        \A t, u \in Tasks \ pager.written :
            Read(t) /\ ~Read(u) /\ Passes(u, pager.lists, FALSE) =>
                table[u].c <= table[t].c
=============================================================================

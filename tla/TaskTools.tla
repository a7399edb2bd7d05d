------------------------------- MODULE TaskTools -------------------------------
(***************************************************************************)
(* The tools that read and change one task, its parts and its list in      *)
(* Graph and write the outcome through to the index                        *)
(* (src/core/mcp/register-tools.ts:836-1266, 1586-2347, 2551-2803).        *)
(*                                                                         *)
(* Most of them are one request and one write-through; they are rows of a  *)
(* table here and share three actions.  update_task, create_task and       *)
(* extract_links take several requests.  One list and one task stand for   *)
(* all; other clients change them at any time.  A request that fails may   *)
(* have been carried out (GraphClient).  A delta round runs when no        *)
(* write-through is on its way: DeltaSync shows what happens otherwise.    *)
(* The checklist rows of the cache are in ChecklistCache.                  *)
(***************************************************************************)
EXTENDS Integers, FiniteSets

CONSTANTS
    None,      \* undefined
    MaxParts,  \* bound: parts of one kind a task has
    MaxOthers, \* bound: changes by other clients
    MaxCalls,  \* bound: calls of a tool
    MaxFaults  \* bound: requests and write-throughs that fail

VARIABLES
    graph, \* Graph: the list and the task
    feed,  \* which of the two changed since the index read the delta feed
    index, \* lists and tasks tables: the rows of the two
    call,  \* the call in progress, or its answer
    used   \* how much of each bound is used up

vars == <<graph, feed, index, call, used>>

-----------------------------------------------------------------------------
(* The tools.  "on" is what the last segment of the request's URL names,    *)
(* "lookup" tells that the list may be left out and is then looked up in    *)
(* the index, "then" is the write-through.                                  *)

Tool(on, method, lookup, then) ==
    [on |-> on, method |-> method, lookup |-> lookup, then |-> then]

get_task               == Tool("task", "GET", TRUE, "nothing")
create_task            == Tool("task", "POST", FALSE, "upsert")
update_task            == Tool("task", "PATCH", FALSE, "upsert")
delete_task            == Tool("task", "DELETE", FALSE, "delete")
create_list            == Tool("list", "POST", FALSE, "upsert")
update_list            == Tool("list", "PATCH", FALSE, "upsert")
delete_list            == Tool("list", "DELETE", FALSE, "delete")
list_checklist_items   == Tool("task", "GET", TRUE, "nothing")
create_checklist_item  == Tool("item", "POST", TRUE, "flag")
update_checklist_item  == Tool("item", "PATCH", TRUE, "nothing")
delete_checklist_item  == Tool("item", "DELETE", TRUE, "nothing")
list_linked_resources  == Tool("task", "GET", TRUE, "nothing")
get_linked_resource    == Tool("link", "GET", TRUE, "nothing")
create_linked_resource == Tool("link", "POST", TRUE, "nothing")
update_linked_resource == Tool("link", "PATCH", TRUE, "nothing")
delete_linked_resource == Tool("link", "DELETE", TRUE, "nothing")
list_attachments       == Tool("task", "GET", TRUE, "nothing")
get_attachment         == Tool("file", "GET", TRUE, "nothing")
remove_attachment      == Tool("file", "DELETE", TRUE, "nothing")
extract_links          == Tool("task", "GET", FALSE, "rules")

Tools == {get_task, create_task, update_task, delete_task, create_list,
          update_list, delete_list, list_checklist_items,
          create_checklist_item, update_checklist_item, delete_checklist_item,
          list_linked_resources, get_linked_resource, create_linked_resource,
          update_linked_resource, delete_linked_resource, list_attachments,
          get_attachment, remove_attachment, extract_links}

Kinds == {"item", "link", "file"}
Here  == {"none", "here", "gone"}
Answers == {"ok", "not_found", "list_required", "method_not_allowed",
            "precondition_failed", "recurring", "failed"}
NoCall == [pc |-> "idle", tool |-> None, date |-> FALSE, etag |-> None,
           base |-> None, reset |-> FALSE, words |-> FALSE, others |-> FALSE,
           overwrote |-> FALSE]
MaxVer == MaxOthers + 2 * MaxCalls + 1

TypeOK ==
    /\ graph \in [list : Here, default : BOOLEAN, task : Here, ver : 0..MaxVer,
                  done : BOOLEAN, dated : BOOLEAN, recurring : BOOLEAN,
                  parts : [Kinds -> 0..MaxParts]]
    /\ feed \subseteq {"list", "task"}
    /\ index \in [list : BOOLEAN, task : BOOLEAN, items : BOOLEAN]
    /\ call \in [pc : {"idle", "asking", "reading", "resetting", "noting",
                       "expanding", "linking"} \cup Answers,
                 tool : Tools \cup {None}, date : BOOLEAN,
                 etag : 0..MaxVer \cup {None}, base : 0..MaxVer \cup {None},
                 reset : BOOLEAN,
                 words : BOOLEAN, others : BOOLEAN, overwrote : BOOLEAN]
    /\ used \in [others : 0..MaxOthers, calls : 0..MaxCalls,
                 faults : 0..MaxFaults]

Init ==
    /\ \E list, task \in {"none", "here"}, default, done, recurring \in BOOLEAN :
        /\ task = "here" => list = "here"
        /\ graph = [list |-> list, default |-> default, task |-> task, ver |-> 0,
                    done |-> done, dated |-> FALSE, recurring |-> recurring,
                    parts |-> [k \in Kinds |-> 0]]
        /\ index = [list |-> list = "here", task |-> task = "here",
                    items |-> FALSE]
    /\ feed = {}
    /\ call = NoCall
    /\ used = [others |-> 0, calls |-> 0, faults |-> 0]

Use(b, bound) == used[b] < bound /\ used' = [used EXCEPT ![b] = @ + 1]
Fault    == Use("faults", MaxFaults)
Goto(pc) == call' = [call EXCEPT !.pc = pc]
AtRest   == call.pc \in Answers \cup {"idle"}

-----------------------------------------------------------------------------
(* Graph (external).                                                        *)

\* Whether what the tool's request names is there; what a POST names is not
\* there yet, and what it is created in must be.
There(t) ==
    CASE t.on = "list" -> t.method = "POST" \/ graph.list = "here"
      [] t.on = "task" -> IF t.method = "POST" THEN graph.list = "here"
                          ELSE graph.task = "here"
      [] OTHER -> /\ graph.task = "here"
                  /\ t.method # "POST" => graph.parts[t.on] > 0

\* Whether Graph allows it: the default list stays (405), a task has one link.
Allowed(t) ==
    /\ t = delete_list => ~graph.default
    /\ t.method = "POST" => CASE t.on = "link" -> graph.parts.link = 0
                              [] t.on = "item" -> graph.parts.item < MaxParts
                              [] OTHER -> graph[t.on] = "none"

Part(k, n) == [graph EXCEPT !.ver = @ + 1, !.parts[k] = @ + n]

\* Graph after the request; a completion date is only taken together with the
\* transition to completed.
After(t) ==
    CASE t.on \in Kinds -> Part(t.on, CASE t.method = "POST" -> 1
                                        [] t.method = "DELETE" -> -1
                                        [] OTHER -> 0)
      [] t = delete_list -> [graph EXCEPT !.list = "gone", !.task = "gone"]
      [] t = create_list -> [graph EXCEPT !.list = "here"]
      [] t = update_list -> graph
      [] t = create_task -> [graph EXCEPT !.task = "here", !.ver = @ + 1]
      [] t = delete_task -> [graph EXCEPT !.task = "gone", !.ver = @ + 1]
      [] OTHER -> [graph EXCEPT !.ver = @ + 1, !.done = @ \/ call.date,
                                !.dated = @ \/ (call.date /\ ~graph.done)]

Changed(t) == IF t.on = "list" THEN {"list"} ELSE {"task"}

\* The request of tool t is carried out; a GET leaves everything as it is.
CarriedOut(t) ==
    IF t.method = "GET" THEN UNCHANGED <<graph, feed>>
    ELSE graph' = After(t) /\ feed' = feed \cup Changed(t)

\* Another client edits, completes, reopens or deletes the task, or removes
\* its parts.
OtherClient ==
    /\ graph.task = "here" /\ Use("others", MaxOthers)
    /\ \E now \in {[graph EXCEPT !.ver = @ + 1],
                   [graph EXCEPT !.ver = @ + 1, !.done = ~@, !.dated = FALSE],
                   [graph EXCEPT !.ver = @ + 1, !.task = "gone"],
                   [graph EXCEPT !.ver = @ + 1, !.parts.item = 0]} :
          graph' = now
    /\ feed' = feed \cup {"task"}
    /\ call' = [call EXCEPT !.others = TRUE]
    /\ UNCHANGED index

\* A delta round, of the roster and of the list: every reported row is
\* replaced, has_checklist by NULL.
Sync ==
    /\ call.pc # "noting" /\ feed # {}
    /\ feed' = {}
    /\ LET list == IF "list" \in feed THEN graph.list = "here" ELSE index.list
           task == IF "task" \in feed THEN graph.task = "here" ELSE index.task
       IN  index' = [list |-> list, task |-> task /\ graph.list # "gone",
                     items |-> index.items /\ "task" \notin feed]
    /\ UNCHANGED <<graph, call, used>>

-----------------------------------------------------------------------------
(* A call.                                                                  *)

\* Where the call goes once its list is known: update_task with a completion
\* date reads the task first.
First(t, date) == IF t = update_task /\ date THEN "reading" ELSE "asking"

\* A tool is called.  resolveListForTask(): a list that is left out is looked
\* up in the index.
Begin(t, listed) ==
    /\ AtRest /\ Use("calls", MaxCalls)
    /\ t.lookup \/ listed
    /\ \E date, words \in BOOLEAN, etag \in {None, graph.ver} :
        /\ t # update_task => ~date /\ ~words /\ etag = None
        /\ call' = [NoCall EXCEPT !.tool = t, !.date = date, !.etag = etag,
                                  !.base = etag, !.words = words,
                                  !.pc = IF listed \/ index.task
                                         THEN First(t, date) ELSE "list_required"]
    /\ UNCHANGED <<graph, feed, index>>

\* Mutant of ReadTask: a completed task is not reopened first.
ReadTaskKeepsDone ==
    /\ call.pc = "reading"
    /\ Goto(IF graph.task # "here" THEN "not_found"
            ELSE IF graph.recurring THEN "recurring" ELSE "asking")
    /\ UNCHANGED <<graph, feed, index, used>>

\* The task is looked at: a recurring one cannot hold a completion date, a
\* completed one is reopened first.
ReadTask ==
    /\ call.pc = "reading"
    /\ Goto(IF graph.task # "here" THEN "not_found"
            ELSE IF graph.recurring THEN "recurring"
            ELSE IF graph.done THEN "resetting" ELSE "asking")
    /\ UNCHANGED <<graph, feed, index, used>>

Matches == call.etag # None => call.etag = graph.ver

\* PATCH notStarted: the task is open again, without its completion date.
Reopened ==
    /\ graph.task = "here" /\ Matches
    /\ graph' = [graph EXCEPT !.ver = @ + 1, !.done = FALSE, !.dated = FALSE]
    /\ feed' = feed \cup {"task"}

\* The reset, under the caller's ETag, which is spent with it.
ResetTask ==
    /\ call.pc = "resetting" /\ Reopened
    /\ call' = [call EXCEPT !.pc = "asking", !.reset = TRUE, !.etag = None,
                            !.base = IF @ = None THEN None ELSE graph.ver + 1]
    /\ UNCHANGED <<index, used>>

\* The reset is refused; its 404 and 412 are not told from other errors.
ResetRefused ==
    /\ call.pc = "resetting" /\ ~(graph.task = "here" /\ Matches)
    /\ Goto("failed")
    /\ UNCHANGED <<graph, feed, index, used>>

\* Where a call goes when its request is answered 2xx.
Noted(t) == IF t.then = "nothing" THEN "ok"
            ELSE IF t.then = "rules" THEN "linking" ELSE "noting"

\* The request is carried out.  "overwrote" (not in the code) tells that the
\* task was no longer the one the caller had asked to change.
Serve ==
    /\ call.pc = "asking" /\ There(call.tool) /\ Allowed(call.tool) /\ Matches
    /\ CarriedOut(call.tool)
    /\ call' = [call EXCEPT !.pc = Noted(call.tool), !.overwrote =
                    call.base # None /\ call.base # graph.ver]
    /\ UNCHANGED <<index, used>>

\* The error depends on the status; without cause, another list was named.
Refusal(t) == IF ~There(t) THEN "not_found"
              ELSE IF ~Allowed(t)
                   THEN IF t = delete_list THEN "method_not_allowed" ELSE "failed"
              ELSE IF ~Matches THEN "precondition_failed" ELSE "not_found"

\* Mutant of Refuse: a 404 is taken to mean that the task is gone.
RefuseDropsRow ==
    /\ call.pc = "asking"
    /\ Goto(Refusal(call.tool))
    /\ index' = [index EXCEPT !.task = @ /\ call.tool # delete_task]
    /\ UNCHANGED <<graph, feed, used>>

\* It is refused.
Refuse ==
    /\ call.pc = "asking"
    /\ Goto(Refusal(call.tool))
    /\ UNCHANGED <<graph, feed, index, used>>

\* It fails, carried out or not.
Fail ==
    /\ call.pc \in {"asking", "resetting", "reading"} /\ Fault
    /\ \/ /\ call.pc = "asking" /\ There(call.tool) /\ Allowed(call.tool)
          /\ Matches /\ CarriedOut(call.tool)
       \/ call.pc = "resetting" /\ Reopened
       \/ UNCHANGED <<graph, feed>>
    /\ Goto("failed")
    /\ UNCHANGED index

\* What follows the write-through.
Onwards(t) == CASE t = create_task -> "linking"
                [] t = update_task /\ call.words -> "expanding"
                [] OTHER -> "ok"

\* The write-through: the answer's row replaces the row there is, without
\* expansions; or a row goes, with those of its tasks; or a flag is set.
Note ==
    /\ call.pc = "noting"
    /\ LET t == call.tool
       IN  index' = CASE t.then = "flag" -> [index EXCEPT !.items = @ \/ index.task]
                      [] t.on = "list" /\ t.then = "upsert" -> [index EXCEPT !.list = TRUE]
                      [] t = delete_list -> [list |-> FALSE, task |-> FALSE, items |-> FALSE]
                      [] t.on = "task" /\ t.then = "upsert" -> [index EXCEPT !.task = TRUE, !.items = FALSE]
                      [] OTHER -> [index EXCEPT !.task = FALSE, !.items = FALSE]
    /\ Goto(Onwards(call.tool))
    /\ UNCHANGED <<graph, feed, used>>

\* It fails, which the tool logs and forgets.
NoteFails ==
    /\ call.pc = "noting" /\ Fault
    /\ Goto(Onwards(call.tool))
    /\ UNCHANGED <<graph, feed, index>>

\* update_task reads the task again, with its links, for the rules; an error
\* here becomes the answer although the change is made.
Expand ==
    /\ call.pc = "expanding"
    /\ \/ Goto(IF graph.task = "here" THEN "linking" ELSE "not_found")
          /\ UNCHANGED used
       \/ Goto("failed") /\ Fault
    /\ UNCHANGED <<graph, feed, index>>

\* applyLinkRules(): the first rule that matches adds a link to a task without
\* one; whether that succeeds does not matter to the answer.
Link ==
    /\ call.pc = "linking"
    /\ \/ /\ graph.task = "here" /\ graph.parts.link = 0
          /\ graph' = Part("link", 1) /\ feed' = feed \cup {"task"}
       \/ UNCHANGED <<graph, feed>>
    /\ Goto("ok")
    /\ UNCHANGED <<index, used>>

Next == \/ OtherClient \/ Sync
        \/ \E t \in Tools, listed \in BOOLEAN : Begin(t, listed)
        \/ ReadTask \/ ResetTask \/ ResetRefused \/ Serve \/ Refuse \/ Fail
        \/ Note \/ NoteFails \/ Expand \/ Link

Spec == Init /\ [][Next]_vars

-----------------------------------------------------------------------------
(* Properties.                                                              *)

\* A completion date that was accepted is on the task, whatever state the task
\* was in: Graph ignores the date of a task that is completed already, which is
\* why update_task reopens it first.
DateSticks ==
    call.pc = "ok" /\ call.date /\ ~call.others => graph.done /\ graph.dated

\* precondition_failed means that another client changed the task and that
\* this call has not: the reset, which spends the ETag, never makes the
\* request after it fail.
RefusedForOthers ==
    call.pc = "precondition_failed" => call.others /\ ~call.reset

\* Whatever tool failed or was refused, and whatever row it did not write: once
\* the delta feed has nothing new, the index has the list and the task exactly
\* if Graph has.
IndexCatchesUp ==
    AtRest /\ feed = {} =>
        /\ index.list <=> graph.list = "here"
        /\ index.task <=> graph.task = "here"

\* "delta sync carries no expansions, so a mutation is the ONLY way
\* has_checklist becomes 1" (index-core.ts:479-480): the flag a mutation has
\* set stays while the task has items.
FlagLasts == index.items /\ index'.task /\ graph'.parts.item > 0 => index'.items
ChecklistFlagLasts == [][FlagLasts]_vars

\* if_match: "If-Match ... avoids clobbering" a change by another client, also
\* while update_task makes its second request.
OverwritesNothing == ~call.overwrote
=============================================================================

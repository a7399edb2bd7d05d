-------------------------------- MODULE MoveTask --------------------------------
(***************************************************************************)
(* The tool move_task (src/core/mcp/register-tools.ts:1268-1584,           *)
(* src/core/mcp/move-task.ts): a task is moved to another list by one      *)
(* PATCH of its parent folder in Exchange ("re-parent"), which gives it a  *)
(* new id; where that is impossible it is copied part by part, and the     *)
(* source is deleted last.                                                 *)
(*                                                                         *)
(* A step is one request together with the write-through to the index that *)
(* follows it.  A request that fails may have been carried out all the     *)
(* same.  A task is the list it is in, its parts (checklist items, linked  *)
(* resource, files) and whether it is in My Day; its other fields are      *)
(* copied whole by the POST.  Delta rounds run between calls here:         *)
(* DeltaSync interleaves them with write-throughs.                         *)
(***************************************************************************)
EXTENDS Integers, Sequences, SequencesExt

CONSTANTS
    Order,      \* the parts there are: items by creation time, link, files
    Links,      \* those that are linked resources
    Files,      \* those that are attachments
    Uncopyable, \* files that are references, have no bytes or are too large
    MyDay,      \* ENABLE_MY_DAY
    None,       \* undefined
    MaxIds,     \* bound: ids Microsoft gives out
    MaxCalls,   \* bound: calls of the tool
    MaxFaults   \* bound: requests that fail, late answers, edits, crashes

VARIABLES
    tasks, \* Graph and Exchange: the task of each id
    feed,  \* ids that changed since the index last read the delta feed
    index, \* tasks table: each id's row
    call,  \* the call in progress, or its answer
    used   \* how much of each bound is used up

vars == <<tasks, feed, index, call, used>>

Parts   == ToSet(Order)
Ids     == 0..MaxIds
Src     == 0 \* the id the client knows
Task    == [list : {"from", "to"}, parts : SUBSET Parts, day : BOOLEAN]
Row     == [list : {"from", "to"}, items : BOOLEAN, files : BOOLEAN]
Answers == {"moved", "presumed", "guessed", "copied", "warned", "aborted", "orphan",
            "task_not_found", "list_not_found", "failed"}
Pcs     == {"idle", "reading", "moving", "checking", "creating", "copying",
            "listing", "carrying", "deleting", "aborting"} \cup Answers
NoCall  == [pc |-> "idle", seen |-> {}, files |-> FALSE, todo |-> {},
            new |-> None, copied |-> {}, carried |-> FALSE, late |-> "no"]

TypeOK ==
    /\ tasks \in [Ids -> Task \cup {None}]
    /\ feed \subseteq Ids
    /\ index \in [Ids -> Row \cup {None}]
    /\ call \in [pc : Pcs, seen : SUBSET Parts, files : BOOLEAN,
                 todo : SUBSET Parts, new : Ids \cup {None},
                 copied : SUBSET Parts, carried : BOOLEAN,
                 late : {"no", "due", "done"}]
    /\ used \in [ids : Ids, calls : 0..MaxCalls, faults : 0..MaxFaults]

Exists(id) == tasks[id] # None
HasItems(parts) == parts \ (Links \cup Files) # {}
HasFiles(parts) == parts \cap Files # {}

\* The row upsertTask() makes of a task without $expand: has_checklist, which
\* Graph does not say then, becomes NULL.
Bare(task) ==
    [list |-> task.list, items |-> FALSE, files |-> HasFiles(task.parts)]

Init ==
    /\ \E parts \in SUBSET Parts, day \in BOOLEAN :
          LET src == [list |-> "from", parts |-> parts, day |-> day]
          IN  /\ tasks = [id \in Ids |-> IF id = Src THEN src ELSE None]
              /\ index = [id \in Ids |-> IF id # Src THEN None ELSE
                            [list |-> "from", files |-> HasFiles(parts),
                             items |-> HasItems(parts)]]
    /\ feed = {}
    /\ call = NoCall
    /\ used = [ids |-> 0, calls |-> 0, faults |-> 0]

-----------------------------------------------------------------------------
(* What surrounds a call.                                                   *)

Use(b, bound) == used[b] < bound /\ used' = [used EXCEPT ![b] = @ + 1]
Fault   == Use("faults", MaxFaults)
NewId   == used.ids + 1
AtRest  == call.pc \in Answers \cup {"idle"}

\* A delta round reports every change since the last one.
Sync ==
    /\ AtRest /\ feed # {}
    /\ feed' = {}
    /\ index' = [id \in Ids |-> IF id \notin feed THEN index[id]
                                ELSE IF Exists(id) THEN Bare(tasks[id])
                                ELSE None]
    /\ UNCHANGED <<tasks, call, used>>

\* Another client adds a part to the source.
Edit(p) ==
    /\ Fault
    /\ Exists(Src) /\ p \notin tasks[Src].parts
    /\ tasks' = [tasks EXCEPT ![Src].parts = @ \cup {p}]
    /\ feed' = feed \cup {Src}
    /\ UNCHANGED <<index, call>>

\* The source as a task of the destination, under a new id.
Reparented == [tasks EXCEPT ![Src] = None, ![NewId] = [tasks[Src] EXCEPT !.list = "to"]]

\* A re-parent whose answer did not come takes effect after all.
LateCommit ==
    /\ call.late = "due" /\ Exists(Src) /\ used.ids < MaxIds
    /\ tasks' = Reparented
    /\ feed' = feed \cup {Src, NewId}
    /\ used' = [used EXCEPT !.ids = NewId]
    /\ call' = [call EXCEPT !.late = "done"]
    /\ UNCHANGED index

\* The process dies in the middle of a call.
Crash ==
    /\ ~AtRest /\ Fault
    /\ call' = [NoCall EXCEPT !.late = call.late]
    /\ UNCHANGED <<tasks, feed, index>>

Goto(pc) == call' = [call EXCEPT !.pc = pc]

\* The index after a write-through, which is best effort.
WriteThrough(rows, u) ==
    \/ index' = rows /\ used' = u
    \/ /\ u.faults < MaxFaults /\ used' = [u EXCEPT !.faults = @ + 1]
       /\ UNCHANGED index

\* A request that fails, carried out (the world becomes w, ids changed) or not.
Breaks(w, ids, pc) ==
    /\ Fault /\ Goto(pc)
    /\ \/ tasks' = w /\ feed' = feed \cup ids
       \/ UNCHANGED <<tasks, feed>>
    /\ UNCHANGED index

-----------------------------------------------------------------------------
(* The call.                                                                *)

\* The client calls, or calls again after an error or no answer at all.
Begin ==
    /\ call.pc \in {"idle", "failed", "list_not_found", "aborted", "orphan"}
    /\ Use("calls", MaxCalls)
    /\ call' = [NoCall EXCEPT !.pc = "reading", !.late = call.late]
    /\ UNCHANGED <<tasks, feed, index>>

\* GET the source with $expand, which lists items and the link but no files.
ReadSource ==
    /\ call.pc = "reading"
    /\ \/ /\ call' = IF Exists(Src)
                     THEN [call EXCEPT !.pc = IF MyDay THEN "moving" ELSE "creating",
                                       !.seen = tasks[Src].parts \ Files,
                                       !.files = HasFiles(tasks[Src].parts)]
                     ELSE [call EXCEPT !.pc = "task_not_found"]
          /\ UNCHANGED used
       \/ Fault /\ Goto("failed")
    /\ UNCHANGED <<tasks, feed, index>>

\* The row of the source, taken with its expansions, under the new id.
Rekeyed == [index EXCEPT ![Src] = None,
                         ![NewId] = [list |-> "to", items |-> HasItems(call.seen),
                                     files |-> call.files]]

\* The PATCH of the parent folder answers with the new list: the index drops
\* the old id and takes the new one.
Reparent ==
    /\ call.pc = "moving" /\ Exists(Src) /\ used.ids < MaxIds
    /\ tasks' = Reparented
    /\ feed' = feed \cup {Src, NewId}
    /\ call' = [call EXCEPT !.pc = "moved", !.new = NewId]
    /\ WriteThrough(Rekeyed, [used EXCEPT !.ids = NewId])

\* No token for Exchange: no PATCH was sent.
Unavailable ==
    /\ call.pc = "moving" /\ Goto("creating")
    /\ UNCHANGED <<tasks, feed, index, used>>

\* The PATCH fails, names another list or its answer is lost: it was carried
\* out, was not, or will be.
Unconfirmed ==
    /\ call.pc = "moving" /\ used.faults < MaxFaults
    /\ \/ /\ Exists(Src) /\ used.ids < MaxIds
          /\ tasks' = Reparented /\ feed' = feed \cup {Src, NewId}
          /\ used' = [used EXCEPT !.ids = NewId, !.faults = @ + 1]
          /\ Goto("checking")
       \/ /\ \E late \in {call.late, "due"} :
                call' = [call EXCEPT !.pc = "checking", !.late = late]
          /\ Fault /\ UNCHANGED <<tasks, feed>>
    /\ UNCHANGED index

\* decideAfterReparentFailure(): copy only what is known to be still there.  The
\* answer "treated as moved" is one; whether it knows or guesses is told apart.
Decide(present) == CASE present = "yes" -> "creating"
                     [] present = "no" -> "presumed"
                     [] OTHER -> "guessed"

\* What #recheckSource() may say of the source.
recheckSource ==
    {IF Exists(Src) THEN "yes" ELSE "no"}
    \cup IF used.faults < MaxFaults THEN {"unknown"} ELSE {}

\* A task that counts as moved leaves the index.
Recheck ==
    /\ call.pc = "checking"
    /\ \E present \in recheckSource :
        /\ LET u == IF present = "unknown"
                    THEN [used EXCEPT !.faults = @ + 1] ELSE used
           IN  /\ Goto(Decide(present))
               /\ IF Decide(present) = "creating"
                  THEN used' = u /\ UNCHANGED index
                  ELSE WriteThrough([index EXCEPT ![Src] = None], u)
    /\ UNCHANGED <<tasks, feed>>

WithCopy == [tasks EXCEPT ![NewId] = [list |-> "to", parts |-> {}, day |-> FALSE]]

\* POST the copy; its row follows.
Create ==
    /\ call.pc = "creating" /\ used.ids < MaxIds
    /\ tasks' = WithCopy
    /\ feed' = feed \cup {NewId}
    /\ call' = [call EXCEPT !.pc = "copying", !.new = NewId,
                            !.todo = call.seen]
    /\ WriteThrough([index EXCEPT ![NewId] = Bare(WithCopy[NewId])],
                    [used EXCEPT !.ids = NewId])

\* The POST fails, or the destination does not exist.
CreateFails ==
    /\ call.pc = "creating" /\ used.faults < MaxFaults
    /\ \/ /\ used.ids < MaxIds /\ tasks' = WithCopy /\ feed' = feed \cup {NewId}
          /\ used' = [used EXCEPT !.ids = NewId, !.faults = @ + 1]
          /\ Goto("failed")
       \/ /\ \E pc \in {"failed", "list_not_found"} : Goto(pc)
          /\ Fault /\ UNCHANGED <<tasks, feed>>
    /\ UNCHANGED index

Copyable(p) == p \in Files => Exists(Src) /\ p \notin Uncopyable

CopyHas(p) == [tasks EXCEPT ![call.new].parts = @ \cup {p}]

\* The part whose turn it is: the parts to copy are copied in order.
Turn(p) ==
    /\ p \in call.todo
    /\ \E i \in DOMAIN Order : Order[i] = p /\ \A j \in 1..(i - 1) : Order[j] \notin call.todo

\* Mutant of CopyPart: a file that cannot be copied is passed over.
CopyPartLossy ==
    /\ call.pc = "copying"
    /\ \E p \in Parts : Turn(p) /\
           IF p \in Uncopyable
           THEN call' = [call EXCEPT !.todo = @ \ {p}] /\ UNCHANGED <<tasks, feed>>
           ELSE /\ tasks' = CopyHas(p) /\ feed' = feed \cup {call.new}
                /\ call' = [call EXCEPT !.todo = @ \ {p}, !.copied = @ \cup {p}]
    /\ UNCHANGED <<index, used>>

\* The next part is copied: an item, the link, or a file, whose bytes are
\* fetched and uploaded; a file that has none to copy aborts the move.
CopyPart ==
    /\ call.pc = "copying"
    /\ \E p \in Parts :
        /\ Turn(p)
        /\ \/ ~Copyable(p) /\ Goto("aborting") /\ UNCHANGED <<tasks, feed>>
           \/ /\ Copyable(p)
              /\ tasks' = CopyHas(p) /\ feed' = feed \cup {call.new}
              /\ call' = [call EXCEPT !.todo = @ \ {p}, !.copied = @ \cup {p}]
    /\ UNCHANGED <<index, used>>

\* Any step of copying a part fails.
CopyBreaks ==
    /\ call.pc = "copying"
    /\ \E p \in Parts : Turn(p) /\ Breaks(CopyHas(p), {call.new}, "aborting")

\* Items and link are copied: the files are next, if the source had any.
PartsCopied ==
    /\ call.pc = "copying" /\ call.todo = {}
    /\ Goto(IF call.files /\ call.seen \cap Files = {} THEN "listing"
            ELSE IF MyDay THEN "carrying" ELSE "deleting")
    /\ UNCHANGED <<tasks, feed, index, used>>

\* The attachments are enumerated; a listing that fails, or is empty although
\* the source had files, aborts.  A token that is not to be had ends the call
\* outside abort(): the copy stays.
ListFiles ==
    /\ call.pc = "listing"
    /\ \/ /\ Exists(Src) /\ UNCHANGED used
          /\ LET files == tasks[Src].parts \cap Files
             IN  call' = [call EXCEPT !.pc = "copying", !.seen = @ \cup files,
                                      !.todo = files]
       \/ ~Exists(Src) /\ UNCHANGED used /\ Goto("aborting")
       \/ \E pc \in {"aborting", "failed"} : Fault /\ Goto(pc)
    /\ UNCHANGED <<tasks, feed, index>>

\* #carryMyDay(): best effort.
Carry ==
    /\ call.pc = "carrying"
    /\ \/ /\ Exists(Src) /\ tasks[Src].day
          /\ tasks' = [tasks EXCEPT ![call.new].day = TRUE]
          /\ feed' = feed \cup {call.new}
          /\ call' = [call EXCEPT !.pc = "deleting", !.carried = TRUE]
       \/ Goto("deleting") /\ UNCHANGED <<tasks, feed>>
    /\ UNCHANGED <<index, used>>

Without(id) == [tasks EXCEPT ![id] = None]

\* #indexSetFlags() of the copy, if it has a row.
Flagged(rows) ==
    IF rows[call.new] = None THEN rows
    ELSE [rows EXCEPT ![call.new].items = HasItems(call.copied),
                      ![call.new].files = HasFiles(call.copied)]

\* The source is deleted, from the index too, and the copy's flags are set.
DeleteSource ==
    /\ call.pc = "deleting" /\ Exists(Src)
    /\ tasks' = Without(Src) /\ feed' = feed \cup {Src}
    /\ Goto("copied")
    /\ WriteThrough(Flagged([index EXCEPT ![Src] = None]), used)

\* The DELETE fails, for instance because the source is gone: the answer is
\* ok, with a warning.
DeleteBreaks ==
    /\ call.pc = "deleting" /\ Goto("warned")
    /\ index' = Flagged(index)
    /\ \/ ~Exists(Src) /\ UNCHANGED <<tasks, feed, used>>
       \/ Fault /\ UNCHANGED <<tasks, feed>>
       \/ Fault /\ Exists(Src) /\ tasks' = Without(Src) /\ feed' = feed \cup {Src}

\* abort(): the copy is deleted, from the index too.
Abort ==
    /\ call.pc = "aborting"
    /\ tasks' = Without(call.new) /\ feed' = feed \cup {call.new}
    /\ Goto("aborted")
    /\ WriteThrough([index EXCEPT ![call.new] = None], used)

AbortBreaks ==
    /\ call.pc = "aborting"
    /\ Breaks(Without(call.new), {call.new}, "orphan")

Next == \/ Sync \/ LateCommit \/ Crash \/ \E p \in Parts : Edit(p)
        \/ Begin \/ ReadSource \/ Reparent \/ Unavailable \/ Unconfirmed
        \/ Recheck \/ Create \/ CreateFails \/ CopyPart \/ CopyBreaks
        \/ PartsCopied \/ ListFiles \/ Carry \/ DeleteSource \/ DeleteBreaks
        \/ Abort \/ AbortBreaks

Spec == Init /\ [][Next]_vars

-----------------------------------------------------------------------------
(* Properties.                                                              *)

\* Whatever fails, whenever the process dies and however often the client
\* calls again: there is always one task that holds every part the call has
\* seen ("a required-copy failure aborts with the SOURCE LEFT INTACT").
NothingLost ==
    \E id \in Ids : Exists(id) /\ call.seen \subseteq tasks[id].parts

Left == {id \in Ids : Exists(id)}

\* The answer says what became of the task: moved or copied whole, to the other
\* list and nowhere else; treated as moved, and it is, in one piece; or left
\* where it was, and the copy gone or named.  "Treated as moved" is no more than
\* a guess where the recheck failed: there is one task then, in either list.
\* Otherwise only a re-parent that is carried out late makes an answer untrue.
AnswerIsTrue ==
    call.late # "done" =>
        CASE call.pc \in {"moved", "copied"} ->
               /\ Exists(call.new) /\ tasks[call.new].list = "to"
               /\ call.seen \subseteq tasks[call.new].parts
               /\ call.files => HasFiles(tasks[call.new].parts)
               /\ call.carried => tasks[call.new].day
               /\ used.calls = 1 => Left = {call.new}
          [] call.pc \in {"aborted", "orphan"} ->
               /\ Exists(Src) /\ tasks[Src].list = "from"
               /\ call.pc = "aborted" => ~Exists(call.new)
               /\ used.calls = 1 => Left \subseteq {Src, call.new}
          [] call.pc = "presumed" ->
               /\ ~Exists(Src)
               /\ used.calls = 1 =>
                    \E id \in Ids : /\ Left = {id} /\ tasks[id].list = "to"
                                    /\ call.seen \subseteq tasks[id].parts
          [] call.pc = "guessed" -> used.calls = 1 => \E id \in Ids : Left = {id}
          [] OTHER -> TRUE

\* When no call is in progress, whatever the index has and Graph has not, or
\* the other way round, the delta feed has yet to report, so it does not last.
\* Not so after a move that is only guessed at (DeltaReconciles).
IndexCatchesUp ==
    AtRest /\ call.pc # "guessed" =>
        \A id \in Ids \ feed : Exists(id) <=> index[id] # None

\* The row of the moved task tells whether it has a checklist and files, until
\* the delta feed reports the task.
RowTellsParts ==
    call.pc \in {"moved", "copied"} /\ call.new \in feed /\ used.faults = 0 =>
        /\ index[call.new].items = HasItems(tasks[call.new].parts)
        /\ index[call.new].files = HasFiles(tasks[call.new].parts)

\* "Treated as moved ... delta sync will reconcile" (register-tools.ts:1355-1357):
\* what an answer of ok leaves wrong in the index, the delta feed reports.  After
\* a wrong guess the row of a task that did not move is gone for good.
DeltaReconciles ==
    call.pc \in {"moved", "presumed", "guessed", "copied"} =>
        \A id \in Ids \ feed : Exists(id) <=> index[id] # None
=============================================================================

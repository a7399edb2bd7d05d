--------------------------------- MODULE Upload ---------------------------------
(***************************************************************************)
(* Attachments through single-use links (src/core/upload): an upload link  *)
(* takes one POST with a batch of files for one task, a download link one  *)
(* GET of one attachment.  Each request goes through its awaits: the link  *)
(* is looked up, deleted, and only then used.  Small files go to Graph in  *)
(* one request, large ones in the ranges of an upload session.             *)
(*                                                                         *)
(* There is one task, some upload links for it and one download link; each *)
(* link has a random id of its own.  Graph is external: it may accept less *)
(* than a range, answer unreadably, refuse, or not answer, but keeps what  *)
(* it accepted, creates the attachment with the last byte, and says so     *)
(* with its id.  Nobody else adds or removes attachments meanwhile.        *)
(***************************************************************************)
EXTENDS Integers, Sequences

CONSTANTS
    Posts, Gets, \* requests with an upload link, with the download link
    Uploads,     \* upload links
    Download,    \* the download link
    LinkOf,      \* [Posts -> ...]: the links each POST may come with
    File,        \* files that may be attached to the task
    Before,      \* what the task may have had before
    Batches,     \* [Posts -> ...]: the batches each POST may bring
    ContentOf, NameOf, SizeOf,  \* [File -> ...]: what the hash tells, the name, bytes
    InBand,      \* <<attachment, file>>: sizes near enough for a comparison
    MaxInline,   \* max_inline_bytes
    DedupMax,    \* DEDUP_CONTENT_MAX_BYTES
    Chunk,       \* CHUNK_BYTES
    MaxFaults    \* bound: requests that die or get no answer, or a session's URL
                 \* that is not Graph's, or a failed cancel

ASSUME UploadAssumption ==
    /\ Before \subseteq SUBSET File /\ SizeOf \in [File -> Nat \ {0}]
    /\ Batches \in [Posts -> SUBSET Seq(File)]
    /\ Uploads # {} /\ LinkOf \in [Posts -> SUBSET Uploads] /\ Download \notin Uploads
    /\ InBand \subseteq File \X File
    /\ Chunk \in Nat \ {0}
    /\ MaxInline \in Nat /\ DedupMax \in Nat /\ MaxFaults \in Nat
    /\ Posts \cap Gets = {}

VARIABLES
    link,    \* KV: each link, "live" from its creation until "spent"
    post,    \* the POSTs
    get,     \* the GETs: where each is, and whether it came late
    task,    \* Graph: the files attached to the task
    left,    \* Graph: whose upload session nobody goes on with or has cancelled
    indexed, \* the index: has_attachments
    faults

vars == <<link, post, get, task, left, indexed, faults>>

Link == Uploads \cup {Download}
Pc == {"idle", "form", "checked", "burned", "next", "session", "done", "dead"}
Results == {"attached", "duplicate", "failed", "stalled"}
NoSession == [start |-> 0, guard |-> 0, got |-> 0, wasted |-> 0]

\* files: the batch; out: what became of its first files; late: the link was
\* spent when the request came; existing: the attachments that were listed;
\* session: the upload session, with `got` and `wasted` for Graph's side (bytes
\* it has, answers that did not take a whole range).  What the properties need
\* to remember: had, the attachments there were when the request came; blind,
\* they could not be listed; unread, the attachments whose bytes a file of the
\* batch could not be compared with; landed, the files that got to Graph.
SessionState == [start : Nat, guard : Nat, got : Nat, wasted : Nat]

PostState ==
    [pc : Pc, via : Uploads, files : Seq(File), out : Seq(Results), late : BOOLEAN,
     existing : SUBSET File, session : SessionState,
     had : SUBSET File, blind : BOOLEAN, unread : SUBSET (Nat \X File),
     landed : SUBSET Nat]

GetState == [pc : Pc \cup {"served"}, late : BOOLEAN]

TypeOK ==
    /\ link \in [Link -> {"none", "live", "spent"}]
    /\ post \in [Posts -> PostState]
    /\ get \in [Gets -> GetState]
    /\ task \in SUBSET File
    /\ left \in SUBSET Posts
    /\ indexed \in BOOLEAN
    /\ faults \in 0..MaxFaults

Init ==
    /\ link = [k \in Link |-> "none"]
    /\ post = [p \in Posts |->
                 [pc |-> "idle", via |-> CHOOSE l \in Uploads : TRUE, files |-> <<>>,
                  out |-> <<>>, late |-> FALSE, existing |-> {}, session |-> NoSession,
                  had |-> {}, blind |-> FALSE, unread |-> {}, landed |-> {}]]
    /\ get = [g \in Gets |-> [pc |-> "idle", late |-> FALSE]]
    /\ task \in Before /\ left = {}
    /\ indexed = (task # {})
    /\ faults = 0

Fault == faults < MaxFaults /\ faults' = faults + 1
Calm  == UNCHANGED faults

Min2(a, b) == IF a < b THEN a ELSE b

-----------------------------------------------------------------------------
(* The links.                                                               *)

\* A new random id, under which KV keeps the scope until it expires.
Mint(k) ==
    /\ link[k] = "none"
    /\ link' = [link EXCEPT ![k] = "live"]
    /\ UNCHANGED <<post, get, task, left, indexed, faults>>

CreateUploadLink == \E k \in Uploads : Mint(k)

\* Only for an attachment that Graph lists.
MintDownloadLink == task # {} /\ Mint(Download)

Expire(k) ==
    /\ link[k] = "live"
    /\ link' = [link EXCEPT ![k] = "spent"]
    /\ UNCHANGED <<post, get, task, left, indexed, faults>>

-----------------------------------------------------------------------------
(* A POST: look the link up, burn it, use it.                               *)

Goto(p, pc) == post' = [post EXCEPT ![p].pc = pc]

\* A token in the query string is looked up before the body is read.
Arrive(p, via, files, inQuery) ==
    /\ post[p].pc = "idle" /\ link[via] # "none"
    /\ post' = [post EXCEPT
         ![p].pc = IF inQuery /\ link[via] # "live" THEN "done" ELSE "form",
         ![p].via = via, ![p].files = files, ![p].late = (link[via] = "spent"),
         ![p].had = task]
    /\ UNCHANGED <<link, get, task, left, indexed, faults>>

\* Mutant: what was looked up before the body is relied upon.
CheckTwiceIsOnce(p) ==
    /\ post[p].pc = "form"
    /\ Goto(p, "checked")
    /\ UNCHANGED <<link, get, task, left, indexed, faults>>

\* The link is looked up, this time for good.
Check(p) ==
    /\ post[p].pc = "form"
    /\ Goto(p, IF link[post[p].via] = "live" THEN "checked" ELSE "done")
    /\ UNCHANGED <<link, get, task, left, indexed, faults>>

\* A body that is no form, an owner who is not signed in, files that are none,
\* too many, empty or too large: refused, and the link stays.
Refuse(p) ==
    /\ post[p].pc \in {"form", "checked"}
    /\ Goto(p, "done")
    /\ UNCHANGED <<link, get, task, left, indexed, faults>>

\* Mutant: the link is to be deleted when the files are attached.
BurnLater(p) ==
    /\ post[p].pc = "checked"
    /\ Goto(p, "burned")
    /\ UNCHANGED <<link, get, task, left, indexed, faults>>

\* consumeUploadCapability(), whatever comes of the files.
Burn(p) ==
    /\ post[p].pc = "checked"
    /\ link' = [link EXCEPT ![post[p].via] = "spent"]
    /\ Goto(p, "burned")
    /\ UNCHANGED <<get, task, left, indexed, faults>>

\* The attachments the task has already, if they can be listed.
List(p) ==
    /\ post[p].pc = "burned"
    /\ \/ post' = [post EXCEPT ![p].pc = "next", ![p].existing = task]
       \/ post' = [post EXCEPT ![p].pc = "next", ![p].blind = TRUE]
    /\ UNCHANGED <<link, get, task, left, indexed, faults>>

\* There is no access token: nothing is attached.
NoToken(p) ==
    /\ post[p].pc = "burned"
    /\ Goto(p, "done")
    /\ UNCHANGED <<link, get, task, left, indexed, faults>>

-----------------------------------------------------------------------------
(* The batch, one file after the other.                                     *)

Current(p) == post[p].files[Len(post[p].out) + 1]
More(p)    == post[p].pc = "next" /\ Len(post[p].out) < Len(post[p].files)
Large(f)   == SizeOf[f] > DedupMax

\* The contents this POST has attached.
Sent(p) ==
    {ContentOf[post[p].files[i]] :
        i \in {j \in DOMAIN post[p].out : post[p].out[j] = "attached"}}

\* Whose bytes a small file is compared with: a size out of the band tells that
\* they differ.
Candidates(p) ==
    IF Large(Current(p)) THEN {}
    ELSE {e \in post[p].existing : <<e, Current(p)>> \in InBand}

\* Mutant: taken for the same only with the same name as well.
MatchByName(p, f, unread) ==
    {e \in post[p].existing \ unread :
        NameOf[e] = NameOf[f] /\ (~Large(f) => e \in Candidates(p) /\ ContentOf[e] = ContentOf[f])}

\* The attachments found to be the same: for a large file by its name, else by
\* the content of those that could be read.
Match(p, f, unread) ==
    {e \in post[p].existing \ unread :
        IF Large(f) THEN NameOf[e] = NameOf[f]
        ELSE e \in Candidates(p) /\ ContentOf[e] = ContentOf[f]}

\* No attachment is the same, as far as they can be read (the code does not read
\* again what it has the hash of; here that may fail again).
Passed(p, unread) ==
    /\ ContentOf[Current(p)] \notin Sent(p)
    /\ Match(p, Current(p), unread) = {}

\* The place in the batch, with each attachment it was not compared with.
Missed(p, unread) == {Len(post[p].out) + 1} \X unread

\* A file has its result; landed tells whether Graph has it.
Result(p, r, landed) ==
    post' = [post EXCEPT ![p].pc = "next", ![p].out = Append(@, r),
                         ![p].landed = IF landed THEN @ \cup {Len(post[p].out) + 1} ELSE @,
                         ![p].session = NoSession]

\* The same, of a file that needs no session.
ResultAtOnce(p, r, landed, unread) ==
    post' = [post EXCEPT ![p].pc = "next", ![p].out = Append(@, r),
                         ![p].landed = IF landed THEN @ \cup {Len(post[p].out) + 1} ELSE @,
                         ![p].unread = @ \cup Missed(p, unread)]

Duplicate(p) ==
    /\ More(p)
    /\ (ContentOf[Current(p)] \in Sent(p) \/ Match(p, Current(p), {}) # {})
    /\ post' = [post EXCEPT ![p].out = Append(@, "duplicate")]
    /\ UNCHANGED <<link, get, task, left, indexed, faults>>

\* One request, which Graph carries out, refuses, or does not answer.
AttachInline(p) ==
    /\ More(p) /\ SizeOf[Current(p)] <= MaxInline
    /\ \E unread \in SUBSET Candidates(p) :
        /\ Passed(p, unread)
        /\ \/ task' = task \cup {Current(p)} /\ ResultAtOnce(p, "attached", TRUE, unread) /\ Calm
           \/ task' = task /\ ResultAtOnce(p, "failed", FALSE, unread) /\ Calm
           \/ task' = task \cup {Current(p)} /\ ResultAtOnce(p, "failed", TRUE, unread) /\ Fault
    /\ UNCHANGED <<link, get, left, indexed>>

\* createUploadSession, which Graph carries out, refuses, or does not answer; or
\* it answers with a URL of another host, where assertGraphUrl() throws.
OpenSession(p) ==
    /\ More(p) /\ SizeOf[Current(p)] > MaxInline
    /\ \E unread \in SUBSET Candidates(p) :
        /\ Passed(p, unread)
        /\ \/ /\ post' = [post EXCEPT ![p].pc = "session", ![p].unread = @ \cup Missed(p, unread)]
              /\ left' = left /\ Calm
           \/ ResultAtOnce(p, "failed", FALSE, unread) /\ left' = left /\ Calm
           \/ ResultAtOnce(p, "failed", FALSE, unread) /\ left' = left \cup {p} /\ Fault
    /\ UNCHANGED <<link, get, task, indexed>>

-----------------------------------------------------------------------------
(* The upload session.                                                      *)

Total(p)    == SizeOf[Current(p)]
RangeEnd(p) == Min2(post[p].session.start + Chunk, Total(p))

\* Mutant: no room for an answer that asks for a range again.
TightIterations(p) == (Total(p) + Chunk - 1) \div Chunk

MaxIterations(p) == (Total(p) + Chunk - 1) \div Chunk + 2

Sending(p) ==
    /\ post[p].pc = "session" /\ post[p].session.start < Total(p)
    /\ post[p].session.guard <= MaxIterations(p)

\* What Graph may have after the range: nothing of one that does not continue
\* what it has, else all or some.
Accepted(p) ==
    LET s == post[p].session IN
    IF s.start = s.got THEN s.got..RangeEnd(p) ELSE {s.got}

\* Mutant: the rounds are not counted.
PutUncounted(p) ==
    /\ Sending(p)
    /\ \E got \in Accepted(p) :
         /\ got < Total(p)
         /\ \E next \in {got, RangeEnd(p)} :
              post' = [post EXCEPT ![p].session.start = next,
                                   ![p].session.got = got]
    /\ UNCHANGED <<link, get, task, left, indexed, faults>>

\* A range is taken, or part of it, and there is more to send: from where Graph
\* says, or, if that cannot be read, from where this one ended.
Put(p) ==
    /\ Sending(p)
    /\ \E got \in Accepted(p) :
         /\ got < Total(p)
         /\ \E next \in {got, RangeEnd(p)} :
              post' = [post EXCEPT ![p].session =
                         [start |-> next, guard |-> @.guard + 1, got |-> got,
                          wasted |-> @.wasted + IF got = RangeEnd(p) THEN 0 ELSE 1]]
    /\ UNCHANGED <<link, get, task, left, indexed, faults>>

\* The last byte is taken, and the attachment created.
PutLast(p) ==
    /\ Sending(p) /\ Total(p) \in Accepted(p)
    /\ task' = task \cup {Current(p)}
    /\ Result(p, "attached", TRUE)
    /\ UNCHANGED <<link, get, left, indexed, faults>>

\* cancelSession() is best effort.
Cancel(p) == (left' = left /\ Calm) \/ (left' = left \cup {p} /\ Fault)

\* Graph refuses the range.
PutRefused(p) ==
    /\ Sending(p)
    /\ Result(p, "failed", FALSE) /\ Cancel(p)
    /\ UNCHANGED <<link, get, task, indexed>>

\* It does not answer: fetch() throws, past every cancelSession().
PutLost(p) ==
    /\ Sending(p)
    /\ \/ task' = task /\ left' = left \cup {p} /\ Result(p, "failed", FALSE)
       \/ /\ Total(p) \in Accepted(p)
          /\ task' = task \cup {Current(p)} /\ left' = left /\ Result(p, "failed", TRUE)
    /\ Fault
    /\ UNCHANGED <<link, get, indexed>>

\* Mutant: the session is given up and left open.
StallUncancelled(p) ==
    /\ post[p].pc = "session" /\ post[p].session.guard > MaxIterations(p)
    /\ Result(p, "stalled", FALSE) /\ left' = left \cup {p}
    /\ UNCHANGED <<link, get, task, indexed, faults>>

\* Too many rounds: upload_session_stalled.
Stall(p) ==
    /\ post[p].pc = "session" /\ post[p].session.start < Total(p)
    /\ post[p].session.guard > MaxIterations(p)
    /\ Result(p, "stalled", FALSE) /\ Cancel(p)
    /\ UNCHANGED <<link, get, task, indexed>>

\* Mutant: with every byte sent, the file is reported as attached.
IncompleteIsDone(p) ==
    /\ post[p].pc = "session" /\ post[p].session.start >= Total(p)
    /\ Result(p, "attached", FALSE) /\ Cancel(p)
    /\ UNCHANGED <<link, get, task, indexed>>

\* All sent, and nothing created: upload_session_incomplete.
Incomplete(p) ==
    /\ post[p].pc = "session" /\ post[p].session.start >= Total(p)
    /\ Result(p, "failed", FALSE) /\ Cancel(p)
    /\ UNCHANGED <<link, get, task, indexed>>

-----------------------------------------------------------------------------
\* The answer; the index learns of attachments, best effort.
Finish(p) ==
    /\ post[p].pc = "next" /\ Len(post[p].out) = Len(post[p].files)
    /\ Goto(p, "done")
    /\ \/ /\ Calm
          /\ indexed' = (indexed \/ \E i \in DOMAIN post[p].out :
                           post[p].out[i] \in {"attached", "duplicate"})
       \/ indexed' = indexed /\ Fault
    /\ UNCHANGED <<link, get, task, left>>

Active(p) == post[p].pc \notin {"idle", "done", "dead"}

\* The worker is evicted or the process ends.
Die(p) ==
    /\ Active(p) /\ Fault
    /\ Goto(p, "dead")
    /\ left' = IF post[p].pc = "session" THEN left \cup {p} ELSE left
    /\ UNCHANGED <<link, get, task, indexed>>

-----------------------------------------------------------------------------
(* A GET of the download link.                                              *)

GotoGet(g, pc) == get' = [get EXCEPT ![g].pc = pc]

CheckGet(g) ==
    /\ get[g].pc = "idle" /\ link[Download] # "none"
    /\ get' = [get EXCEPT
         ![g].pc = IF link[Download] = "live" THEN "checked" ELSE "done",
         ![g].late = (link[Download] = "spent")]
    /\ UNCHANGED <<link, post, task, left, indexed, faults>>

\* The owner is not signed in: the link stays.
RefuseGet(g) ==
    /\ get[g].pc = "checked"
    /\ GotoGet(g, "done")
    /\ UNCHANGED <<link, post, task, left, indexed, faults>>

BurnGet(g) ==
    /\ get[g].pc = "checked"
    /\ link' = [link EXCEPT ![Download] = "spent"]
    /\ GotoGet(g, "burned")
    /\ UNCHANGED <<post, task, left, indexed, faults>>

\* Graph has the bytes, or not.
Serve(g) ==
    /\ get[g].pc = "burned"
    /\ \E pc \in {"served", "done"} : GotoGet(g, pc)
    /\ UNCHANGED <<link, post, task, left, indexed, faults>>

DieGet(g) ==
    /\ get[g].pc \in {"checked", "burned"} /\ Fault
    /\ GotoGet(g, "dead")
    /\ UNCHANGED <<link, post, task, left, indexed>>

-----------------------------------------------------------------------------
SessionStep(p) == \/ Put(p) \/ PutLast(p) \/ PutRefused(p) \/ PutLost(p)
                  \/ Stall(p) \/ Incomplete(p)
PostStep(p) == \/ Check(p) \/ Refuse(p) \/ Burn(p) \/ List(p) \/ NoToken(p)
               \/ Duplicate(p) \/ AttachInline(p) \/ OpenSession(p)
               \/ SessionStep(p) \/ Finish(p)
GetStep(g) == RefuseGet(g) \/ BurnGet(g) \/ Serve(g)

Next ==
    \/ CreateUploadLink \/ MintDownloadLink
    \/ \E k \in Link : Expire(k)
    \/ \E p \in Posts : \/ \E via \in LinkOf[p], files \in Batches[p], inQuery \in BOOLEAN :
                              Arrive(p, via, files, inQuery)
                        \/ PostStep(p) \/ Die(p)
    \/ \E g \in Gets : CheckGet(g) \/ GetStep(g) \/ DieGet(g)

Spec == Init /\ [][Next]_vars

\* A request that came goes on: each of its awaits is answered or throws.
FairSpec == /\ Spec
            /\ \A p \in Posts : WF_vars(PostStep(p))
            /\ \A g \in Gets : WF_vars(GetStep(g))

-----------------------------------------------------------------------------
(* Properties.                                                              *)

\* A link is burned before it is used, so that whatever becomes of the request,
\* a later one cannot attach again what already landed (handler.ts:209-212,
\* download-handler.ts:62-64).
BurnedBeforeUse ==
    /\ \A p \in Posts : (post[p].out # <<>> \/ post[p].pc \in {"burned", "next", "session"})
                        => link[post[p].via] = "spent"
    /\ \A g \in Gets : get[g].pc \in {"burned", "served"} => link[Download] = "spent"

\* A request that comes when the link is spent gets nothing from it (tokens.ts:
\* 77-81); requests that overlap may each use it (download-handler.ts:62-65).
LateGetsNothing ==
    /\ \A p \in Posts : post[p].late =>
         post[p].out = <<>> /\ post[p].pc \in {"form", "done", "dead"}
    /\ \A g \in Gets : get[g].late => get[g].pc = "done"

\* Uploading again is safe: a small file gets to Graph only if none of the
\* attachments that were there when the request came has its content, be it that
\* an earlier request put it there without being answered; and only if no file
\* before it in the batch was reported as attached with that content (one that
\* landed without an answer was reported as failed, and its content may follow).
\* The exceptions: the attachments could not be listed, the bytes of that one
\* could not be read for this file, or its size is out of the band
\* (handler.ts:230-232, 259-261, 286-293).
NoNeedlessCopy ==
    \A p \in Posts : \A i \in post[p].landed :
        LET f == post[p].files[i] IN
        /\ \A j \in DOMAIN post[p].out :
             j < i /\ ContentOf[post[p].files[j]] = ContentOf[f] => post[p].out[j] # "attached"
        /\ ~Large(f) /\ ~post[p].blind =>
             \A e \in post[p].had :
                ContentOf[e] = ContentOf[f] => \/ <<e, f>> \notin InBand
                                               \/ <<i, e>> \in post[p].unread

\* What is reported as attached or as a duplicate is on the task: the file, its
\* content, or, for a large one, its name; and the index flags no task that has
\* nothing (handler.ts:319-347, 361-364).
ReportIsTrue ==
    /\ \A p \in Posts : \A i \in DOMAIN post[p].out :
         LET f == post[p].files[i] IN
         /\ post[p].out[i] = "attached" => f \in task
         /\ post[p].out[i] = "duplicate" =>
              \E e \in task : \/ ContentOf[e] = ContentOf[f]
                              \/ Large(f) /\ NameOf[e] = NameOf[f]
    /\ indexed => task # {}

\* A session that is given up as stalled had at least four answers that did not
\* take their range: up to three never end an upload (graph-upload.ts:178-183).
StallsLate ==
    \A p \in Posts :
        post[p].pc = "session" /\ post[p].session.start < Total(p)
        /\ post[p].session.guard > MaxIterations(p) => post[p].session.wasted > 3

\* No session is left open unless a request went unanswered or its process died.
SessionsReleased == left # {} => faults > 0

\* Every request that came is answered, whatever Graph says to its ranges.
Answered ==
    /\ \A p \in Posts : Active(p) ~> ~Active(p)
    /\ \A g \in Gets : get[g].pc \in {"checked", "burned"}
                       ~> get[g].pc \in {"served", "done", "dead"}
=============================================================================

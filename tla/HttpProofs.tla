------------------------------ MODULE HttpProofs ------------------------------
(***************************************************************************)
(* The two handlers of browsers' requests.                                 *)
(*                                                                         *)
(* AccountSwitch, the sign-in callback, for any number of accounts,        *)
(* sign-ins and revocations, when one callback runs at a time:             *)
(*   GrantsOfOwner   live grants are the owner's, wherever a callback dies *)
(*                   and whatever the sync loop does meanwhile;            *)
(*   NeverMixed      the index is the owner's, with cycles in flight and   *)
(*                   deaths at every step, but after the two of them that  *)
(*                   leave whose it is in doubt.                           *)
(*                                                                         *)
(* Upload: the links and the upload sessions for any number of requests,   *)
(* any batch and any sizes.  A spent link stays spent, which is all that   *)
(* the links need.  For the sessions the inductive invariant counts: every *)
(* round but a wasted one brought Graph a whole range, and Graph has not   *)
(* all of them.                                                            *)
(***************************************************************************)
EXTENDS AccountSwitch, Upload, TLAPS

OneCallback == \A c, d \in Callbacks : c = d

LEMMA SwitchTypeStep == SwitchTypeOK /\ [SwitchNext]_switchVars => SwitchTypeOK'
<1> SUFFICES ASSUME SwitchTypeOK, [SwitchNext]_switchVars PROVE SwitchTypeOK'
  OBVIOUS
<1> USE DEF SwitchTypeOK, Owner, kv, data, loop, flag
<1>1. ASSUME NEW c \in Callbacks, Callback(c) PROVE SwitchTypeOK'
  <2>1. cb[c].acct \in Owner
    OBVIOUS
  <2>2. CASE LookUp(c)
    BY <2>2 DEF LookUp, StepTo, Steps
  <2>3. CASE ResetBegin(c)
    BY <2>3 DEF ResetBegin, StepTo, Steps
  <2>4. CASE ResetFinish(c)
    <3>1. /\ epoch' \in Nat /\ rows' \subseteq Accounts /\ cursor' \in Owner
          /\ doubt' \in BOOLEAN
      BY <2>4 DEF ResetFinish
    <3> QED BY <2>4, <3>1 DEF ResetFinish, StepTo, Steps
  <2>5. CASE WipeTokens(c)
    BY <2>5 DEF WipeTokens, StepTo, Steps
  <2>6. CASE WipeIdentity(c)
    BY <2>6 DEF WipeIdentity, StepTo, Steps
  <2>7. CASE StoreTokens(c)
    BY <2>1, <2>7 DEF StoreTokens, StepTo, Steps
  <2>8. CASE StoreIdentity(c)
    BY <2>1, <2>8 DEF StoreIdentity, StepTo, Steps
  <2>9. CASE ClearReauth(c)
    BY <2>9 DEF ClearReauth, StepTo, Steps
  <2>10. CASE ReadEpoch(c)
    <3>1. epoch' \in Nat
      BY <2>10 DEF ReadEpoch
    <3>2. cb' = [cb EXCEPT ![c] = [cb[c] EXCEPT !.pc = "granting",
                                                !.epoch = epoch']]
      BY <2>10 DEF ReadEpoch
    <3> QED BY <2>10, <3>1, <3>2 DEF ReadEpoch, Steps
  <2>11. CASE Grant(c)
    <3>1. [acct |-> cb[c].acct, epoch |-> cb[c].epoch]
             \in [acct : Owner, epoch : Nat]
      OBVIOUS
    <3> QED BY <2>11, <3>1 DEF Grant, NoCallback
  <2> QED BY <1>1, <2>2, <2>3, <2>4, <2>5, <2>6, <2>7, <2>8, <2>9, <2>10, <2>11
          DEF Callback
<1>2. ASSUME NEW c \in Callbacks, CallbackDies(c) PROVE SwitchTypeOK'
  <2>1. doubt' \in BOOLEAN /\ refused' \in BOOLEAN
    BY <1>2 DEF CallbackDies
  <2> QED BY <1>2, <2>1 DEF CallbackDies, NoCallback
<1>3. ASSUME NEW c \in Callbacks, NEW a \in Accounts, Exchange(c, a) PROVE SwitchTypeOK'
  BY <1>3, SwitchAssumption DEF Exchange, Steps
<1>4. CASE RevokeAll
  BY <1>4 DEF RevokeAll
<1>5. CASE Heartbeat
  BY <1>5 DEF Heartbeat
<1>6. CASE Alarm
  <2>1. doubt' \in BOOLEAN /\ cycle' \in Owner
    BY <1>6 DEF Alarm
  <2> QED BY <1>6, <2>1 DEF Alarm
<1>7. CASE CycleDone
  BY <1>7 DEF CycleDone
<1>8. CASE Refused
  BY <1>8 DEF Refused
<1>9. CASE UNCHANGED switchVars
  BY <1>9 DEF switchVars
<1> QED BY <1>1, <1>2, <1>3, <1>4, <1>5, <1>6, <1>7, <1>8, <1>9 DEF SwitchNext

LEMMA SwitchTypeInit == SwitchInit => SwitchTypeOK
<1> SUFFICES ASSUME SwitchInit PROVE SwitchTypeOK
  OBVIOUS
<1>1. cb \in [Callbacks -> [pc : Steps \cup {"idle"}, acct : Owner, epoch : Nat]]
  BY DEF SwitchInit, NoCallback, Owner
<1>2. grants = {} /\ rows = {} /\ signIns \in 0..MaxSignIn
  BY SwitchAssumption DEF SwitchInit
<1> QED BY <1>1, <1>2 DEF SwitchInit, SwitchTypeOK, Owner

\* Every record of an account keeps its type.
THEOREM TypeCorrect == SwitchSpec => []SwitchTypeOK
BY SwitchTypeInit, SwitchTypeStep, PTL DEF SwitchSpec

-----------------------------------------------------------------------------
(* Live grants are the owner's.                                             *)

\* What a callback knows of the owner at each of its steps.
Knows(c) ==
    /\ cb[c].pc # "idle" => cb[c].acct \in Accounts
    /\ cb[c].pc \in {"storing", "marking"} => identity \in {None, cb[c].acct}
    /\ cb[c].pc = "marking" => tokens = cb[c].acct
    /\ cb[c].pc \in {"clearing", "epoch", "granting"} => identity = cb[c].acct
    /\ cb[c].pc \in {"wipeTokens", "wipeIdentity"} =>
          \A g \in grants : ~Live(g)
    /\ cb[c].epoch <= epoch

OwnerInv ==
    /\ SwitchTypeOK
    /\ \A g \in grants : g.epoch <= epoch /\ g.acct \in Accounts
    /\ \A g \in grants : Live(g) => identity = g.acct
    /\ identity # None => tokens \in {None, identity}
    /\ \A c \in Callbacks : Knows(c)

LEMMA OwnerStep == OneCallback /\ OwnerInv /\ [SwitchNext]_switchVars => OwnerInv'
<1> SUFFICES ASSUME OneCallback, OwnerInv, [SwitchNext]_switchVars PROVE OwnerInv'
  OBVIOUS
<1>0. SwitchTypeOK'
  BY SwitchTypeStep DEF OwnerInv
<1>1. ASSUME NEW c \in Callbacks, Callback(c) PROVE OwnerInv'
  <2>0. /\ SwitchTypeOK /\ cb[c] \in [pc : Steps \cup {"idle"}, acct : Owner, epoch : Nat]
        /\ \A d \in Callbacks : d = c
    BY DEF OwnerInv, SwitchTypeOK, OneCallback
  <2> USE DEF OwnerInv, Knows, Live, kv, data
  <2>1. CASE LookUp(c)
    BY <1>0, <2>0, <2>1 DEF LookUp, At, StepTo, SwitchTypeOK
  <2>2. CASE ResetBegin(c)
    BY <1>0, <2>0, <2>2 DEF ResetBegin, At, StepTo, SwitchTypeOK
  <2>3. CASE ResetFinish(c)
    BY <1>0, <2>0, <2>3 DEF ResetFinish, At, StepTo, SwitchTypeOK
  <2>4. CASE WipeTokens(c)
    BY <1>0, <2>0, <2>4 DEF WipeTokens, At, StepTo, SwitchTypeOK
  <2>5. CASE WipeIdentity(c)
    BY <1>0, <2>0, <2>5 DEF WipeIdentity, At, StepTo, SwitchTypeOK
  <2>6. CASE StoreTokens(c)
    BY <1>0, <2>0, <2>6 DEF StoreTokens, At, StepTo, SwitchTypeOK
  <2>7. CASE StoreIdentity(c)
    BY <1>0, <2>0, <2>7, SwitchAssumption DEF StoreIdentity, At, StepTo, SwitchTypeOK
  <2>8. CASE ClearReauth(c)
    BY <1>0, <2>0, <2>8 DEF ClearReauth, At, StepTo, SwitchTypeOK
  <2>9. CASE ReadEpoch(c)
    <3>1. cb' = [cb EXCEPT ![c] = [cb[c] EXCEPT !.pc = "granting",
                                                !.epoch = epoch']]
      BY <2>9 DEF ReadEpoch
    <3>2. epoch <= epoch' /\ epoch' \in Nat
      BY <2>0, <2>9 DEF ReadEpoch, SwitchTypeOK
    <3>3. cb'[c].pc = "granting" /\ cb'[c].epoch = epoch' /\ cb'[c].acct = cb[c].acct
      BY <2>0, <3>1 DEF SwitchTypeOK
    <3>4. UNCHANGED <<tokens, identity, grants>> /\ identity = cb[c].acct
          /\ cb[c].acct \in Accounts
      BY <2>9 DEF ReadEpoch, At
    <3>5. \A g \in grants : g.epoch <= epoch'
      BY <2>0, <3>2 DEF SwitchTypeOK
    <3>6. \A g \in grants : Live(g)' => identity = g.acct
      <4>1. CASE epoch' = epoch
        BY <3>4, <4>1
      <4>2. CASE epoch' # epoch
        BY <2>0, <2>9, <4>2 DEF ReadEpoch, SwitchTypeOK
      <4> QED BY <4>1, <4>2
    <3> QED BY <1>0, <2>0, <3>2, <3>3, <3>4, <3>5, <3>6
  <2>10. CASE Grant(c)
    BY <1>0, <2>0, <2>10 DEF Grant, At, NoCallback, SwitchTypeOK
  <2> QED BY <1>1, <2>1, <2>2, <2>3, <2>4, <2>5, <2>6, <2>7, <2>8, <2>9, <2>10
          DEF Callback
<1>2. ASSUME NEW c \in Callbacks, CallbackDies(c) PROVE OwnerInv'
  BY <1>0, <1>2 DEF CallbackDies, NoCallback, OwnerInv, Knows, Live, kv, data, SwitchTypeOK
<1>3. ASSUME NEW c \in Callbacks, NEW a \in Accounts, Exchange(c, a)
      PROVE  OwnerInv'
  BY <1>0, <1>3 DEF Exchange, OwnerInv, Knows, Live, kv, data, SwitchTypeOK
<1>4. CASE RevokeAll
  BY <1>0, <1>4 DEF RevokeAll, OwnerInv, Knows, Live, kv, data, SwitchTypeOK
<1>5. ASSUME UNCHANGED <<tokens, identity, epoch, grants, cb>> PROVE OwnerInv'
  BY <1>0, <1>5 DEF OwnerInv, Knows, Live
<1>6. CASE Heartbeat \/ Alarm \/ CycleDone \/ Refused \/ UNCHANGED switchVars
  BY <1>5, <1>6 DEF Heartbeat, Alarm, CycleDone, Refused, kv, data, switchVars
<1> QED BY <1>1, <1>2, <1>3, <1>4, <1>6 DEF SwitchNext

\* However many accounts take turns, and wherever a callback dies: a grant
\* that passes the gate was issued to the owner of the stored tokens.
THEOREM GrantsOfOwner ==
    ASSUME OneCallback PROVE SwitchSpec => []LiveGrantsAreOwners
<1>1. SwitchInit => OwnerInv
  BY SwitchTypeInit DEF SwitchInit, OwnerInv, Knows, NoCallback
<1>2. OwnerInv => LiveGrantsAreOwners
  BY SwitchAssumption DEF OwnerInv, LiveGrantsAreOwners, SwitchTypeOK
<1>3. OwnerInv /\ [SwitchNext]_switchVars => OwnerInv'
  BY OwnerStep
<1> QED BY <1>1, <1>2, <1>3, PTL DEF SwitchSpec

-----------------------------------------------------------------------------
(* The index is the owner's.                                                *)

\* Whose the index is: the owner's, and before the identity of a first sign-in is
\* stored, that of the tokens.
Who == IF identity # None THEN identity ELSE tokens

\* What a callback knows of the index and of the tokens at each of its steps.
Wiped(c) ==
    /\ cb[c].pc # "idle" => cb[c].acct \in Accounts
    /\ cb[c].pc \in {"resetting", "teardown", "wipeTokens", "wipeIdentity"} =>
          identity # None
    /\ cb[c].pc = "wipeIdentity" => tokens = None
    /\ cb[c].pc \in {"storing", "marking"} => identity \in {None, cb[c].acct}
    /\ cb[c].pc = "marking" => tokens = cb[c].acct
    /\ ~doubt /\ cb[c].pc \in {"wipeTokens", "wipeIdentity"} =>
          rows = {} /\ cursor = None /\ cycle = None

\* Without doubt, the index is the owner's, and tokens without an owner are those
\* of a callback that is about to store him.
Sure ==
    /\ rows \subseteq {Who} /\ cursor \in {None, Who} /\ cycle \in {None, Who}
    /\ identity = None /\ tokens # None => \E c \in Callbacks : cb[c].pc = "marking"

MixInv ==
    /\ SwitchTypeOK
    /\ identity # None => tokens \in {None, identity}
    /\ ~doubt => Sure
    /\ \A c \in Callbacks : Wiped(c)

LEMMA MixStep == OneCallback /\ MixInv /\ [SwitchNext]_switchVars => MixInv'
<1> SUFFICES ASSUME OneCallback, MixInv, [SwitchNext]_switchVars PROVE MixInv'
  OBVIOUS
<1>0. SwitchTypeOK' /\ SwitchTypeOK /\ None \notin Accounts
  BY SwitchTypeStep, SwitchAssumption DEF MixInv
<1>1. ASSUME NEW c \in Callbacks, Callback(c) PROVE MixInv'
  <2>0. /\ cb[c] \in [pc : Steps \cup {"idle"}, acct : Owner, epoch : Nat]
        /\ \A d \in Callbacks : d = c
    BY <1>0 DEF SwitchTypeOK, OneCallback
  <2> USE DEF MixInv, Wiped, Sure, Who, kv, data, loop
  <2>1. CASE LookUp(c)
    BY <1>0, <2>0, <2>1 DEF LookUp, At, StepTo, SwitchTypeOK
  <2>2. CASE ResetBegin(c)
    BY <1>0, <2>0, <2>2 DEF ResetBegin, At, StepTo, SwitchTypeOK
  <2>3. CASE ResetFinish(c)
    BY <1>0, <2>0, <2>3 DEF ResetFinish, At, StepTo, SwitchTypeOK
  <2>4. CASE WipeTokens(c)
    BY <1>0, <2>0, <2>4 DEF WipeTokens, At, StepTo, SwitchTypeOK
  <2>5. CASE WipeIdentity(c)
    BY <1>0, <2>0, <2>5 DEF WipeIdentity, At, StepTo, SwitchTypeOK
  <2>6. CASE StoreTokens(c)
    BY <1>0, <2>0, <2>6 DEF StoreTokens, At, StepTo, SwitchTypeOK
  <2>7. CASE StoreIdentity(c)
    BY <1>0, <2>0, <2>7 DEF StoreIdentity, At, StepTo, SwitchTypeOK
  <2>8. CASE ClearReauth(c)
    BY <1>0, <2>0, <2>8 DEF ClearReauth, At, StepTo, SwitchTypeOK
  <2>9. CASE ReadEpoch(c)
    <3>1. /\ cb'[c].pc = "granting" /\ cb'[c].acct = cb[c].acct
          /\ UNCHANGED <<tokens, identity, rows, cursor, cycle, doubt>>
          /\ cb[c].pc = "epoch"
      BY <1>0, <2>0, <2>9 DEF ReadEpoch, At, SwitchTypeOK
    <3> QED BY <1>0, <2>0, <3>1
  <2>10. CASE Grant(c)
    BY <1>0, <2>0, <2>10 DEF Grant, At, NoCallback, SwitchTypeOK
  <2> QED BY <1>1, <2>1, <2>2, <2>3, <2>4, <2>5, <2>6, <2>7, <2>8, <2>9, <2>10
          DEF Callback
<1>2. ASSUME NEW c \in Callbacks, CallbackDies(c) PROVE MixInv'
  <2>1. \A d \in Callbacks : d = c /\ cb'[d].pc = "idle"
    BY <1>0, <1>2 DEF CallbackDies, OneCallback, SwitchTypeOK, NoCallback
  <2>2. UNCHANGED <<tokens, identity, rows, cursor, cycle>>
    BY <1>2 DEF CallbackDies, kv, data, loop
  <2>3. ~doubt' => ~doubt /\ (cb[c].pc = "marking" => identity = cb[c].acct)
    BY <1>2 DEF CallbackDies, At
  <2>4. ~doubt' => Sure'
    <3> SUFFICES ASSUME ~doubt' PROVE Sure'
      OBVIOUS
    <3>1. Sure /\ (cb[c].pc = "marking" => identity = cb[c].acct /\ cb[c].acct \in Accounts)
      BY <2>3 DEF MixInv, Wiped
    <3>2. identity = None => tokens = None
      BY <1>0, <2>1, <3>1 DEF Sure
    <3> QED BY <2>2, <3>1, <3>2 DEF Sure, Who
  <2> QED BY <1>0, <2>1, <2>2, <2>4 DEF MixInv, Wiped
<1>3. ASSUME NEW c \in Callbacks, NEW a \in Accounts, Exchange(c, a)
      PROVE  MixInv'
  BY <1>0, <1>3 DEF Exchange, At, OneCallback, MixInv, Wiped, Sure, Who, kv, data, loop,
                    SwitchTypeOK
<1>4. ASSUME UNCHANGED <<tokens, identity, rows, cursor, cycle, cb, doubt>> PROVE MixInv'
  BY <1>0, <1>4 DEF MixInv, Wiped, Sure, Who
<1>5. CASE RevokeAll \/ Heartbeat \/ UNCHANGED switchVars
  BY <1>4, <1>5 DEF RevokeAll, Heartbeat, kv, data, loop, switchVars
<1>6. CASE Alarm
  <2>1. /\ cycle = None /\ cycle' \in {None, tokens}
        /\ UNCHANGED <<tokens, identity, rows, cursor, cb>>
        /\ ~doubt' => ~doubt
    BY <1>6 DEF Alarm, kv, data
  <2>2. ~doubt' /\ cycle' # None => \A c \in Callbacks : cb[c].pc # "wipeTokens"
    BY <1>6 DEF Alarm, At
  <2>3. \A c \in Callbacks : Wiped(c)'
    BY <1>0, <2>1, <2>2 DEF MixInv, Wiped
  <2>4. ~doubt' => Sure'
    BY <1>0, <2>1 DEF MixInv, Sure, Who
  <2> QED BY <1>0, <2>1, <2>3, <2>4 DEF MixInv
<1>7. CASE CycleDone
  <2>1. /\ cycle # None /\ cycle' = None /\ (~doubt => cycle = Who)
        /\ ~doubt => rows' \subseteq {Who} /\ cursor' \in {None, Who}
        /\ UNCHANGED <<tokens, identity, cb, doubt>>
    BY <1>7 DEF CycleDone, MixInv, Sure, kv, data
  <2>2. ~doubt => \A c \in Callbacks : cb[c].pc \notin {"wipeTokens", "wipeIdentity"}
    BY <2>1 DEF MixInv, Wiped
  <2> QED BY <1>0, <2>1, <2>2 DEF MixInv, Wiped, Sure, Who
<1>8. CASE Refused
  <2>1. /\ cycle' \in {None, cycle}
        /\ UNCHANGED <<tokens, identity, rows, cursor, cb, doubt>>
    BY <1>8 DEF Refused, kv, data, loop
  <2> QED BY <1>0, <2>1 DEF MixInv, Wiped, Sure, Who
<1> QED BY <1>1, <1>2, <1>3, <1>5, <1>6, <1>7, <1>8 DEF SwitchNext

\* Of however many accounts that take turns, the index holds the rows and the
\* cursors of the known owner only, while cycles go on and callbacks die at any
\* step: but for the doubt that OneAccount names, the wipe fails closed.
THEOREM NeverMixed ==
    ASSUME OneCallback PROVE SwitchSpec => []OneAccount
<1>1. SwitchInit => MixInv
  BY SwitchTypeInit DEF SwitchInit, MixInv, Wiped, Sure, Who, NoCallback
<1>2. MixInv => OneAccount
  BY DEF MixInv, OneAccount, Sure, Who
<1>3. MixInv /\ [SwitchNext]_switchVars => MixInv'
  BY MixStep
<1> QED BY <1>1, <1>2, <1>3, PTL DEF SwitchSpec

-----------------------------------------------------------------------------
(* The links.                                                                *)

\* Who came late came to a spent link.
LateIsSpent ==
    /\ \A p \in Posts : post[p].late => link[post[p].via] = "spent"
    /\ \A g \in Gets : get[g].late => link[Download] = "spent"

\* A session is about a file of the batch that has no result yet.
InBatch ==
    \A p \in Posts :
        IF post[p].pc = "session" THEN Len(post[p].out) < Len(post[p].files)
        ELSE post[p].pc # "dead" => post[p].session = NoSession

\* What the rounds of a session have brought.
Counted(p) ==
    LET s == post[p].session IN
    /\ s.got <= s.start /\ s.got < Total(p)
    /\ s.wasted <= s.guard
    /\ Chunk * (s.guard - s.wasted) <= s.got

Progress == \A p \in Posts : post[p].pc = "session" => Counted(p)

Links == BurnedBeforeUse /\ LateGetsNothing /\ LateIsSpent
IInv  == TypeOK /\ Links /\ InBatch /\ Progress

-----------------------------------------------------------------------------
\* A POST of a session is about a file, whose size is positive.
LEMMA CurrentFile ==
    ASSUME TypeOK, NEW p \in Posts, Len(post[p].out) < Len(post[p].files)
    PROVE  Current(p) \in File /\ Total(p) \in Nat \ {0}
<1>1. post[p] \in PostState
  BY DEF TypeOK
<1>2. post[p].files \in Seq(File) /\ Len(post[p].out) \in Nat
  BY <1>1 DEF PostState
<1>. QED
  BY <1>1, <1>2, UploadAssumption DEF PostState, Current, Total

\* A range ends after it starts, and not past the file.
LEMMA RangeEndType ==
    ASSUME TypeOK, NEW p \in Posts, Len(post[p].out) < Len(post[p].files), Sending(p)
    PROVE  /\ RangeEnd(p) \in Nat /\ post[p].session.start < RangeEnd(p)
           /\ RangeEnd(p) <= Total(p) /\ RangeEnd(p) <= post[p].session.start + Chunk
           /\ RangeEnd(p) < Total(p) => RangeEnd(p) = post[p].session.start + Chunk
           /\ \A got \in Accepted(p) : got \in Nat
<1>1. post[p].session.start \in Nat /\ post[p].session.got \in Nat
  BY DEF TypeOK, PostState, SessionState
<1>2. Total(p) \in Nat \ {0}
  BY CurrentFile
<1>. QED
  BY <1>1, <1>2, UploadAssumption DEF RangeEnd, Sending, Min2, Accepted, SessionState

\* Requests are where the program can be.
LEMMA Pcs == {"idle", "form", "checked", "burned", "next", "session", "done", "dead"} = Pc
BY DEF Pc

\* The tools make one link at a time.
LEMMA Minting == CreateUploadLink \/ MintDownloadLink => \E k \in Link : Mint(k)
BY DEF CreateUploadLink, MintDownloadLink, Link

\* A request that comes, with its link and its files.
LEMMA ArriveType ==
    ASSUME TypeOK, NEW p \in Posts, NEW via \in Uploads, NEW files \in Seq(File),
           NEW pc \in Pc, NEW late \in BOOLEAN,
           post' = [post EXCEPT ![p].pc = pc, ![p].via = via, ![p].files = files,
                                ![p].late = late, ![p].had = task]
    PROVE  post' \in [Posts -> PostState]
<1>1. post[p] \in PostState /\ task \in SUBSET File
  BY DEF TypeOK
<1>2. [post[p] EXCEPT !.pc = pc, !.via = via, !.files = files, !.late = late, !.had = task]
        \in PostState
  BY <1>1 DEF PostState
<1>3. post' = [post EXCEPT ![p] =
                 [post[p] EXCEPT !.pc = pc, !.via = via, !.files = files, !.late = late,
                                 !.had = task]]
  OBVIOUS
<1>. QED
  BY <1>2, <1>3 DEF TypeOK

\* What a file could not be compared with.
LEMMA MissedType ==
    ASSUME TypeOK, NEW p \in Posts, NEW unread \in SUBSET Candidates(p)
    PROVE  Missed(p, unread) \subseteq Nat \X File
<1>1. post[p] \in PostState
  BY DEF TypeOK
<1>2. Len(post[p].out) + 1 \in Nat /\ post[p].existing \subseteq File
  BY <1>1 DEF PostState
<1>3. unread \subseteq File
  BY <1>2 DEF Candidates
<1>. QED
  BY <1>2, <1>3 DEF Missed

\* A request that only moves on keeps its type.
LEMMA GotoType ==
    ASSUME TypeOK, NEW p \in Posts, NEW pc \in Pc, Goto(p, pc)
    PROVE  post' \in [Posts -> PostState]
<1>1. post[p] \in PostState
  BY DEF TypeOK
<1>2. [post[p] EXCEPT !.pc = pc] \in PostState
  BY <1>1 DEF PostState
<1>3. post' = [post EXCEPT ![p] = [post[p] EXCEPT !.pc = pc]]
  BY DEF Goto
<1>. QED
  BY <1>2, <1>3 DEF TypeOK

\* The result of a file is one more of the batch.
LEMMA ResultType ==
    ASSUME TypeOK, NEW p \in Posts, NEW r \in Results, NEW landed \in BOOLEAN,
           \/ Result(p, r, landed)
           \/ \E unread \in SUBSET Candidates(p) : ResultAtOnce(p, r, landed, unread)
    PROVE  post' \in [Posts -> PostState]
<1>1. post[p] \in PostState
  BY DEF TypeOK
<1>2. Append(post[p].out, r) \in Seq(Results)
  BY <1>1 DEF PostState
<1>3. NoSession \in SessionState /\ "next" \in Pc
  BY DEF NoSession, SessionState, Pc
<1> DEFINE now == IF landed THEN post[p].landed \cup {Len(post[p].out) + 1} ELSE post[p].landed
<1>4. now \in SUBSET Nat
  BY <1>1 DEF PostState
<1>5. CASE Result(p, r, landed)
  <2>1. post' = [post EXCEPT ![p] = [post[p] EXCEPT !.pc = "next", !.out = Append(post[p].out, r),
                                                   !.landed = now, !.session = NoSession]]
    BY <1>5 DEF Result
  <2> HIDE DEF now
  <2>2. [post[p] EXCEPT !.pc = "next", !.out = Append(post[p].out, r), !.landed = now,
                        !.session = NoSession] \in PostState
    BY <1>1, <1>2, <1>3, <1>4 DEF PostState
  <2> QED BY <2>1, <2>2 DEF TypeOK
<1>6. CASE \E unread \in SUBSET Candidates(p) : ResultAtOnce(p, r, landed, unread)
  <2>1. PICK unread \in SUBSET Candidates(p) : ResultAtOnce(p, r, landed, unread)
    BY <1>6
  <2> DEFINE more == post[p].unread \cup Missed(p, unread)
  <2>2. more \in SUBSET (Nat \X File)
    BY <1>1, MissedType DEF PostState
  <2>3. post' = [post EXCEPT ![p] = [post[p] EXCEPT !.pc = "next", !.out = Append(post[p].out, r),
                                                   !.landed = now, !.unread = more]]
    BY <2>1 DEF ResultAtOnce
  <2> HIDE DEF now, more
  <2>4. [post[p] EXCEPT !.pc = "next", !.out = Append(post[p].out, r), !.landed = now,
                        !.unread = more] \in PostState
    BY <1>1, <1>2, <1>3, <1>4, <2>2 DEF PostState
  <2> QED BY <2>3, <2>4 DEF TypeOK
<1>. QED
  BY <1>5, <1>6

\* A session that is opened.
Opens(p, unread) ==
    post' = [post EXCEPT ![p].pc = "session", ![p].unread = @ \cup Missed(p, unread)]

LEMMA OpenType ==
    ASSUME TypeOK, NEW p \in Posts, NEW unread \in SUBSET Candidates(p), Opens(p, unread)
    PROVE  post' \in [Posts -> PostState]
<1> DEFINE more == post[p].unread \cup Missed(p, unread)
<1>1. post[p] \in PostState /\ "session" \in Pc
  BY DEF TypeOK, Pc
<1>2. more \in SUBSET (Nat \X File)
  BY <1>1, MissedType DEF PostState
<1>3. post' = [post EXCEPT ![p] = [post[p] EXCEPT !.pc = "session", !.unread = more]]
  BY DEF Opens
<1> HIDE DEF more
<1>4. [post[p] EXCEPT !.pc = "session", !.unread = more] \in PostState
  BY <1>1, <1>2 DEF PostState
<1>. QED
  BY <1>3, <1>4 DEF TypeOK

-----------------------------------------------------------------------------
\* The types.
LEMMA TypeStep == ASSUME TypeOK, InBatch, [Next]_vars PROVE TypeOK'
<1> USE UploadAssumption
<1>1. ASSUME NEW k \in Link, Mint(k) \/ Expire(k) PROVE TypeOK'
  BY <1>1 DEF TypeOK, Mint, Expire
<1>2. ASSUME NEW p \in Posts, NEW via \in LinkOf[p], NEW files \in Batches[p],
             NEW inQuery \in BOOLEAN, Arrive(p, via, files, inQuery)
      PROVE  TypeOK'
  <2>1. files \in Seq(File) /\ via \in Uploads
    OBVIOUS
  <2>2. PICK pc \in Pc, late \in BOOLEAN :
          post' = [post EXCEPT ![p].pc = pc, ![p].via = via, ![p].files = files,
                               ![p].late = late, ![p].had = task]
    BY <1>2, Pcs DEF Arrive
  <2>3. post' \in [Posts -> PostState]
    BY <2>1, <2>2, ArriveType
  <2>. QED BY <1>2, <2>3 DEF TypeOK, Arrive
<1>3. ASSUME NEW p \in Posts, Check(p) \/ Refuse(p) \/ NoToken(p) PROVE TypeOK'
  <2>1. \E pc \in Pc : Goto(p, pc)
    BY <1>3, Pcs DEF Check, Refuse, NoToken
  <2>2. post' \in [Posts -> PostState]
    BY <2>1, GotoType
  <2>. QED BY <1>3, <2>2 DEF TypeOK, Check, Refuse, NoToken
<1>4. ASSUME NEW p \in Posts, Burn(p) PROVE TypeOK'
  <2>1. post' \in [Posts -> PostState]
    BY <1>4, Pcs, GotoType DEF Burn
  <2>2. link' \in [Link -> {"none", "live", "spent"}]
    BY <1>4 DEF Burn, TypeOK
  <2>. QED BY <1>4, <2>1, <2>2 DEF TypeOK, Burn
<1>5. ASSUME NEW p \in Posts, List(p) PROVE TypeOK'
  <2>1. post[p] \in PostState /\ "next" \in Pc /\ task \in SUBSET File
    BY DEF Pc, TypeOK
  <2>2. ASSUME post' = [post EXCEPT ![p].pc = "next", ![p].existing = task]
        PROVE  post' \in [Posts -> PostState]
    <3>1. [post[p] EXCEPT !.pc = "next", !.existing = task] \in PostState
      BY <2>1 DEF PostState
    <3>. QED BY <2>2, <3>1 DEF TypeOK
  <2>3. ASSUME post' = [post EXCEPT ![p].pc = "next", ![p].blind = TRUE]
        PROVE  post' \in [Posts -> PostState]
    <3>1. [post[p] EXCEPT !.pc = "next", !.blind = TRUE] \in PostState
      BY <2>1 DEF PostState
    <3>. QED BY <2>3, <3>1 DEF TypeOK
  <2>. QED BY <1>5, <2>2, <2>3 DEF TypeOK, List
<1>6. ASSUME NEW p \in Posts, Duplicate(p) PROVE TypeOK'
  <2>1. post[p] \in PostState
    BY DEF TypeOK
  <2>2. Append(post[p].out, "duplicate") \in Seq(Results)
    BY <2>1 DEF PostState, Results
  <2>3. post' \in [Posts -> PostState]
    BY <1>6, <2>1, <2>2 DEF TypeOK, Duplicate, PostState
  <2>. QED BY <1>6, <2>3 DEF TypeOK, Duplicate
<1>7. ASSUME NEW p \in Posts, AttachInline(p) PROVE TypeOK'
  <2>1. Current(p) \in File
    BY <1>7, CurrentFile DEF AttachInline, More
  <2>2. post' \in [Posts -> PostState]
    <3>1. PICK r \in Results, landed \in BOOLEAN :
            \E unread \in SUBSET Candidates(p) : ResultAtOnce(p, r, landed, unread)
      BY <1>7 DEF AttachInline, Results
    <3>. QED BY <3>1, ResultType
  <2>3. /\ task' \in {task, task \cup {Current(p)}}
        /\ Calm \/ Fault
        /\ UNCHANGED <<link, get, left, indexed>>
    BY <1>7 DEF AttachInline
  <2>. QED BY <2>1, <2>2, <2>3 DEF TypeOK, Calm, Fault
<1>8. ASSUME NEW p \in Posts, OpenSession(p) PROVE TypeOK'
  <2>1. post' \in [Posts -> PostState]
    <3>1. CASE \E unread \in SUBSET Candidates(p) : ResultAtOnce(p, "failed", FALSE, unread)
      BY <3>1, ResultType DEF Results
    <3>2. CASE \E unread \in SUBSET Candidates(p) : Opens(p, unread)
      BY <3>2, OpenType
    <3>. QED BY <1>8, <3>1, <3>2 DEF OpenSession, Opens
  <2>2. /\ left' \in {left, left \cup {p}}
        /\ Calm \/ Fault
        /\ UNCHANGED <<link, get, task, indexed>>
    BY <1>8 DEF OpenSession
  <2>. QED BY <2>1, <2>2 DEF TypeOK, Calm, Fault
<1>9. ASSUME NEW p \in Posts, Put(p) PROVE TypeOK'
  <2>1. PICK got \in Accepted(p) : \E next \in {got, RangeEnd(p)} :
          post' = [post EXCEPT ![p].session =
                     [start |-> next, guard |-> @.guard + 1, got |-> got,
                      wasted |-> @.wasted + IF got = RangeEnd(p) THEN 0 ELSE 1]]
    BY <1>9 DEF Put
  <2>2. PICK next \in {got, RangeEnd(p)} :
          post' = [post EXCEPT ![p].session =
                     [start |-> next, guard |-> @.guard + 1, got |-> got,
                      wasted |-> @.wasted + IF got = RangeEnd(p) THEN 0 ELSE 1]]
    BY <2>1
  <2>3. Len(post[p].out) < Len(post[p].files)
    BY <1>9 DEF Put, Sending, InBatch
  <2>4. got \in Nat /\ next \in Nat
    BY <1>9, <2>2, <2>3, RangeEndType DEF Put
  <2>5. post[p] \in PostState
    BY DEF TypeOK
  <2>6. [start |-> next, guard |-> post[p].session.guard + 1, got |-> got,
         wasted |-> post[p].session.wasted + IF got = RangeEnd(p) THEN 0 ELSE 1]
          \in SessionState
    BY <2>4, <2>5 DEF PostState, SessionState
  <2>7. post' \in [Posts -> PostState]
    BY <2>2, <2>6, <2>5 DEF TypeOK, PostState
  <2>. QED BY <1>9, <2>7 DEF TypeOK, Put
<1>10. ASSUME NEW p \in Posts, PutLast(p) \/ PutLost(p) PROVE TypeOK'
  <2>1. Current(p) \in File
    BY <1>10, CurrentFile DEF PutLast, PutLost, Sending, InBatch
  <2>2. post' \in [Posts -> PostState]
    <3>1. PICK r \in Results, landed \in BOOLEAN : Result(p, r, landed)
      BY <1>10 DEF PutLast, PutLost, Results
    <3>. QED BY <3>1, ResultType
  <2>3. /\ task' \in {task, task \cup {Current(p)}} /\ left' \in {left, left \cup {p}}
        /\ faults' = faults \/ Fault
        /\ UNCHANGED <<link, get, indexed>>
    BY <1>10 DEF PutLast, PutLost
  <2>. QED BY <2>1, <2>2, <2>3 DEF TypeOK, Fault
<1>11. ASSUME NEW p \in Posts, PutRefused(p) \/ Stall(p) \/ Incomplete(p) PROVE TypeOK'
  <2>1. post' \in [Posts -> PostState]
    <3>1. PICK r \in Results : Result(p, r, FALSE)
      BY <1>11 DEF PutRefused, Stall, Incomplete, Results
    <3>. QED BY <3>1, ResultType
  <2>2. /\ left' \in {left, left \cup {p}}
        /\ faults' = faults \/ Fault
        /\ UNCHANGED <<link, get, task, indexed>>
    BY <1>11 DEF PutRefused, Stall, Incomplete, Cancel, Calm
  <2>. QED BY <2>1, <2>2 DEF TypeOK, Fault
<1>12. ASSUME NEW p \in Posts, Finish(p) PROVE TypeOK'
  <2>1. post' \in [Posts -> PostState]
    BY <1>12, Pcs, GotoType DEF Finish
  <2>2. indexed' \in BOOLEAN
    BY <1>12 DEF Finish, TypeOK
  <2>3. faults' \in 0..MaxFaults
    BY <1>12 DEF Finish, TypeOK, Calm, Fault
  <2>. QED BY <1>12, <2>1, <2>2, <2>3 DEF TypeOK, Finish
<1>13. ASSUME NEW p \in Posts, Die(p) PROVE TypeOK'
  <2>1. post' \in [Posts -> PostState]
    BY <1>13, Pcs, GotoType DEF Die
  <2>2. left' \in SUBSET Posts
    BY <1>13 DEF Die, TypeOK
  <2>3. faults' \in 0..MaxFaults
    BY <1>13 DEF Die, TypeOK, Fault
  <2>. QED BY <1>13, <2>1, <2>2, <2>3 DEF TypeOK, Die
<1>14. ASSUME NEW g \in Gets, CheckGet(g) \/ GetStep(g) \/ DieGet(g) PROVE TypeOK'
  <2>1. get' \in [Gets -> GetState]
    <3>1. CASE CheckGet(g)
      <4>1. PICK pc \in Pc, late \in BOOLEAN :
              get' = [get EXCEPT ![g].pc = pc, ![g].late = late]
        BY <3>1, Pcs DEF CheckGet
      <4>2. [get[g] EXCEPT !.pc = pc, !.late = late] \in GetState
        BY DEF TypeOK, GetState
      <4>3. get' = [get EXCEPT ![g] = [get[g] EXCEPT !.pc = pc, !.late = late]]
        BY <4>1
      <4>. QED BY <4>2, <4>3 DEF TypeOK
    <3>2. CASE \E pc \in Pc \cup {"served"} : GotoGet(g, pc)
      BY <3>2 DEF TypeOK, GotoGet, GetState
    <3>. QED BY <1>14, <3>1, <3>2, Pcs DEF GetStep, RefuseGet, BurnGet, Serve, DieGet
  <2>2. link' \in [Link -> {"none", "live", "spent"}]
    BY <1>14 DEF TypeOK, CheckGet, GetStep, RefuseGet, BurnGet, Serve, DieGet
  <2>3. faults' \in 0..MaxFaults
    BY <1>14 DEF TypeOK, CheckGet, GetStep, RefuseGet, BurnGet, Serve, DieGet, Fault
  <2>. QED
    BY <1>14, <2>1, <2>2, <2>3
    DEF TypeOK, CheckGet, GetStep, RefuseGet, BurnGet, Serve, DieGet
<1>15. CASE UNCHANGED vars
  BY <1>15 DEF TypeOK, vars
<1>. QED
  BY <1>1, <1>2, <1>3, <1>4, <1>5, <1>6, <1>7, <1>8, <1>9, <1>10, <1>11, <1>12,
     <1>13, <1>14, <1>15, Minting DEF Next, PostStep, SessionStep

-----------------------------------------------------------------------------
\* What a request that only moves on leaves alone.
LEMMA GotoFrame ==
    ASSUME TypeOK, NEW p \in Posts, NEW pc, Goto(p, pc)
    PROVE  /\ \A q \in Posts \ {p} : post'[q] = post[q]
           /\ post'[p].pc = pc /\ post'[p].late = post[p].late
           /\ post'[p].files = post[p].files /\ post'[p].out = post[p].out
           /\ post'[p].session = post[p].session /\ post'[p].via = post[p].via
<1>1. post[p] \in PostState
  BY DEF TypeOK
<1>2. post' = [post EXCEPT ![p] = [post[p] EXCEPT !.pc = pc]]
  BY DEF Goto
<1>. QED
  BY <1>1, <1>2 DEF TypeOK, PostState

\* The same for the result of a file.
LEMMA ResultFrame ==
    ASSUME TypeOK, NEW p \in Posts, NEW r, NEW landed, Result(p, r, landed)
    PROVE  /\ \A q \in Posts \ {p} : post'[q] = post[q]
           /\ post'[p].pc = "next" /\ post'[p].late = post[p].late
           /\ post'[p].session = NoSession /\ post'[p].via = post[p].via
BY DEF TypeOK, PostState, Result

\* The same for the result of a file without a session, and for a new session.
LEMMA AtOnceFrame ==
    ASSUME TypeOK, NEW p \in Posts, NEW r, NEW landed, NEW unread,
           ResultAtOnce(p, r, landed, unread)
    PROVE  /\ \A q \in Posts \ {p} : post'[q] = post[q]
           /\ post'[p].pc = "next" /\ post'[p].late = post[p].late
           /\ post'[p].session = post[p].session /\ post'[p].via = post[p].via
BY DEF TypeOK, PostState, ResultAtOnce

LEMMA OpenFrame ==
    ASSUME TypeOK, NEW p \in Posts, NEW unread, Opens(p, unread)
    PROVE  /\ \A q \in Posts \ {p} : post'[q] = post[q]
           /\ post'[p].pc = "session" /\ post'[p].late = post[p].late
           /\ post'[p].session = post[p].session /\ post'[p].via = post[p].via
           /\ post'[p].files = post[p].files /\ post'[p].out = post[p].out
BY DEF TypeOK, PostState, Opens

\* The same for a GET.
LEMMA GotoGetFrame ==
    ASSUME TypeOK, NEW g \in Gets, NEW pc, GotoGet(g, pc)
    PROVE  /\ \A h \in Gets \ {g} : get'[h] = get[h]
           /\ get'[g].pc = pc /\ get'[g].late = get[g].late
BY DEF TypeOK, GetState, GotoGet

-----------------------------------------------------------------------------
\* A session belongs to a file.
LEMMA InBatchStep == ASSUME TypeOK, InBatch, [Next]_vars PROVE InBatch'
<1>0. \A p \in Posts : /\ post[p] \in PostState
                       /\ Len(post[p].out) \in Nat /\ Len(post[p].files) \in Nat
  BY DEF TypeOK, PostState
<1>1. ASSUME NEW k \in Link, Mint(k) \/ Expire(k) PROVE InBatch'
  BY <1>1 DEF InBatch, Mint, Expire
<1>2. ASSUME NEW p \in Posts, NEW via \in LinkOf[p], NEW files \in Batches[p],
             NEW inQuery \in BOOLEAN, Arrive(p, via, files, inQuery)
      PROVE  InBatch'
  BY <1>0, <1>2 DEF InBatch, Arrive, TypeOK, PostState
<1>3. ASSUME NEW p \in Posts, \/ Check(p) \/ Refuse(p) \/ NoToken(p) \/ Burn(p)
                              \/ Finish(p) \/ Die(p)
      PROVE  InBatch'
  <2>1. PICK pc \in {"checked", "done", "burned", "dead"} :
          Goto(p, pc) /\ (pc # "dead" => post[p].pc \notin {"session", "dead"})
    BY <1>3 DEF Check, Refuse, NoToken, Burn, Finish, Die
  <2>2. /\ \A q \in Posts \ {p} : post'[q] = post[q]
        /\ post'[p].pc = pc /\ post'[p].session = post[p].session
    BY <2>1, GotoFrame
  <2>. QED BY <2>1, <2>2 DEF InBatch
<1>10. ASSUME NEW p \in Posts, List(p) PROVE InBatch'
  <2>1. /\ \A q \in Posts \ {p} : post'[q] = post[q]
        /\ post'[p].pc = "next" /\ post'[p].session = post[p].session
    BY <1>0, <1>10 DEF List, TypeOK, PostState
  <2>. QED BY <1>10, <2>1 DEF InBatch, List
<1>4. ASSUME NEW p \in Posts, Duplicate(p) PROVE InBatch'
  BY <1>0, <1>4 DEF InBatch, Duplicate, More, TypeOK, PostState
<1>5. ASSUME NEW p \in Posts, NEW r \in Results, NEW landed, Result(p, r, landed)
      PROVE  InBatch'
  BY <1>5, ResultFrame DEF InBatch
<1>6. ASSUME NEW p \in Posts, AttachInline(p) \/ OpenSession(p) PROVE InBatch'
  <2>1. /\ post[p].pc = "next" /\ Len(post[p].out) < Len(post[p].files)
        /\ \/ \E r, landed, unread : ResultAtOnce(p, r, landed, unread)
           \/ \E unread : Opens(p, unread)
    BY <1>6 DEF AttachInline, OpenSession, Opens, More
  <2>2. CASE \E r, landed, unread : ResultAtOnce(p, r, landed, unread)
    BY <2>1, <2>2, AtOnceFrame DEF InBatch
  <2>3. CASE \E unread : Opens(p, unread)
    BY <2>1, <2>3, OpenFrame DEF InBatch
  <2>. QED BY <2>1, <2>2, <2>3
<1>7. ASSUME NEW p \in Posts, Put(p) PROVE InBatch'
  BY <1>0, <1>7 DEF InBatch, Put, Sending, TypeOK, PostState
<1>8. ASSUME NEW g \in Gets, CheckGet(g) \/ GetStep(g) \/ DieGet(g) PROVE InBatch'
  BY <1>8 DEF InBatch, CheckGet, GetStep, RefuseGet, BurnGet, Serve, DieGet
<1>9. CASE UNCHANGED vars
  BY <1>9 DEF InBatch, vars
<1>. QED
  BY <1>1, <1>2, <1>3, <1>4, <1>5, <1>6, <1>7, <1>8, <1>9,
     <1>10, Minting
  DEF Next, PostStep, SessionStep, PutLast, PutLost, PutRefused, Stall, Incomplete, Results

-----------------------------------------------------------------------------
\* A request that has the link may go on: the link stays spent.
LEMMA UseStep ==
    ASSUME TypeOK, Links, NEW p \in Posts,
           post[p].pc \in {"burned", "next", "session"},
           link' = link, get' = get,
           \A q \in Posts \ {p} : post'[q] = post[q],
           post'[p].late = post[p].late, post'[p].via = post[p].via
    PROVE  Links'
BY DEF Links, BurnedBeforeUse, LateGetsNothing, LateIsSpent

\* A link changes alone.
LEMMA LinkFrame ==
    ASSUME TypeOK, NEW k \in Link, NEW v, link' = [link EXCEPT ![k] = v]
    PROVE  link'[k] = v /\ \A l \in Link \ {k} : link'[l] = link[l]
BY DEF TypeOK

\* What is burned is burned before it is used, and late requests get nothing.
LEMMA LinksStep == ASSUME TypeOK, Links, [Next]_vars PROVE Links'
<1> USE DEF Links, BurnedBeforeUse, LateGetsNothing, LateIsSpent
<1>0. \A p \in Posts : post[p] \in PostState
  BY DEF TypeOK
<1>1. ASSUME NEW k \in Link, Mint(k) \/ Expire(k) PROVE Links'
  <2>1. /\ UNCHANGED <<post, get>> /\ link[k] # "spent"
        /\ \A l \in Link \ {k} : link'[l] = link[l]
    BY <1>1, LinkFrame DEF Mint, Expire
  <2>2. Download \in Link /\ \A p \in Posts : post[p].via \in Link
    BY <1>0 DEF Link, PostState
  <2>3. \A l \in Link : link[l] = "spent" => link'[l] = "spent"
    BY <2>1
  <2>. QED BY <2>1, <2>2, <2>3
<1>2. ASSUME NEW p \in Posts, NEW via \in LinkOf[p], NEW files \in Batches[p],
             NEW inQuery \in BOOLEAN, Arrive(p, via, files, inQuery)
      PROVE  Links'
  BY <1>0, <1>2 DEF Arrive, TypeOK, PostState
<1>3. ASSUME NEW p \in Posts, Check(p) \/ Refuse(p) \/ Die(p) PROVE Links'
  <2>1. \/ Goto(p, "checked") /\ link[post[p].via] = "live"
        \/ \E pc \in {"done", "dead"} : Goto(p, pc)
    BY <1>3 DEF Check, Refuse, Die
  <2>2. link' = link /\ get' = get
    BY <1>3 DEF Check, Refuse, Die
  <2>. QED BY <2>1, <2>2, GotoFrame
<1>4. ASSUME NEW p \in Posts, Burn(p) PROVE Links'
  <2>1. Download \in Link /\ \A q \in Posts : post[q].via \in Link
    BY <1>0 DEF Link, PostState
  <2>2. /\ \A q \in Posts \ {p} : post'[q] = post[q]
        /\ post'[p].pc = "burned" /\ post'[p].late = post[p].late
        /\ post'[p].via = post[p].via /\ post'[p].out = post[p].out
        /\ post[p].pc = "checked" /\ get' = get
    BY <1>4, GotoFrame DEF Burn
  <2>3. link'[post[p].via] = "spent" /\ \A l \in Link : link[l] = "spent" => link'[l] = "spent"
    <3> DEFINE k == post[p].via
    <3>1. k \in Link /\ link' = [link EXCEPT ![k] = "spent"]
      BY <1>4, <2>1 DEF Burn
    <3> HIDE DEF k
    <3>2. link'[k] = "spent" /\ \A l \in Link \ {k} : link'[l] = link[l]
      BY <3>1, LinkFrame
    <3>. QED BY <3>2 DEF k
  <2>. QED BY <2>1, <2>2, <2>3
<1>5. ASSUME NEW p \in Posts, \/ NoToken(p) \/ List(p) \/ Duplicate(p) \/ AttachInline(p)
                              \/ OpenSession(p) \/ SessionStep(p) \/ Finish(p)
      PROVE  Links'
  <2>1. post[p].pc \in {"burned", "next", "session"}
    BY <1>5 DEF NoToken, List, Duplicate, AttachInline, OpenSession, Passed, More, SessionStep,
                Put, PutLast, PutRefused, PutLost, Sending, Stall, Incomplete, Finish
  <2>2. link' = link /\ get' = get
    BY <1>5 DEF NoToken, List, Duplicate, AttachInline, OpenSession, SessionStep,
                Put, PutLast, PutRefused, PutLost, Stall, Incomplete, Finish
  <2>3. /\ \A q \in Posts \ {p} : post'[q] = post[q]
        /\ post'[p].late = post[p].late /\ post'[p].via = post[p].via
    <3>1. CASE \E pc \in Pc : Goto(p, pc)
      BY <3>1, GotoFrame
    <3>2. CASE \E r, landed : Result(p, r, landed)
      BY <3>2, ResultFrame
    <3>7. CASE \E r, landed, unread : ResultAtOnce(p, r, landed, unread)
      BY <3>7, AtOnceFrame
    <3>3. CASE List(p)
      BY <1>0, <3>3 DEF List, TypeOK, PostState
    <3>4. CASE Duplicate(p)
      BY <1>0, <3>4 DEF Duplicate, TypeOK, PostState
    <3>5. CASE \E unread : Opens(p, unread)
      BY <3>5, OpenFrame
    <3>6. CASE Put(p)
      BY <1>0, <3>6 DEF Put, TypeOK, PostState
    <3>. QED
      BY <1>5, <3>1, <3>2, <3>3, <3>4, <3>5, <3>6, <3>7
      DEF NoToken, AttachInline, OpenSession, Opens, SessionStep, PutLast, PutRefused, PutLost,
          Stall, Incomplete, Finish, Pc
  <2>. QED BY <2>1, <2>2, <2>3, UseStep
<1>6. ASSUME NEW g \in Gets, CheckGet(g) PROVE Links'
  BY <1>6 DEF CheckGet, TypeOK, GetState
<1>7. ASSUME NEW g \in Gets, GetStep(g) \/ DieGet(g) PROVE Links'
  <2>1. CASE RefuseGet(g)
    BY <2>1, GotoGetFrame DEF RefuseGet
  <2>2. CASE BurnGet(g)
    <3>1. Download \in Link /\ \A q \in Posts : post[q].via \in Link
      BY <1>0 DEF Link, PostState
    <3>2. /\ link'[Download] = "spent" /\ post' = post
          /\ \A l \in Link : link[l] = "spent" => link'[l] = "spent"
      <4>1. link' = [link EXCEPT ![Download] = "spent"] /\ post' = post
        BY <2>2 DEF BurnGet
      <4>2. link'[Download] = "spent" /\ \A l \in Link \ {Download} : link'[l] = link[l]
        BY <3>1, <4>1, LinkFrame
      <4>. QED BY <4>1, <4>2
    <3>3. /\ \A h \in Gets \ {g} : get'[h] = get[h]
          /\ get'[g].pc = "burned" /\ get'[g].late = get[g].late /\ get[g].pc = "checked"
      BY <2>2, GotoGetFrame DEF BurnGet
    <3>. QED BY <3>1, <3>2, <3>3
  <2>3. CASE Serve(g)
    BY <2>3, GotoGetFrame DEF Serve
  <2>4. CASE DieGet(g)
    BY <2>4, GotoGetFrame DEF DieGet
  <2>. QED BY <1>7, <2>1, <2>2, <2>3, <2>4 DEF GetStep
<1>8. CASE UNCHANGED vars
  BY <1>8 DEF vars
<1>. QED
  BY <1>1, <1>2, <1>3, <1>4, <1>5, <1>6, <1>7, <1>8, Minting DEF Next, PostStep

-----------------------------------------------------------------------------
\* Where no session goes on, none has to be counted.
LEMMA ElsewhereStep ==
    ASSUME TypeOK, Progress, NEW p \in Posts, post'[p].pc # "session",
           \A q \in Posts \ {p} : post'[q] = post[q]
    PROVE  Progress'
BY DEF Progress, Counted, Total, Current

(* One more request of a whole chunk: the product grows by the chunk. *)
LEMMA OneMoreChunk ==
  ASSUME NEW c \in Nat, NEW g \in Nat, NEW w \in Nat
  PROVE  c * (g + 1 - w) = c * (g - w) + c
<1>1. g + 1 - w = (g - w) + 1 /\ g - w \in Int OBVIOUS
<1>2. \A d \in Int : c * (d + 1) = c * d + c OBVIOUS
<1>. QED BY <1>1, <1>2

\* A round takes a range, or is wasted.
LEMMA PutStep == ASSUME TypeOK, InBatch, Progress, NEW p \in Posts, Put(p) PROVE Progress'
<1> DEFINE s == post[p].session
<1>1. PICK got \in Accepted(p) :
        got < Total(p) /\ \E next \in {got, RangeEnd(p)} :
          post' = [post EXCEPT ![p].session =
                     [start |-> next, guard |-> @.guard + 1, got |-> got,
                      wasted |-> @.wasted + IF got = RangeEnd(p) THEN 0 ELSE 1]]
  BY DEF Put
<1>2. PICK next \in {got, RangeEnd(p)} :
        post' = [post EXCEPT ![p].session =
                   [start |-> next, guard |-> @.guard + 1, got |-> got,
                    wasted |-> @.wasted + IF got = RangeEnd(p) THEN 0 ELSE 1]]
  BY <1>1
<1>3. /\ post[p].pc = "session" /\ Len(post[p].out) < Len(post[p].files)
      /\ Sending(p)
  BY DEF Put, Sending, InBatch
<1>4. /\ s.start \in Nat /\ s.got \in Nat /\ s.guard \in Nat /\ s.wasted \in Nat
      /\ Total(p) \in Nat /\ Chunk \in Nat \ {0}
  BY <1>3, CurrentFile, UploadAssumption DEF TypeOK, PostState, SessionState
<1>5. /\ s.got <= s.start /\ s.wasted <= s.guard
      /\ Chunk * (s.guard - s.wasted) <= s.got
  BY <1>3 DEF Progress, Counted
<1>6. /\ RangeEnd(p) \in Nat /\ s.start < RangeEnd(p)
      /\ RangeEnd(p) < Total(p) => RangeEnd(p) = s.start + Chunk
  BY <1>3, RangeEndType
<1>7. got \in Nat /\ got <= RangeEnd(p) /\ (s.start # s.got => got = s.got)
  BY <1>3, <1>4, <1>5, <1>6, RangeEndType DEF Accepted
<1>8. /\ got <= next
      /\ Chunk * (s.guard + 1 - (s.wasted + IF got = RangeEnd(p) THEN 0 ELSE 1)) <= got
  <2>1. CASE got = RangeEnd(p)
    <3>1. s.start = s.got /\ got = s.got + Chunk
      BY <1>1, <1>4, <1>5, <1>6, <1>7, <2>1
    <3>2. Chunk * (s.guard + 1 - s.wasted) = Chunk * (s.guard - s.wasted) + Chunk
      BY <1>4, OneMoreChunk
    <3>. QED BY <1>4, <1>5, <1>7, <2>1, <3>1, <3>2
  <2>2. CASE got # RangeEnd(p)
    <3>1. s.got <= got
      BY <1>3, <1>4, <1>5, <1>7 DEF Accepted
    <3>2. s.guard + 1 - (s.wasted + 1) = s.guard - s.wasted
      BY <1>4
    <3>3. Chunk * (s.guard - s.wasted) \in Int
      BY <1>4
    <3>. QED BY <1>4, <1>5, <1>6, <1>7, <2>2, <3>1, <3>2, <3>3
  <2>. QED BY <2>1, <2>2
<1>9. /\ \A q \in Posts \ {p} : post'[q] = post[q]
      /\ post'[p].pc = post[p].pc
      /\ post'[p].files = post[p].files /\ post'[p].out = post[p].out
      /\ post'[p].session =
           [start |-> next, guard |-> s.guard + 1, got |-> got,
            wasted |-> s.wasted + IF got = RangeEnd(p) THEN 0 ELSE 1]
  BY <1>2 DEF TypeOK, PostState
<1>10. Total(p)' = Total(p)
  BY <1>9 DEF Total, Current
<1>11. s.wasted + (IF got = RangeEnd(p) THEN 0 ELSE 1) <= s.guard + 1
  BY <1>4, <1>5
<1>12. Counted(p)'
  <2> DEFINE t == post'[p].session
             w == s.wasted + IF got = RangeEnd(p) THEN 0 ELSE 1
  <2>1. t.start = next /\ t.guard = s.guard + 1 /\ t.got = got /\ t.wasted = w
    BY <1>9
  <2>2. w <= s.guard + 1 /\ Chunk * (s.guard + 1 - w) <= got /\ got <= next
    BY <1>8, <1>11
  <2>3. w \in Nat
    BY <1>4
  <2> HIDE DEF w
  <2>4. t.guard - t.wasted = s.guard + 1 - w
    BY <1>4, <2>1, <2>3
  <2>5. Chunk * (t.guard - t.wasted) <= t.got
    BY <2>1, <2>2, <2>4
  <2>6. t.got <= t.start /\ t.got < Total(p)' /\ t.wasted <= t.guard
    BY <1>1, <1>10, <2>1, <2>2
  <2>. QED BY <2>5, <2>6 DEF Counted
<1>13. ASSUME NEW q \in Posts \ {p}, post'[q].pc = "session" PROVE Counted(q)'
  <2>1. post'[q] = post[q] /\ Counted(q)
    BY <1>9, <1>13 DEF Progress
  <2>. QED BY <2>1 DEF Counted, Total, Current
<1>. QED
  BY <1>12, <1>13 DEF Progress

\* The rounds of a session are counted right by every step.
LEMMA ProgressStep ==
    ASSUME TypeOK, InBatch, Progress, [Next]_vars PROVE Progress'
<1>1. ASSUME post' = post PROVE Progress'
  BY <1>1 DEF Progress, Counted, Total, Current
<1>2. ASSUME NEW p \in Posts, NEW via \in LinkOf[p], NEW files \in Batches[p],
             NEW inQuery \in BOOLEAN, Arrive(p, via, files, inQuery)
      PROVE  Progress'
  <2>1. post'[p].pc # "session" /\ \A q \in Posts \ {p} : post'[q] = post[q]
    BY <1>2 DEF Arrive, TypeOK, PostState
  <2>. QED BY <2>1, ElsewhereStep
<1>3. ASSUME NEW p \in Posts, NEW pc, pc # "session", Goto(p, pc) PROVE Progress'
  BY <1>3, GotoFrame, ElsewhereStep
<1>4. ASSUME NEW p \in Posts, \/ \E r, landed : Result(p, r, landed)
                              \/ \E r, landed, unread : ResultAtOnce(p, r, landed, unread)
      PROVE  Progress'
  BY <1>4, ResultFrame, AtOnceFrame, ElsewhereStep
<1>5. ASSUME NEW p \in Posts, List(p) PROVE Progress'
  <2>1. post'[p].pc # "session" /\ \A q \in Posts \ {p} : post'[q] = post[q]
    BY <1>5 DEF List, TypeOK, PostState
  <2>. QED BY <2>1, ElsewhereStep
<1>6. ASSUME NEW p \in Posts, Duplicate(p) PROVE Progress'
  <2>1. post'[p].pc # "session" /\ \A q \in Posts \ {p} : post'[q] = post[q]
    BY <1>6 DEF Duplicate, More, TypeOK, PostState
  <2>. QED BY <2>1, ElsewhereStep
<1>7. ASSUME NEW p \in Posts, More(p), NEW unread, Opens(p, unread) PROVE Progress'
  <2>1. post[p].pc = "next" /\ Len(post[p].out) < Len(post[p].files)
    BY <1>7 DEF More
  <2>2. /\ \A q \in Posts \ {p} : post'[q] = post[q]
        /\ post'[p].files = post[p].files /\ post'[p].out = post[p].out
        /\ post'[p].session = NoSession
    BY <1>7, <2>1, OpenFrame DEF InBatch
  <2>3. Total(p)' = Total(p) /\ Total(p) \in Nat \ {0}
    BY <2>1, <2>2, CurrentFile DEF Total, Current
  <2>4. \A q \in Posts \ {p} : Total(q)' = Total(q)
    BY <2>2 DEF Total, Current
  <2>5. Chunk * (0 - 0) <= 0
    BY UploadAssumption
  <2>. QED BY <2>2, <2>3, <2>4, <2>5 DEF Progress, Counted, NoSession
<1>. QED
  BY <1>1, <1>2, <1>3, <1>4, <1>5, <1>6, <1>7, PutStep, Minting
  DEF Next, PostStep, SessionStep, Mint, Expire, Check, Refuse, NoToken, Burn, Finish, Die,
      AttachInline, OpenSession, Opens, PutLast, PutLost, PutRefused, Stall, Incomplete,
      CheckGet, GetStep, RefuseGet, BurnGet, Serve, DieGet, vars

-----------------------------------------------------------------------------
\* The invariant holds in every reachable state.
THEOREM UploadInvariant == Spec => []IInv
<1>1. Init => IInv
  BY UploadAssumption
  DEF Init, IInv, TypeOK, PostState, SessionState, GetState, Pc, Link, NoSession, Links,
      BurnedBeforeUse, LateGetsNothing, LateIsSpent, InBatch, Progress
<1>2. IInv /\ [Next]_vars => IInv'
  BY TypeStep, LinksStep, InBatchStep, ProgressStep DEF IInv
<1>. QED
  BY <1>1, <1>2, PTL DEF Spec

\* The requests and Graph's sessions keep their types.
THEOREM TypesHold == Spec => []TypeOK
BY UploadInvariant, PTL DEF IInv

\* A link is burned before it is used, whatever the requests do.
THEOREM AlwaysBurnedBeforeUse == Spec => []BurnedBeforeUse
<1>1. IInv => BurnedBeforeUse
  BY DEF IInv, Links
<1>. QED
  BY <1>1, UploadInvariant, PTL

\* A request that comes to a spent link gets nothing from it.
THEOREM LateNeverGetsAnything == Spec => []LateGetsNothing
<1>1. IInv => LateGetsNothing
  BY DEF IInv, Links
<1>. QED
  BY <1>1, UploadInvariant, PTL

\* A session is given up only after four wasted rounds, for any size and chunk.
THEOREM AlwaysStallsLate == Spec => []StallsLate
<1>1. IInv => StallsLate
  <2> SUFFICES ASSUME IInv, NEW p \in Posts, post[p].pc = "session",
                      post[p].session.guard > MaxIterations(p)
               PROVE  post[p].session.wasted > 3
    BY DEF StallsLate
  <2> DEFINE s == post[p].session
             k == s.guard - s.wasted
             n == (Total(p) + Chunk - 1) \div Chunk
  <2>1. /\ s.got \in Nat /\ s.guard \in Nat /\ s.wasted \in Nat
        /\ Chunk \in Nat \ {0}
    BY UploadAssumption DEF IInv, TypeOK, PostState, SessionState
  <2>2. Total(p) \in Nat
    BY CurrentFile DEF IInv, InBatch
  <2>3. s.wasted <= s.guard /\ Chunk * k <= s.got /\ s.got < Total(p)
    BY DEF IInv, Progress, Counted
  <2>4. n \in Int /\ Chunk * n <= Total(p) + Chunk - 1 /\ Total(p) <= Chunk * n
    BY <2>1, <2>2
  <2>5. k \in Int /\ Chunk * k < Chunk * n
    BY <2>1, <2>2, <2>3, <2>4
  <2>6. k < n
    BY <2>1, <2>4, <2>5
  <2>. QED BY <2>1, <2>4, <2>6 DEF MaxIterations
<1>. QED
  BY <1>1, UploadInvariant, PTL

\* A session is left open only by a request that went unanswered or a process
\* that died: every other way out of it cancels it, for any number of requests.
THEOREM NoSessionLeaks == Spec => []SessionsReleased
<1>1. Init => SessionsReleased
  BY DEF Init, SessionsReleased
<1>2. TypeOK /\ SessionsReleased /\ [Next]_vars => SessionsReleased'
  <2> SUFFICES ASSUME TypeOK, SessionsReleased, [Next]_vars PROVE SessionsReleased'
    OBVIOUS
  <2>0. faults \in Nat
    BY UploadAssumption DEF TypeOK
  <2>1. ASSUME \/ left' = left /\ (Calm \/ Fault)
               \/ Fault
        PROVE  SessionsReleased'
    BY <2>0, <2>1 DEF SessionsReleased, Calm, Fault
  <2>2. \/ left' = left /\ (Calm \/ Fault)
        \/ Fault
    <3>1. ASSUME NEW p \in Posts, PostStep(p) \/ Die(p)
          PROVE  (left' = left /\ (Calm \/ Fault)) \/ Fault
      <4>1. CASE Check(p) \/ Refuse(p) \/ Burn(p) \/ List(p) \/ NoToken(p) \/ Duplicate(p)
        BY <4>1 DEF Check, Refuse, Burn, List, NoToken, Duplicate, Calm
      <4>2. CASE AttachInline(p) \/ OpenSession(p) \/ Finish(p)
        BY <4>2 DEF AttachInline, OpenSession, Finish
      <4>3. CASE SessionStep(p) \/ Die(p)
        BY <4>3 DEF SessionStep, Put, PutLast, PutLost, PutRefused, Stall, Incomplete, Cancel,
                    Calm, Die
      <4> QED BY <3>1, <4>1, <4>2, <4>3 DEF PostStep
    <3>2. ASSUME NEW g \in Gets, CheckGet(g) \/ GetStep(g) \/ DieGet(g)
          PROVE  left' = left /\ (Calm \/ Fault)
      BY <3>2 DEF CheckGet, GetStep, RefuseGet, BurnGet, Serve, DieGet, Calm
    <3>3. ASSUME NEW k \in Link, Mint(k) \/ Expire(k) PROVE left' = left /\ Calm
      BY <3>3 DEF Mint, Expire, Calm
    <3>4. ASSUME NEW p \in Posts, NEW via, NEW files, NEW inQuery,
                 Arrive(p, via, files, inQuery)
          PROVE  left' = left /\ Calm
      BY <3>4 DEF Arrive, Calm
    <3>5. CASE UNCHANGED vars
      BY <3>5 DEF vars, Calm
    <3> QED BY <3>1, <3>2, <3>3, <3>4, <3>5, Minting DEF Next
  <2> QED BY <2>1, <2>2
<1>. QED
  BY <1>1, <1>2, TypesHold, PTL DEF Spec

-----------------------------------------------------------------------------
(* What a POST reports.                                                     *)

\* Nothing is reported before the batch begins.
NotBegun == \A p \in Posts :
    post[p].pc \in {"idle", "form", "checked", "burned"} => post[p].out = <<>>

\* What the request knows of, compares with, and reports, is on the task; what it
\* brought to Graph has its result.
Told(p) ==
    /\ post[p].existing \subseteq task /\ post[p].had \subseteq task
    /\ post[p].landed \subseteq DOMAIN post[p].out
    /\ \A i \in DOMAIN post[p].out :
         LET f == post[p].files[i] IN
         /\ post[p].out[i] = "attached" => f \in task
         /\ post[p].out[i] = "duplicate" =>
              \E e \in task : \/ ContentOf[e] = ContentOf[f]
                              \/ Large(f) /\ NameOf[e] = NameOf[f]

\* Once the batch begins, the attachments there were are among those listed.
Seen(p) ==
    post[p].pc \in {"next", "session"} /\ ~post[p].blind => post[p].had \subseteq post[p].existing

\* The n-th file, small, was compared with each attachment there was of its content,
\* unless that one was out of the band or could not be read.
Compared(p, n, f, missed) ==
    ~Large(f) /\ ~post[p].blind =>
        \A e \in post[p].had : ContentOf[e] = ContentOf[f] =>
            <<e, f>> \notin InBand \/ <<n, e>> \in missed

\* What it brought to Graph, it had not reported before, and had compared.
Needful(p) ==
    \A i \in post[p].landed :
        /\ \A j \in DOMAIN post[p].out :
             j < i /\ ContentOf[post[p].files[j]] = ContentOf[post[p].files[i]]
             => post[p].out[j] # "attached"
        /\ Compared(p, i, post[p].files[i], post[p].unread)

\* The same of the file of a session.
Due(p) == /\ ContentOf[Current(p)] \notin Sent(p)
          /\ Compared(p, Len(post[p].out) + 1, Current(p), post[p].unread)

Unsent == \A p \in Posts : post[p].pc = "session" => Due(p)

Reports == /\ NotBegun /\ Unsent
           /\ \A p \in Posts : Told(p) /\ Needful(p) /\ Seen(p)
           /\ indexed => task # {}

\* Nobody takes attachments away.
LEMMA TaskGrows == ASSUME [Next]_vars PROVE task \subseteq task'
<1>1. ASSUME NEW p \in Posts, PostStep(p) \/ Die(p) PROVE task \subseteq task'
  <2>1. CASE Check(p) \/ Refuse(p) \/ Burn(p) \/ List(p) \/ NoToken(p) \/ Duplicate(p)
    BY <2>1 DEF Check, Refuse, Burn, List, NoToken, Duplicate
  <2>2. CASE AttachInline(p) \/ OpenSession(p) \/ Finish(p)
    BY <2>2 DEF AttachInline, OpenSession, Finish
  <2>3. CASE SessionStep(p) \/ Die(p)
    BY <2>3 DEF SessionStep, Put, PutLast, PutLost, PutRefused, Stall, Incomplete, Die
  <2> QED BY <1>1, <2>1, <2>2, <2>3 DEF PostStep
<1>2. ASSUME NEW g \in Gets, CheckGet(g) \/ GetStep(g) \/ DieGet(g) PROVE task' = task
  BY <1>2 DEF CheckGet, GetStep, RefuseGet, BurnGet, Serve, DieGet
<1>3. ASSUME NEW k \in Link, Mint(k) \/ Expire(k) PROVE task' = task
  BY <1>3 DEF Mint, Expire
<1>4. ASSUME NEW p \in Posts, NEW via, NEW files, NEW inQuery, Arrive(p, via, files, inQuery)
      PROVE  task' = task
  BY <1>4 DEF Arrive
<1>5. CASE UNCHANGED vars
  BY <1>5 DEF vars
<1> QED BY <1>1, <1>2, <1>3, <1>4, <1>5, Minting DEF Next

\* What was compared stays so: more may turn out to be unreadable.
LEMMA StaysCompared ==
    ASSUME NEW p, NEW n, NEW f, NEW missed, NEW more, missed \subseteq more,
           Compared(p, n, f, missed)
    PROVE  Compared(p, n, f, more)
BY DEF Compared

\* A step that reports nothing new.
LEMMA NothingReported ==
    ASSUME Reports, task \subseteq task', NEW p \in Posts,
           \A q \in Posts \ {p} : post'[q] = post[q],
           post'[p].out = post[p].out, post'[p].landed = post[p].landed,
           post[p].out = <<>> \/ (/\ post'[p].files = post[p].files
                                 /\ post'[p].had = post[p].had
                                 /\ post'[p].blind = post[p].blind
                                 /\ post[p].unread \subseteq post'[p].unread),
           post'[p].existing \subseteq task', post'[p].had \subseteq task',
           Seen(p)'
    PROVE  \A q \in Posts : Told(q)' /\ Needful(q)' /\ Seen(q)'
<1>1. ASSUME NEW q \in Posts, q # p PROVE Told(q)' /\ Needful(q)' /\ Seen(q)'
  <2>1. post'[q] = post[q] /\ Told(q) /\ Needful(q) /\ Seen(q)
    BY <1>1 DEF Reports
  <2> QED BY <2>1 DEF Told, Needful, Compared, Seen, Large
<1>2. Told(p)' /\ Needful(p)'
  <2>1. Told(p) /\ Needful(p)
    BY DEF Reports
  <2>2. CASE post[p].out = <<>>
    <3>1. post[p].landed = {}
      BY <2>1, <2>2 DEF Told
    <3> QED BY <2>2, <3>1 DEF Told, Needful
  <2>3. CASE post[p].out # <<>>
    <3>1. /\ post'[p].files = post[p].files /\ post'[p].had = post[p].had
          /\ post'[p].blind = post[p].blind
          /\ post[p].unread \subseteq post'[p].unread
      BY <2>3
    <3>2. Told(p)'
      BY <2>1, <3>1 DEF Told, Large
    <3>3. Needful(p)'
      <4>1. \A i \in post[p].landed : Compared(p, i, post[p].files[i], post'[p].unread)
        BY <2>1, <3>1, StaysCompared DEF Needful
      <4> QED BY <2>1, <3>1, <4>1 DEF Needful, Compared, Large
    <3> QED BY <3>2, <3>3
  <2> QED BY <2>2, <2>3
<1> QED BY <1>1, <1>2

\* A file gets its result.
LEMMA OneReported ==
    ASSUME TypeOK, Reports, task \subseteq task', NEW p \in Posts, NEW r,
           \A q \in Posts \ {p} : post'[q] = post[q],
           post'[p].out = Append(post[p].out, r),
           post'[p].files = post[p].files, post'[p].existing = post[p].existing,
           post'[p].had = post[p].had, post'[p].blind = post[p].blind,
           post[p].unread \subseteq post'[p].unread,
           post'[p].landed \subseteq post[p].landed \cup {Len(post[p].out) + 1},
           post[p].pc \in {"next", "session"},
           r = "attached" => Current(p) \in task',
           Len(post[p].out) + 1 \in post'[p].landed =>
               /\ ContentOf[Current(p)] \notin Sent(p)
               /\ Compared(p, Len(post[p].out) + 1, Current(p), post'[p].unread),
           r = "duplicate" =>
               ContentOf[Current(p)] \in Sent(p) \/ Match(p, Current(p), {}) # {}
    PROVE  \A q \in Posts : Told(q)' /\ Needful(q)' /\ Seen(q)'
<1>1. ASSUME NEW q \in Posts, q # p PROVE Told(q)' /\ Needful(q)' /\ Seen(q)'
  <2>1. post'[q] = post[q] /\ Told(q) /\ Needful(q) /\ Seen(q)
    BY <1>1 DEF Reports
  <2> QED BY <2>1 DEF Told, Needful, Compared, Seen, Large
<1> DEFINE n == Len(post[p].out) + 1
           c == Current(p)
<1>2. /\ Told(p) /\ Needful(p) /\ Seen(p)
      /\ post[p].out \in Seq(Results) /\ c = post[p].files[n]
  BY DEF Reports, TypeOK, PostState, Current
<1>3. /\ DOMAIN post'[p].out = DOMAIN post[p].out \cup {n} /\ n \in Nat
      /\ n \notin DOMAIN post[p].out /\ post'[p].out[n] = r
      /\ \A i \in DOMAIN post[p].out : post'[p].out[i] = post[p].out[i] /\ i \in Nat /\ i < n
  BY <1>2
<1>4. Told(p)'
  <2>1. /\ post'[p].existing \subseteq task' /\ post'[p].had \subseteq task'
        /\ post'[p].landed \subseteq DOMAIN post'[p].out
    BY <1>2, <1>3 DEF Told
  <2>2. ASSUME NEW i \in DOMAIN post[p].out
        PROVE  /\ post'[p].out[i] = "attached" => post'[p].files[i] \in task'
               /\ post'[p].out[i] = "duplicate" =>
                    \E e \in task' : \/ ContentOf[e] = ContentOf[post'[p].files[i]]
                                     \/ /\ Large(post'[p].files[i])
                                        /\ NameOf[e] = NameOf[post'[p].files[i]]
    BY <1>2, <1>3, <2>2 DEF Told
  <2>3. r = "duplicate" =>
          \E e \in task' : ContentOf[e] = ContentOf[c] \/ (Large(c) /\ NameOf[e] = NameOf[c])
    <3>1. CASE ContentOf[c] \in Sent(p)
      <4>1. PICK i \in DOMAIN post[p].out :
              post[p].out[i] = "attached" /\ ContentOf[post[p].files[i]] = ContentOf[c]
        BY <3>1 DEF Sent
      <4>2. post[p].files[i] \in task'
        BY <1>2, <4>1 DEF Told
      <4> QED BY <4>1, <4>2
    <3>2. CASE Match(p, c, {}) # {}
      <4>1. PICK e \in post[p].existing :
              IF Large(c) THEN NameOf[e] = NameOf[c] ELSE ContentOf[e] = ContentOf[c]
        BY <3>2 DEF Match
      <4>2. e \in task'
        BY <1>2, <4>1 DEF Told
      <4> QED BY <4>1, <4>2
    <3> QED BY <3>1, <3>2
  <2> QED BY <1>2, <1>3, <2>1, <2>2, <2>3 DEF Told, Large
<1>5. Needful(p)'
  <2> SUFFICES ASSUME NEW i \in post'[p].landed
               PROVE  /\ \A j \in DOMAIN post'[p].out :
                           j < i /\ ContentOf[post[p].files[j]] = ContentOf[post[p].files[i]]
                           => post'[p].out[j] # "attached"
                      /\ Compared(p, i, post[p].files[i], post'[p].unread)
    BY DEF Needful, Compared, Large
  <2>1. CASE i = n
    <3>1. /\ Compared(p, n, c, post'[p].unread)
          /\ \A j \in DOMAIN post[p].out :
               post[p].out[j] = "attached" => ContentOf[post[p].files[j]] # ContentOf[c]
      BY <2>1 DEF Sent
    <3>2. ASSUME NEW j \in DOMAIN post'[p].out, j < n,
                 ContentOf[post[p].files[j]] = ContentOf[c]
          PROVE  post'[p].out[j] # "attached"
      BY <1>3, <3>1, <3>2
    <3> QED BY <1>2, <2>1, <3>1, <3>2
  <2>2. CASE i # n
    <3>1. i \in post[p].landed /\ i \in DOMAIN post[p].out
      BY <1>2, <2>2 DEF Told
    <3>2. Compared(p, i, post[p].files[i], post[p].unread)
      BY <1>2, <3>1 DEF Needful
    <3>3. Compared(p, i, post[p].files[i], post'[p].unread)
      BY <3>2, StaysCompared
    <3>4. ASSUME NEW j \in DOMAIN post'[p].out, j < i,
                 ContentOf[post[p].files[j]] = ContentOf[post[p].files[i]]
          PROVE  post'[p].out[j] # "attached"
      <4>1. j \in DOMAIN post[p].out
        BY <1>3, <3>1, <3>4
      <4> QED BY <1>2, <1>3, <3>1, <3>4, <4>1 DEF Needful
    <3> QED BY <3>3, <3>4
  <2> QED BY <2>1, <2>2
<1>6. Seen(p)'
  BY <1>2 DEF Seen
<1> QED BY <1>1, <1>4, <1>5, <1>6

\* What a step of the batch leaves of the request.
Keeps(p) ==
    /\ \A q \in Posts \ {p} : post'[q] = post[q]
    /\ post'[p].files = post[p].files /\ post'[p].existing = post[p].existing
    /\ post'[p].had = post[p].had /\ post'[p].blind = post[p].blind

LEMMA ResultKeeps ==
    ASSUME TypeOK, NEW p \in Posts, NEW r, NEW landed \in BOOLEAN, Result(p, r, landed)
    PROVE  /\ Keeps(p) /\ post'[p].pc = "next" /\ post'[p].out = Append(post[p].out, r)
           /\ post'[p].unread = post[p].unread
           /\ post'[p].landed \subseteq post[p].landed \cup {Len(post[p].out) + 1}
           /\ ~landed => post'[p].landed = post[p].landed
<1> DEFINE now == IF landed THEN post[p].landed \cup {Len(post[p].out) + 1} ELSE post[p].landed
<1>1. post[p] \in PostState
  BY DEF TypeOK
<1>2. post' = [post EXCEPT ![p] = [post[p] EXCEPT !.pc = "next", !.out = Append(post[p].out, r),
                                                 !.landed = now, !.session = NoSession]]
  BY DEF Result
<1>3. /\ now \subseteq post[p].landed \cup {Len(post[p].out) + 1}
      /\ ~landed => now = post[p].landed
  OBVIOUS
<1> HIDE DEF now
<1> QED BY <1>1, <1>2, <1>3 DEF Keeps, TypeOK, PostState

LEMMA AtOnceKeeps ==
    ASSUME TypeOK, NEW p \in Posts, NEW r, NEW landed \in BOOLEAN, NEW unread,
           ResultAtOnce(p, r, landed, unread)
    PROVE  /\ Keeps(p) /\ post'[p].pc = "next" /\ post'[p].out = Append(post[p].out, r)
           /\ post'[p].unread = post[p].unread \cup Missed(p, unread)
           /\ post'[p].landed \subseteq post[p].landed \cup {Len(post[p].out) + 1}
           /\ ~landed => post'[p].landed = post[p].landed
<1> DEFINE now  == IF landed THEN post[p].landed \cup {Len(post[p].out) + 1}
                             ELSE post[p].landed
           more == post[p].unread \cup Missed(p, unread)
<1>1. post[p] \in PostState
  BY DEF TypeOK
<1>2. post' = [post EXCEPT ![p] = [post[p] EXCEPT !.pc = "next", !.out = Append(post[p].out, r),
                                                 !.landed = now, !.unread = more]]
  BY DEF ResultAtOnce
<1>3. /\ now \subseteq post[p].landed \cup {Len(post[p].out) + 1}
      /\ ~landed => now = post[p].landed
  OBVIOUS
<1>4. /\ Keeps(p) /\ post'[p].pc = "next" /\ post'[p].out = Append(post[p].out, r)
      /\ post'[p].landed = now /\ post'[p].unread = more
  <2> HIDE DEF now, more
  <2> QED BY <1>1, <1>2 DEF Keeps, TypeOK, PostState
<1> QED BY <1>3, <1>4

LEMMA OpenKeeps ==
    ASSUME TypeOK, NEW p \in Posts, NEW unread, Opens(p, unread)
    PROVE  /\ Keeps(p) /\ post'[p].pc = "session" /\ post'[p].out = post[p].out
           /\ post'[p].unread = post[p].unread \cup Missed(p, unread)
           /\ post'[p].landed = post[p].landed
BY DEF Keeps, TypeOK, PostState, Opens

LEMMA GotoKeeps ==
    ASSUME TypeOK, NEW p \in Posts, NEW pc, Goto(p, pc)
    PROVE  /\ Keeps(p) /\ post'[p].pc = pc /\ post'[p].out = post[p].out
           /\ post'[p].unread = post[p].unread /\ post'[p].landed = post[p].landed
BY DEF Keeps, TypeOK, PostState, Goto

\* A file that passed was compared with all that could be read.
LEMMA PassedIsCompared ==
    ASSUME Reports, NEW p \in Posts, NEW unread, post[p].pc = "next", Passed(p, unread),
           post'[p].unread = post[p].unread \cup Missed(p, unread)
    PROVE  Compared(p, Len(post[p].out) + 1, Current(p), post'[p].unread)
<1> DEFINE n == Len(post[p].out) + 1
<1> SUFFICES ASSUME ~Large(Current(p)), ~post[p].blind, NEW e \in post[p].had,
                    ContentOf[e] = ContentOf[Current(p)], <<e, Current(p)>> \in InBand
             PROVE  <<n, e>> \in post'[p].unread
  BY DEF Compared
<1>1. e \in post[p].existing
  BY DEF Reports, Seen
<1>2. e \in Candidates(p)
  BY <1>1 DEF Candidates
<1>3. e \in unread
  BY <1>1, <1>2 DEF Passed, Match
<1> QED BY <1>3 DEF Missed

\* The parts of the invariant about the phases, where one request moves on.
LEMMA PhaseStep ==
    ASSUME NotBegun, Unsent, NEW p \in Posts,
           \A q \in Posts \ {p} : post'[q] = post[q],
           post'[p].pc \in {"idle", "form", "checked", "burned"} => post'[p].out = <<>>,
           post'[p].pc = "session" => Due(p)'
    PROVE  NotBegun' /\ Unsent'
BY DEF NotBegun, Unsent, Due, Current, Sent, Compared, Large

\* A result, with what it takes to be right.
LEMMA ResultReports ==
    ASSUME TypeOK, Reports, task \subseteq task', NEW p \in Posts, NEW r, NEW landed \in BOOLEAN,
           Keeps(p), post'[p].pc = "next", post'[p].out = Append(post[p].out, r),
           post[p].unread \subseteq post'[p].unread,
           post'[p].landed \subseteq post[p].landed \cup {Len(post[p].out) + 1},
           ~landed => post'[p].landed = post[p].landed,
           post[p].pc \in {"next", "session"},
           r # "duplicate", r = "attached" => Current(p) \in task',
           landed => /\ ContentOf[Current(p)] \notin Sent(p)
                     /\ Compared(p, Len(post[p].out) + 1, Current(p), post'[p].unread),
           indexed' = indexed
    PROVE  Reports'
<1>1. Len(post[p].out) + 1 \in post'[p].landed => landed
  <2>1. post[p].landed \subseteq DOMAIN post[p].out /\ post[p].out \in Seq(Results)
    BY DEF Reports, Told, TypeOK, PostState
  <2>2. Len(post[p].out) + 1 \notin DOMAIN post[p].out
    BY <2>1
  <2> QED BY <2>1, <2>2
<1>2. \A q \in Posts : Told(q)' /\ Needful(q)' /\ Seen(q)'
  BY <1>1, OneReported DEF Keeps
<1>3. NotBegun' /\ Unsent'
  BY PhaseStep DEF Reports, Keeps
<1> QED BY <1>2, <1>3 DEF Reports

\* A result of a session, and one of a file without.
LEMMA SessionReports ==
    ASSUME TypeOK, Reports, task \subseteq task', NEW p \in Posts, NEW r, NEW landed \in BOOLEAN,
           Result(p, r, landed), post[p].pc = "session", r # "duplicate",
           r = "attached" => Current(p) \in task', indexed' = indexed
    PROVE  Reports'
<1>1. Due(p)
  BY DEF Reports, Unsent
<1>2. /\ Keeps(p) /\ post'[p].pc = "next" /\ post'[p].out = Append(post[p].out, r)
      /\ post'[p].unread = post[p].unread
      /\ post'[p].landed \subseteq post[p].landed \cup {Len(post[p].out) + 1}
      /\ ~landed => post'[p].landed = post[p].landed
  BY ResultKeeps
<1> QED BY <1>1, <1>2, ResultReports DEF Due

LEMMA AtOnceReports ==
    ASSUME TypeOK, Reports, task \subseteq task', NEW p \in Posts, NEW r, NEW landed \in BOOLEAN,
           NEW unread, ResultAtOnce(p, r, landed, unread), Passed(p, unread),
           post[p].pc = "next", r # "duplicate",
           r = "attached" => Current(p) \in task', indexed' = indexed
    PROVE  Reports'
<1>1. /\ Keeps(p) /\ post'[p].pc = "next" /\ post'[p].out = Append(post[p].out, r)
      /\ post'[p].unread = post[p].unread \cup Missed(p, unread)
      /\ post'[p].landed \subseteq post[p].landed \cup {Len(post[p].out) + 1}
      /\ ~landed => post'[p].landed = post[p].landed
  BY AtOnceKeeps
<1>2. Compared(p, Len(post[p].out) + 1, Current(p), post'[p].unread)
  BY <1>1, PassedIsCompared
<1>3. ContentOf[Current(p)] \notin Sent(p)
  BY DEF Passed
<1> QED BY <1>1, <1>2, <1>3, ResultReports

\* A step that only moves the request on, or its session.
LEMMA MovesOn ==
    ASSUME Reports, task \subseteq task', NEW p \in Posts, Keeps(p),
           post'[p].out = post[p].out, post'[p].landed = post[p].landed,
           post[p].unread \subseteq post'[p].unread,
           post'[p].pc \in {"next", "session"} => post[p].pc \in {"next", "session"},
           post'[p].pc \in {"idle", "form", "checked", "burned"} => post'[p].out = <<>>,
           post'[p].pc = "session" =>
               \/ Due(p)
               \/ /\ ContentOf[Current(p)] \notin Sent(p)
                  /\ Compared(p, Len(post[p].out) + 1, Current(p), post'[p].unread),
           indexed' => task' # {}
    PROVE  Reports'
<1>1. post'[p].existing \subseteq task' /\ post'[p].had \subseteq task'
  BY DEF Reports, Told, Keeps
<1>2. Seen(p)'
  BY DEF Reports, Seen, Keeps
<1>3. \A q \in Posts : Told(q)' /\ Needful(q)' /\ Seen(q)'
  BY <1>1, <1>2, NothingReported DEF Keeps
<1>4. ASSUME post'[p].pc = "session" PROVE Due(p)'
  <2>1. /\ ContentOf[Current(p)] \notin Sent(p)
        /\ Compared(p, Len(post[p].out) + 1, Current(p), post'[p].unread)
    BY <1>4, StaysCompared DEF Due
  <2>2. Current(p)' = Current(p) /\ Sent(p)' = Sent(p)
    BY DEF Current, Sent, Keeps
  <2> QED BY <2>1, <2>2 DEF Due, Compared, Large, Keeps
<1>5. NotBegun' /\ Unsent'
  BY <1>4, PhaseStep DEF Reports, Keeps
<1> QED BY <1>3, <1>5 DEF Reports

LEMMA ReportsStep == ASSUME TypeOK, Reports, [Next]_vars PROVE Reports'
<1>0. task \subseteq task' /\ \A p \in Posts : post[p] \in PostState
  BY TaskGrows DEF TypeOK
<1>1. ASSUME post' = post, indexed' = indexed PROVE Reports'
  BY <1>0, <1>1 DEF Reports, NotBegun, Unsent, Due, Told, Needful, Compared, Seen, Large,
                    Current, Sent
<1>2. ASSUME NEW p \in Posts, NEW via \in LinkOf[p], NEW files \in Batches[p],
             NEW inQuery \in BOOLEAN, Arrive(p, via, files, inQuery)
      PROVE  Reports'
  <2>1. /\ \A q \in Posts \ {p} : post'[q] = post[q]
        /\ post[p].out = <<>> /\ post'[p].out = <<>> /\ post'[p].landed = post[p].landed
        /\ post'[p].existing = post[p].existing /\ post'[p].had = task
        /\ post'[p].pc \in {"form", "done"} /\ indexed' = indexed
    BY <1>2 DEF Arrive, Reports, NotBegun, TypeOK, PostState
  <2>2. post'[p].existing \subseteq task' /\ post'[p].had \subseteq task' /\ Seen(p)'
    BY <1>0, <2>1 DEF Reports, Told, Seen
  <2>3. \A q \in Posts : Told(q)' /\ Needful(q)' /\ Seen(q)'
    BY <1>0, <2>1, <2>2, NothingReported
  <2>4. NotBegun' /\ Unsent'
    BY <2>1, PhaseStep DEF Reports
  <2> QED BY <1>0, <2>1, <2>3, <2>4 DEF Reports
<1>4. ASSUME NEW p \in Posts, \/ Check(p) \/ Refuse(p) \/ NoToken(p) \/ Burn(p) \/ Finish(p)
                              \/ Die(p)
      PROVE  Reports'
  <2>1. PICK pc \in {"checked", "done", "burned", "dead"} :
          /\ Goto(p, pc)
          /\ pc \in {"checked", "burned"} => post[p].pc \in {"form", "checked"}
    BY <1>4 DEF Check, Refuse, NoToken, Burn, Finish, Die
  <2>2. pc \in {"checked", "burned"} => post[p].out = <<>>
    BY <2>1 DEF Reports, NotBegun
  <2>3. indexed' => task' # {}
    <3>1. CASE indexed' = indexed
      BY <1>0, <3>1 DEF Reports
    <3>2. CASE Finish(p)
      <4>1. (\E i \in DOMAIN post[p].out : post[p].out[i] \in {"attached", "duplicate"})
            => task # {}
        BY DEF Reports, Told
      <4>2. indexed => task # {}
        BY DEF Reports
      <4>3. \/ indexed' = (indexed \/ \E i \in DOMAIN post[p].out :
                                         post[p].out[i] \in {"attached", "duplicate"})
            \/ indexed' = indexed
        BY <3>2, Zenon DEF Finish
      <4>4. indexed' => task # {}
        BY <4>1, <4>2, <4>3, Zenon
      <4> QED BY <1>0, <4>4
    <3> QED BY <1>4, <3>1, <3>2 DEF Check, Refuse, NoToken, Burn, Die
  <2>4. /\ Keeps(p) /\ post'[p].pc = pc /\ post'[p].out = post[p].out
        /\ post'[p].unread = post[p].unread /\ post'[p].landed = post[p].landed
    BY <2>1, GotoKeeps
  <2> QED BY <1>0, <2>1, <2>2, <2>3, <2>4, MovesOn
<1>5. ASSUME NEW p \in Posts, List(p) PROVE Reports'
  <2>1. /\ \A q \in Posts \ {p} : post'[q] = post[q]
        /\ post[p].out = <<>> /\ post'[p].out = <<>> /\ post'[p].landed = post[p].landed
        /\ post'[p].had = post[p].had
        /\ post'[p].pc = "next" /\ indexed' = indexed
        /\ \/ post'[p].existing = task
           \/ post'[p].existing = post[p].existing /\ post'[p].blind
    BY <1>5 DEF List, Reports, NotBegun, TypeOK, PostState
  <2>2. post'[p].existing \subseteq task' /\ post'[p].had \subseteq task' /\ Seen(p)'
    BY <1>0, <2>1 DEF Reports, Told, Seen
  <2>3. \A q \in Posts : Told(q)' /\ Needful(q)' /\ Seen(q)'
    BY <1>0, <2>1, <2>2, NothingReported
  <2>4. NotBegun' /\ Unsent'
    BY <2>1, PhaseStep DEF Reports
  <2> QED BY <1>0, <2>1, <2>3, <2>4 DEF Reports
<1>6. ASSUME NEW p \in Posts, Duplicate(p) PROVE Reports'
  <2>1. /\ Keeps(p) /\ post[p].pc = "next" /\ post'[p].pc = "next"
        /\ post'[p].out = Append(post[p].out, "duplicate")
        /\ post'[p].landed = post[p].landed
        /\ post'[p].unread = post[p].unread /\ indexed' = indexed
        /\ ContentOf[Current(p)] \in Sent(p) \/ Match(p, Current(p), {}) # {}
    BY <1>6 DEF Duplicate, More, Keeps, TypeOK, PostState
  <2>2. Len(post[p].out) + 1 \notin post'[p].landed
    <3>1. post[p].landed \subseteq DOMAIN post[p].out /\ post[p].out \in Seq(Results)
      BY <1>0 DEF Reports, Told, PostState
    <3>2. Len(post[p].out) + 1 \notin DOMAIN post[p].out
      BY <3>1
    <3> QED BY <2>1, <3>1, <3>2
  <2>3. \A q \in Posts : Told(q)' /\ Needful(q)' /\ Seen(q)'
    BY <1>0, <2>1, <2>2, OneReported DEF Keeps
  <2>4. NotBegun' /\ Unsent'
    BY <2>1, PhaseStep DEF Reports, Keeps
  <2> QED BY <1>0, <2>1, <2>3, <2>4 DEF Reports
<1>7. ASSUME NEW p \in Posts, \/ PutLast(p) \/ PutLost(p) \/ PutRefused(p)
                              \/ Stall(p) \/ Incomplete(p)
      PROVE  Reports'
  <2>1. PICK r \in {"attached", "failed", "stalled"}, landed \in BOOLEAN :
          /\ Result(p, r, landed) /\ indexed' = indexed /\ post[p].pc = "session"
          /\ r = "attached" => task' = task \cup {Current(p)}
    BY <1>7 DEF PutLast, Sending, PutLost, PutRefused, Stall, Incomplete
  <2> QED BY <1>0, <2>1, SessionReports
<1>8. ASSUME NEW p \in Posts, AttachInline(p) PROVE Reports'
  <2>1. PICK r \in {"attached", "failed"}, landed \in BOOLEAN, unread \in SUBSET Candidates(p) :
          /\ ResultAtOnce(p, r, landed, unread) /\ Passed(p, unread) /\ indexed' = indexed
          /\ post[p].pc = "next"
          /\ r = "attached" => task' = task \cup {Current(p)}
    BY <1>8 DEF AttachInline, More
  <2> QED BY <1>0, <2>1, AtOnceReports
<1>9. ASSUME NEW p \in Posts, OpenSession(p) PROVE Reports'
  <2>1. PICK unread \in SUBSET Candidates(p) :
          /\ Passed(p, unread) /\ indexed' = indexed /\ post[p].pc = "next"
          /\ Opens(p, unread) \/ ResultAtOnce(p, "failed", FALSE, unread)
    BY <1>9 DEF OpenSession, Opens, More
  <2>2. CASE ResultAtOnce(p, "failed", FALSE, unread)
    BY <1>0, <2>1, <2>2, AtOnceReports
  <2>3. CASE Opens(p, unread)
    <3>1. /\ Keeps(p) /\ post'[p].pc = "session" /\ post'[p].out = post[p].out
          /\ post'[p].unread = post[p].unread \cup Missed(p, unread)
          /\ post'[p].landed = post[p].landed
      BY <2>3, OpenKeeps
    <3>2. Compared(p, Len(post[p].out) + 1, Current(p), post'[p].unread)
      BY <2>1, <3>1, PassedIsCompared
    <3>3. indexed' => task' # {}
      BY <1>0, <2>1 DEF Reports
    <3> QED BY <1>0, <2>1, <3>1, <3>2, <3>3, MovesOn DEF Passed
  <2> QED BY <2>1, <2>2, <2>3
<1>10. ASSUME NEW p \in Posts, Put(p) PROVE Reports'
  <2>1. /\ Keeps(p) /\ post'[p].out = post[p].out /\ post'[p].landed = post[p].landed
        /\ post[p].pc = "session" /\ post'[p].pc = "session"
        /\ post'[p].unread = post[p].unread /\ indexed' = indexed
    BY <1>10 DEF Put, Sending, Keeps, TypeOK, PostState
  <2>2. Due(p) /\ (indexed' => task' # {})
    BY <1>0, <2>1 DEF Reports, Unsent
  <2> QED BY <1>0, <2>1, <2>2, MovesOn
<1> QED
  BY <1>1, <1>2, <1>4, <1>5, <1>6, <1>7, <1>8, <1>9, <1>10, Minting
  DEF Next, PostStep, SessionStep, Mint, Expire, CheckGet, GetStep, RefuseGet, BurnGet, Serve,
      DieGet, vars

\* What the request reports holds for any batch, any number of requests and
\* whatever Graph answers.
LEMMA ReportsHold == Spec => []Reports
<1>1. ASSUME Init PROVE Reports
  <2>1. \A p \in Posts : /\ post[p].pc = "idle" /\ post[p].out = <<>> /\ post[p].landed = {}
                         /\ post[p].existing = {} /\ post[p].had = {}
    BY <1>1 DEF Init
  <2>2. NotBegun /\ Unsent
    BY <2>1 DEF NotBegun, Unsent
  <2>3. ASSUME NEW p \in Posts PROVE Told(p) /\ Needful(p) /\ Seen(p)
    <3>1. DOMAIN post[p].out = {} /\ post[p].existing = {} /\ post[p].had = {}
          /\ post[p].landed = {}
      BY <2>1
    <3> QED BY <3>1 DEF Told, Needful, Seen
  <2>4. indexed => task # {}
    BY <1>1, Zenon DEF Init
  <2> QED BY <2>2, <2>3, <2>4 DEF Reports
<1>2. TypeOK /\ Reports /\ [Next]_vars => Reports'
  BY ReportsStep
<1> QED BY <1>1, <1>2, TypesHold, PTL DEF Spec

\* What is reported as attached or as a duplicate is on the task, and the index
\* flags no task that has nothing, whatever requests overlap, fail or die.
THEOREM ReportAlwaysTrue == Spec => []ReportIsTrue
<1>1. Reports => ReportIsTrue
  BY DEF Reports, Told, ReportIsTrue
<1> QED BY <1>1, ReportsHold, PTL

\* Whatever lands on the task, in a request or in a session, answered or not, was
\* compared with every attachment there was when the request came, but for the
\* exceptions NoNeedlessCopy names: also with what an earlier request had attached
\* without being answered.
THEOREM NeverNeedlessCopy == Spec => []NoNeedlessCopy
<1>1. Reports => NoNeedlessCopy
  BY DEF Reports, Needful, Compared, NoNeedlessCopy
<1> QED BY <1>1, ReportsHold, PTL
=============================================================================

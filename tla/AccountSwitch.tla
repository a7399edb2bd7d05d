----------------------------- MODULE AccountSwitch -----------------------------
(***************************************************************************)
(* What a change of the owner's Microsoft account does to everything that  *)
(* is kept per account: the tokens and the identity in KV, the rows and    *)
(* the cursor of the index, the alarm, and the MCP grants, which live as   *)
(* long as the epoch they were issued under                                *)
(* (src/hosts/shared/auth-handler.ts handleCallback, src/core/auth/        *)
(* microsoft.ts wipeIdentityScopedState, src/core/index/index-core.ts      *)
(* resetIdentity, alarm, ensureSyncing, src/core/auth/grant.ts).           *)
(*                                                                         *)
(* The callback is a request of the worker; between its awaits the sync    *)
(* loop of the index, other callbacks and the tools go on, and it may die. *)
(* All lists of an account are one here, a cycle fetches and applies once  *)
(* (DeltaSync has the detail); refreshes are in TokenRefresh.              *)
(***************************************************************************)
EXTENDS Integers

CONSTANTS
    Accounts,   \* accounts that pass the OWNER_EMAIL gate
    Callbacks,  \* names of the sign-in callbacks under way at the same time
    None,       \* JavaScript's null
    MaxSignIn,  \* bound: sign-ins that reach the callback
    MaxRevoke   \* bound: no revocation once there were so many epochs

Steps == {"looking", "resetting", "teardown", "wipeTokens", "wipeIdentity",
          "storing", "marking", "clearing", "epoch", "granting"}

ASSUME SwitchAssumption ==
    /\ MaxSignIn \in Nat /\ MaxRevoke \in Nat
    /\ None \notin Accounts

VARIABLES
    tokens,   \* KV tokens:owner: whose they are
    identity, \* KV owner identity
    rows,     \* index: accounts that have rows (lists and tasks) in it
    cursor,   \* index: account whose delta links sync_state holds
    alarm,    \* whether the alarm is armed
    cycle,    \* the sync cycle in progress: whose tokens it fetches with
    reauth,   \* auth:reauth, set until Microsoft access is back
    epoch,    \* durable auth epoch, 0 when none was made yet
    grants,   \* MCP grants issued: account and epoch
    cb,       \* the sign-in callbacks
    signIns,  \* number of sign-ins so far
    doubt,    \* whose the index is: a cycle went on with the tokens of the old
              \* account after the tables were emptied, or a callback died
              \* between the new tokens and the new identity
    refused   \* why re-auth is required: Microsoft refused since the tokens were
              \* stored, or the callback died that stored them

kv   == <<tokens, identity>>
data == <<rows, cursor>>
loop == <<alarm, cycle>>
flag == <<reauth, refused>>
switchVars == <<tokens, identity, rows, cursor, alarm, cycle, reauth, epoch, grants,
                cb, signIns, doubt, refused>>

Owner == Accounts \cup {None}

SwitchTypeOK ==
    /\ tokens \in Owner /\ identity \in Owner
    /\ rows \subseteq Accounts /\ cursor \in Owner
    /\ alarm \in BOOLEAN
    /\ cycle \in Owner
    /\ epoch \in Nat
    /\ grants \subseteq [acct : Owner, epoch : Nat]
    /\ cb \in [Callbacks -> [pc : Steps \cup {"idle"}, acct : Owner,
                             epoch : Nat]]
    /\ signIns \in 0..MaxSignIn
    /\ reauth \in BOOLEAN /\ doubt \in BOOLEAN /\ refused \in BOOLEAN

NoCallback == [pc |-> "idle", acct |-> None, epoch |-> 0]

SwitchInit ==
    /\ tokens = None /\ identity = None
    /\ rows = {} /\ cursor = None /\ alarm = FALSE /\ cycle = None
    /\ epoch = 0 /\ grants = {}
    /\ cb = [c \in Callbacks |-> NoCallback]
    /\ signIns = 0
    /\ reauth = FALSE /\ doubt = FALSE /\ refused = FALSE

-----------------------------------------------------------------------------
(* The callback.                                                            *)

At(c, pc)   == cb[c].pc = pc
StepTo(c, pc) == cb' = [cb EXCEPT ![c].pc = pc]

\* The code is exchanged, /me fetched, and the owner gate passed.
Exchange(c, a) ==
    /\ At(c, "idle") /\ signIns < MaxSignIn
    /\ signIns' = signIns + 1
    /\ cb' = [cb EXCEPT ![c] = [pc |-> "looking", acct |-> a, epoch |-> 0]]
    /\ UNCHANGED <<kv, data, loop, flag, doubt, epoch, grants>>

\* loadIdentity: wipe only if another account was seen before.
LookUp(c) ==
    /\ At(c, "looking")
    /\ StepTo(c, IF identity \in {None, cb[c].acct} THEN "storing"
                                                  ELSE "resetting")
    /\ UNCHANGED <<kv, data, loop, flag, doubt, epoch, grants, signIns>>

\* resetIdentity() is called; its first await is the teardown.
ResetBegin(c) ==
    /\ At(c, "resetting")
    /\ StepTo(c, "teardown")
    /\ UNCHANGED <<kv, data, loop, flag, doubt, epoch, grants, signIns>>

\* Mutant of ResetFinish: the epoch is left alone.
ResetKeepsEpoch(c) ==
    /\ At(c, "teardown")
    /\ rows' = {} /\ cursor' = None /\ alarm' = FALSE
    /\ reauth' = FALSE /\ refused' = FALSE /\ doubt' = (cycle # None)
    /\ StepTo(c, "wipeTokens")
    /\ UNCHANGED <<kv, cycle, epoch, grants, signIns>>

\* Mutant of ResetFinish: the cursors survive.
ResetKeepsCursor(c) ==
    /\ At(c, "teardown")
    /\ epoch' = epoch + 1
    /\ rows' = {} /\ alarm' = FALSE
    /\ reauth' = FALSE /\ refused' = FALSE /\ doubt' = (cycle # None)
    /\ StepTo(c, "wipeTokens")
    /\ UNCHANGED <<kv, cursor, cycle, grants, signIns>>

\* The rest of resetIdentity(): new epoch, no re-auth required, tables emptied,
\* alarm cancelled.  A cycle that is in flight goes on.
ResetFinish(c) ==
    /\ At(c, "teardown")
    /\ epoch' = epoch + 1
    /\ rows' = {} /\ cursor' = None /\ alarm' = FALSE
    /\ reauth' = FALSE /\ refused' = FALSE /\ doubt' = (cycle # None)
    /\ StepTo(c, "wipeTokens")
    /\ UNCHANGED <<kv, cycle, grants, signIns>>

WipeTokens(c) ==
    /\ At(c, "wipeTokens") /\ tokens' = None /\ StepTo(c, "wipeIdentity")
    /\ UNCHANGED <<identity, data, loop, flag, doubt, epoch, grants, signIns>>

WipeIdentity(c) ==
    /\ At(c, "wipeIdentity") /\ identity' = None /\ StepTo(c, "storing")
    /\ UNCHANGED <<tokens, data, loop, flag, doubt, epoch, grants, signIns>>

StoreTokens(c) ==
    /\ At(c, "storing") /\ tokens' = cb[c].acct /\ StepTo(c, "marking")
    /\ refused' = FALSE
    /\ UNCHANGED <<identity, data, loop, reauth, doubt, epoch, grants, signIns>>

StoreIdentity(c) ==
    /\ At(c, "marking") /\ identity' = cb[c].acct /\ StepTo(c, "clearing")
    /\ UNCHANGED <<tokens, data, loop, flag, doubt, epoch, grants, signIns>>

\* Mutant of ClearReauth: the loop is kicked, the flag stays.
ClearOnlyKicks(c) ==
    /\ At(c, "clearing") /\ alarm' = TRUE /\ StepTo(c, "epoch")
    /\ UNCHANGED <<kv, data, cycle, flag, doubt, epoch, grants, signIns>>

\* clearReauth(), which ends in ensureSyncing().
ClearReauth(c) ==
    /\ At(c, "clearing") /\ alarm' = TRUE /\ StepTo(c, "epoch")
    /\ reauth' = FALSE /\ refused' = FALSE
    /\ UNCHANGED <<kv, data, cycle, doubt, epoch, grants, signIns>>

\* authState(): the current epoch, made now if there is none.
ReadEpoch(c) ==
    /\ At(c, "epoch")
    /\ epoch' = IF epoch = 0 THEN 1 ELSE epoch
    /\ cb' = [cb EXCEPT ![c].pc = "granting", ![c].epoch = epoch']
    /\ UNCHANGED <<kv, data, loop, flag, doubt, grants, signIns>>

\* completeAuthorization() issues the grant.
Grant(c) ==
    /\ At(c, "granting")
    /\ grants' = grants \cup {[acct |-> cb[c].acct, epoch |-> cb[c].epoch]}
    /\ cb' = [cb EXCEPT ![c] = NoCallback]
    /\ UNCHANGED <<kv, data, loop, flag, doubt, epoch, signIns>>

\* The request dies, or the call it awaits fails and it gives up, at any step.
CallbackDies(c) ==
    /\ cb[c].pc # "idle"
    /\ cb' = [cb EXCEPT ![c] = NoCallback]
    /\ doubt' = (doubt \/ (At(c, "marking") /\ identity # cb[c].acct))
    /\ refused' = (refused \/ (cb[c].pc \in {"marking", "clearing"} /\ reauth))
    /\ UNCHANGED <<kv, data, loop, reauth, epoch, grants, signIns>>

-----------------------------------------------------------------------------
(* The tools and the sync loop.                                             *)

\* grantRefusal(): a grant is good for the epoch it was issued under.
Live(g) == g.epoch = epoch

\* revoke_all_connections, called over a live grant.
RevokeAll ==
    /\ \E g \in grants : Live(g)
    /\ epoch < MaxRevoke
    /\ epoch' = epoch + 1
    /\ UNCHANGED <<kv, data, loop, flag, doubt, grants, cb, signIns>>

\* ensureSyncing() from the heartbeat or from a read of a cold index.
Heartbeat ==
    /\ ~alarm /\ alarm' = TRUE
    /\ UNCHANGED <<kv, data, cycle, flag, doubt, epoch, grants, cb, signIns>>

\* alarm(): without tokens, or while re-auth is required, nothing happens, and
\* nothing re-arms it.  The host does not run the handler while it is running.
Alarm ==
    /\ alarm /\ cycle = None
    /\ alarm' = FALSE
    /\ cycle' = IF reauth THEN None ELSE tokens
    /\ doubt' = (doubt \/ (cycle' # None /\ \E c \in Callbacks : At(c, "wipeTokens")))
    /\ UNCHANGED <<kv, data, flag, epoch, grants, cb, signIns>>

\* The cycle's answers arrive: rows and cursors are stored, alarm re-armed.
\* A link of another account's mailbox is refused: an error, nothing stored.
CycleDone ==
    /\ cycle # None
    /\ IF cursor \in {None, cycle}
       THEN rows' = rows \cup {cycle} /\ cursor' = cycle
       ELSE UNCHANGED data
    /\ alarm' = TRUE
    /\ cycle' = None
    /\ UNCHANGED <<kv, flag, doubt, epoch, grants, cb, signIns>>

\* markReauthRequired(): Microsoft refuses a refresh for good or demands claims,
\* of a tool's request or of the cycle's, which stores nothing then.
Refused ==
    /\ ~reauth /\ reauth' = TRUE /\ refused' = TRUE
    /\ \/ tokens # None /\ UNCHANGED loop
       \/ cycle # None /\ cycle' = None /\ alarm' = TRUE
    /\ UNCHANGED <<kv, data, doubt, epoch, grants, cb, signIns>>

Callback(c) ==
    \/ LookUp(c) \/ ResetBegin(c) \/ ResetFinish(c) \/ WipeTokens(c)
    \/ WipeIdentity(c) \/ StoreTokens(c) \/ StoreIdentity(c)
    \/ ClearReauth(c) \/ ReadEpoch(c) \/ Grant(c)

SwitchNext ==
    \/ \E c \in Callbacks : Callback(c) \/ CallbackDies(c)
    \/ \E c \in Callbacks, a \in Accounts : Exchange(c, a)
    \/ RevokeAll \/ Heartbeat \/ Alarm \/ CycleDone \/ Refused

SwitchSpec == SwitchInit /\ [][SwitchNext]_switchVars

\* Requests are carried through or die, the cron heartbeat comes round, and
\* the host fires an armed alarm and answers its fetches.
FairSwitchSpec ==
    /\ SwitchSpec
    /\ WF_switchVars(Heartbeat) /\ WF_switchVars(Alarm) /\ WF_switchVars(CycleDone)
    /\ \A c \in Callbacks : WF_switchVars(Callback(c))

-----------------------------------------------------------------------------
(* Properties.                                                              *)

\* "Two accounts' data can never mix" (microsoft.ts:424-427): as long as the
\* owner is known, the index holds the rows and the cursors of the owner only.
\* Two behaviours of the code are excepted until the next wipe heals them: a
\* cycle that goes on with the old account's tokens after the tables were
\* emptied, and a callback that dies between the new tokens and the identity.
OneAccount ==
    identity # None /\ ~doubt => rows \subseteq {identity} /\ cursor \in {None, identity}

\* A client paired with one account never gets through to another's data
\* (microsoft.ts:427-430): an MCP grant that is still live was issued to the
\* owner whose tokens are stored, also in the middle of a sign-in.
LiveGrantsAreOwners == \A g \in grants : Live(g) => tokens \in {None, g.acct}

\* "Fresh Microsoft tokens satisfy any pending re-auth; resume syncing"
\* (auth-handler.ts:276): whoever's tokens are stored is synced, without another
\* sign-in, over deaths and resets; unless Microsoft has refused since, or the
\* callback died that stored the tokens and re-auth is still required, or whose
\* the index is is in doubt.
Resumes == \A a \in Accounts : (tokens = a) ~> (cursor = a \/ tokens # a \/ refused \/ doubt)
=============================================================================

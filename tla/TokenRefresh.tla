---------------------------- MODULE TokenRefresh ----------------------------
(***************************************************************************)
(* The sole refresher of the owner's Microsoft tokens                      *)
(* (src/core/index/index-core.ts, "Token refresh"), together with the two  *)
(* KV records it shares with the sign-in callback (tokens:owner and the    *)
(* owner identity) and the part of resetIdentity() that touches them.      *)
(*                                                                         *)
(* A "flight" is one promise made by #refreshResource.  Code between two   *)
(* awaits is one step; every await that leaves the process (KV, the token  *)
(* endpoint, the teardown of subscriptions) ends a step.                   *)
(*                                                                         *)
(* A refresh token is named by the sign-in it descends from (its family)   *)
(* and by how often it was rotated since (its version); the access token   *)
(* stored beside it by the version it was minted with.  Epochs, index rows *)
(* and alarms, which resetIdentity() also clears, are in AccountSwitch.    *)
(***************************************************************************)
EXTENDS Integers

CONSTANTS
    Accounts,   \* Microsoft accounts that pass the OWNER_EMAIL gate
    FlightId,   \* names for the promises that are pending at the same time
    None,       \* JavaScript's null / undefined
    MaxFamily,  \* bound: sign-ins that reach the code exchange
    MaxVersion, \* bound: rotations of one family
    MaxReset,   \* bound: identity resets in one life of the process
    MayDie,     \* whether requests and the process itself may die
    Overlap     \* whether a refresh and an identity reset may overlap

ASSUME TokenAssumption ==
    /\ MayDie \in BOOLEAN /\ Overlap \in BOOLEAN
    /\ MaxFamily \in Nat /\ MaxVersion \in Nat /\ MaxReset \in Nat
    /\ None \notin Accounts /\ None \notin FlightId
    /\ None \notin [acct : Accounts, fam : Nat, ver : Nat, graph : Nat]

VARIABLES
    tokens,      \* KV tokens:owner
    identity,    \* KV owner identity: the account id
    reauth,      \* durable re-auth flag
    generation,  \* #identityGeneration
    inFlight,    \* #refreshInFlight
    chain,       \* #refreshChain: the flight whose settling resolves it
    flights,     \* the body of each pending #refreshResource promise
    substrate,   \* #substrateToken: whose token is cached, in memory only
    unavailable, \* #substrateUnavailable
    signin,      \* the sign-in callback, one at a time
    issued,      \* number of families the token endpoint has issued
    aad          \* the token endpoint's record of each family

memory == <<generation, inFlight, chain, flights, substrate, unavailable>>
kv     == <<tokens, identity>>
entra  == <<issued, aad>>
vars   == <<tokens, identity, reauth, generation, inFlight, chain, flights,
            substrate, unavailable, signin, issued, aad>>

Resources == {"graph", "substrate"}
Families  == 1..MaxFamily
Token     == [acct : Accounts, fam : Families, ver : 0..MaxVersion,
              graph : 0..MaxVersion]
Answers   == {"none", "ok", "refused", "unconsented", "failed"}
Flight    == [pc : {"free", "waiting", "posting", "answered", "storing",
                    "finishing"},
              resource : Resources, gen : 0..MaxReset,
              prev : FlightId \cup {None}, held : Token \cup {None},
              answer : Answers, ver : 0..MaxVersion]
SignIn    == [pc : {"idle", "resetting", "teardown", "wipeTokens",
                    "wipeIdentity", "storing", "marking", "clearing"},
              acct : Accounts \cup {None}, fam : 0..MaxFamily]

TypeOK ==
    /\ tokens \in Token \cup {None}
    /\ identity \in Accounts \cup {None}
    /\ reauth \in BOOLEAN
    /\ generation \in 0..MaxReset
    /\ inFlight \in [Resources -> FlightId \cup {None}]
    /\ chain \in FlightId \cup {None}
    /\ flights \in [FlightId -> Flight]
    /\ substrate \in Accounts \cup {None}
    /\ unavailable \in BOOLEAN
    /\ signin \in SignIn
    /\ issued \in 0..MaxFamily
    /\ aad \in [Families -> [ver : 0..MaxVersion, alive : BOOLEAN,
                             lost : BOOLEAN]]

FreeFlight == [pc |-> "free", resource |-> "graph", gen |-> 0, prev |-> None,
               held |-> None, answer |-> "none", ver |-> 0]
NoSignIn   == [pc |-> "idle", acct |-> None, fam |-> 0]

Init ==
    /\ tokens = None /\ identity = None /\ reauth = FALSE
    /\ generation = 0 /\ chain = None
    /\ inFlight = [r \in Resources |-> None]
    /\ flights = [f \in FlightId |-> FreeFlight]
    /\ substrate = None /\ unavailable = FALSE
    /\ signin = NoSignIn
    /\ issued = 0
    /\ aad = [n \in Families |-> [ver |-> 0, alive |-> TRUE, lost |-> FALSE]]

-----------------------------------------------------------------------------
(* Callers.  A call that finds a fresh token, or a flight to join, changes  *)
(* nothing; these are the calls that do.                                    *)

\* #refreshResource(r) with no flight to join: capture the generation and
\* the chain, become the chain's end and the resource's slot.
Launch(r) ==
    /\ inFlight[r] = None
    /\ Overlap \/ signin.pc \notin {"teardown", "wipeTokens", "wipeIdentity"}
    /\ \E f \in FlightId :
        /\ flights[f].pc = "free"
        /\ flights' = [flights EXCEPT ![f] =
              [FreeFlight EXCEPT !.pc = "waiting", !.resource = r,
                                 !.gen = generation, !.prev = chain]]
        /\ inFlight' = [inFlight EXCEPT ![r] = f]
        /\ chain' = f

\* getAccessToken() on a stale token, refreshToken() and forceRefresh().
RefreshGraph ==
    /\ tokens # None
    /\ Launch("graph")
    /\ UNCHANGED <<kv, reauth, generation, substrate, unavailable, signin,
                   entra>>

\* getSubstrateAccessToken() with nothing fresh in the cache.
MintSubstrate ==
    /\ ~unavailable
    /\ Launch("substrate")
    /\ UNCHANGED <<kv, reauth, generation, substrate, unavailable, signin,
                   entra>>

\* forceSubstrateRefresh(): drop the cached token, then join or launch.
ForceSubstrate ==
    /\ substrate' = None
    /\ \/ Launch("substrate")
       \/ /\ inFlight["substrate"] # None
          /\ UNCHANGED <<inFlight, chain, flights>>
    /\ UNCHANGED <<kv, reauth, generation, unavailable, signin, entra>>

\* markMyDayUnavailable(): the substrate resource rejected a minted token.
MarkMyDayUnavailable ==
    /\ unavailable' = TRUE
    /\ substrate' = None
    /\ UNCHANGED <<kv, reauth, generation, inFlight, chain, flights, signin,
                   entra>>

\* reportClaimsChallenge(): a Graph call answered 401 insufficient_claims.
\* The call may have been made with the access token of any dead sign-in.
ClaimsChallenge ==
    /\ \E n \in 1..issued : ~aad[n].alive
    /\ reauth' = TRUE
    /\ UNCHANGED <<kv, memory, signin, entra>>

-----------------------------------------------------------------------------
(* The body of a flight.                                                    *)

\* Mutant of Settle: a rejected flight leaves the chain poisoned.
SettlePoisoned(f) ==
    /\ flights' = [g \in FlightId |->
                      IF g = f THEN FreeFlight
                      ELSE IF flights[g].prev = f /\ flights[f].answer = "ok"
                           THEN [flights[g] EXCEPT !.prev = None]
                           ELSE flights[g]]
    /\ chain' = IF chain = f THEN None ELSE chain
    /\ inFlight' = [r \in Resources |->
                       IF inFlight[r] = f THEN None ELSE inFlight[r]]

\* The promise settles, resolved or rejected alike: whoever awaited it as
\* the chain's end goes on, and the slot is emptied if it is still its own.
Settle(f) ==
    /\ flights' = [g \in FlightId |->
                      IF g = f THEN FreeFlight
                      ELSE IF flights[g].prev = f
                           THEN [flights[g] EXCEPT !.prev = None]
                           ELSE flights[g]]
    /\ chain' = IF chain = f THEN None ELSE chain
    /\ inFlight' = [r \in Resources |->
                       IF inFlight[r] = f THEN None ELSE inFlight[r]]

Current(f) == flights[f].gen = generation

\* Mutant of Load: the body does not await the chain.
LoadUnserialized(f) ==
    /\ flights[f].pc = "waiting"
    /\ IF Current(f) /\ tokens # None
       THEN /\ flights' = [flights EXCEPT ![f].pc = "posting",
                                          ![f].held = tokens,
                                          ![f].prev = None]
            /\ UNCHANGED <<chain, inFlight>>
       ELSE Settle(f)
    /\ UNCHANGED <<kv, reauth, generation, substrate, unavailable, signin,
                   entra>>

\* After `await prevChain`: refuse if the identity changed or nothing is
\* stored, else read tokens:owner and POST its refresh token.
Load(f) ==
    /\ flights[f].pc = "waiting"
    /\ flights[f].prev = None
    /\ IF Current(f) /\ tokens # None
       THEN /\ flights' = [flights EXCEPT ![f].pc = "posting",
                                          ![f].held = tokens]
            /\ UNCHANGED <<chain, inFlight>>
       ELSE Settle(f)
    /\ UNCHANGED <<kv, reauth, generation, substrate, unavailable, signin,
                   entra>>

\* postToken() failed: the refusal handling of the catch block.
FailedAnswer(f) ==
    LET a == flights[f].answer
        exo == flights[f].resource = "substrate"
    IN  /\ flights[f].pc = "answered"
        /\ a # "ok"
        /\ unavailable' =
              (unavailable \/ (exo /\ a \in {"refused", "unconsented"}))
        /\ reauth' = (reauth \/ (~exo /\ a = "refused" /\ Current(f)))
        /\ Settle(f)
        /\ UNCHANGED <<kv, generation, substrate, signin, entra>>

\* Mutant of GoodAnswer: a substrate mint only fills the memory cache.
GoodAnswerForgetsRotation(f) ==
    /\ flights[f].pc = "answered"
    /\ flights[f].answer = "ok"
    /\ IF ~Current(f) THEN Settle(f)
       ELSE /\ flights' = [flights EXCEPT ![f].pc =
                 IF flights[f].resource = "substrate"
                 THEN "finishing" ELSE "storing"]
            /\ UNCHANGED <<chain, inFlight>>
    /\ UNCHANGED <<kv, reauth, generation, substrate, unavailable, signin,
                   entra>>

\* postToken() succeeded: discard the tokens if the identity changed, else
\* go on to seal and store.  An unrotated substrate token stores nothing.
GoodAnswer(f) ==
    /\ flights[f].pc = "answered"
    /\ flights[f].answer = "ok"
    /\ IF ~Current(f) THEN Settle(f)
       ELSE /\ flights' = [flights EXCEPT ![f].pc =
                 IF /\ flights[f].resource = "substrate"
                    /\ flights[f].ver = flights[f].held.ver
                 THEN "finishing" ELSE "storing"]
            /\ UNCHANGED <<chain, inFlight>>
    /\ UNCHANGED <<kv, reauth, generation, substrate, unavailable, signin,
                   entra>>

\* The record a flight stores: a Graph refresh replaces all of it, a
\* substrate refresh only the refresh token of the record it had loaded.
NextTokens(f) ==
    LET fl == flights[f]
    IN  IF fl.resource = "graph"
        THEN [fl.held EXCEPT !.ver = fl.ver, !.graph = fl.ver]
        ELSE [fl.held EXCEPT !.ver = fl.ver]

\* storeTokens() takes effect in KV.
Store(f) ==
    /\ flights[f].pc = "storing"
    /\ tokens' = NextTokens(f)
    /\ flights' = [flights EXCEPT ![f].pc = "finishing"]
    /\ UNCHANGED <<identity, reauth, generation, inFlight, chain, substrate,
                   unavailable, signin, entra>>

\* loadTokens() rejects, and so does the promise.
LoadFails(f) ==
    /\ flights[f].pc = "waiting"
    /\ flights[f].prev = None
    /\ Settle(f)
    /\ UNCHANGED <<kv, reauth, generation, substrate, unavailable, signin,
                   entra>>

\* storeTokens() rejects: KV may have the record all the same.  If not, nobody
\* has what the token endpoint rotated to.
StoreFails(f) ==
    /\ flights[f].pc = "storing"
    /\ \/ tokens' = NextTokens(f) /\ aad' = aad
       \/ /\ tokens' = tokens
          /\ aad' = IF flights[f].ver = flights[f].held.ver THEN aad
                    ELSE [aad EXCEPT ![flights[f].held.fam].lost = TRUE]
    /\ Settle(f)
    /\ UNCHANGED <<identity, reauth, generation, substrate, unavailable, signin,
                   issued>>

\* What follows the await of storeTokens().
Finish(f) ==
    /\ flights[f].pc = "finishing"
    /\ IF flights[f].resource = "substrate"
       THEN substrate' = flights[f].held.acct /\ unavailable' = FALSE
       ELSE UNCHANGED <<substrate, unavailable>>
    /\ Settle(f)
    /\ UNCHANGED <<kv, reauth, generation, signin, entra>>

-----------------------------------------------------------------------------
(* The token endpoint (external).  It refuses a family that was revoked or  *)
(* needs an interactive sign-in, and, as the refresher's comments assume,   *)
(* a refresh token that was rotated away.                                   *)

\* Answer the POST of flight f with kind a; v is the refresh token's version
\* in the answer; gone tells that a rotation happened and its answer is lost.
Answered(f, a, v, gone) ==
    LET n == flights[f].held.fam
    IN  /\ flights' = [flights EXCEPT ![f].pc = "answered",
                                      ![f].answer = a, ![f].ver = v]
        /\ aad' = [aad EXCEPT ![n].ver = IF gone THEN @ + 1
                                         ELSE IF a = "ok" THEN v ELSE @,
                              ![n].lost = @ \/ gone]
        /\ UNCHANGED <<kv, reauth, generation, inFlight, chain, substrate,
                       unavailable, signin, issued>>

Usable(t) == aad[t.fam].alive /\ t.ver = aad[t.fam].ver

Answer(f) ==
    /\ flights[f].pc = "posting"
    /\ LET t == flights[f].held
       IN  \/ Usable(t) /\ t.ver < MaxVersion
              /\ Answered(f, "ok", t.ver + 1, FALSE)
           \/ Usable(t) /\ Answered(f, "ok", t.ver, FALSE)
           \/ ~Usable(t) /\ Answered(f, "refused", t.ver, FALSE)
           \/ flights[f].resource = "substrate"
              /\ Answered(f, "unconsented", t.ver, FALSE)
           \/ Answered(f, "failed", t.ver, FALSE)
           \/ Usable(t) /\ t.ver < MaxVersion
              /\ Answered(f, "failed", t.ver, TRUE)

\* A password change, an admin's revocation or a new Conditional Access rule.
Revoke(n) ==
    /\ n <= issued /\ aad[n].alive
    /\ aad' = [aad EXCEPT ![n].alive = FALSE]
    /\ UNCHANGED <<kv, reauth, memory, signin, issued>>

-----------------------------------------------------------------------------
(* The sign-in callback (auth-handler.ts) and wipeIdentityScopedState().    *)

At(pc)   == signin.pc = pc
Goto(pc) == signin' = [signin EXCEPT !.pc = pc]

\* exchangeCode, fetchMe, isOwner, loadIdentity: a new family for account a.
SignInExchange(a) ==
    /\ At("idle") /\ issued < MaxFamily
    /\ issued' = issued + 1
    /\ signin' = [pc |-> IF identity # None /\ identity # a
                         THEN "resetting" ELSE "storing",
                  acct |-> a, fam |-> issued + 1]
    /\ UNCHANGED <<kv, reauth, memory, aad>>

\* resetIdentity() up to its first await.
ResetBegin ==
    /\ At("resetting") /\ generation < MaxReset
    /\ Overlap \/ \A f \in FlightId : flights[f].pc = "free"
    /\ generation' = generation + 1
    /\ inFlight' = [r \in Resources |-> None]
    /\ chain' = None
    /\ Goto("teardown")
    /\ UNCHANGED <<kv, reauth, flights, substrate, unavailable, entra>>

\* The subscriptions are torn down; resetIdentity() clears what remains.
ResetFinish ==
    /\ At("teardown")
    /\ substrate' = None /\ unavailable' = FALSE /\ reauth' = FALSE
    /\ Goto("wipeTokens")
    /\ UNCHANGED <<kv, generation, inFlight, chain, flights, entra>>

WipeTokens ==
    /\ At("wipeTokens") /\ tokens' = None /\ Goto("wipeIdentity")
    /\ UNCHANGED <<identity, reauth, memory, entra>>

WipeIdentity ==
    /\ At("wipeIdentity") /\ identity' = None /\ Goto("storing")
    /\ UNCHANGED <<tokens, reauth, memory, entra>>

SignInStore ==
    /\ At("storing")
    /\ tokens' = [acct |-> signin.acct, fam |-> signin.fam, ver |-> 0,
                  graph |-> 0]
    /\ Goto("marking")
    /\ UNCHANGED <<identity, reauth, memory, entra>>

SignInMark ==
    /\ At("marking") /\ identity' = signin.acct /\ Goto("clearing")
    /\ UNCHANGED <<tokens, reauth, memory, entra>>

\* clearReauth(), and the rest of the callback, which touches none of this.
SignInClear ==
    /\ At("clearing") /\ reauth' = FALSE /\ signin' = NoSignIn
    /\ UNCHANGED <<kv, memory, entra>>

\* The request that carries the callback dies between two of its awaits.
SignInDies ==
    /\ MayDie /\ ~At("idle") /\ signin' = NoSignIn
    /\ UNCHANGED <<kv, reauth, memory, entra>>

-----------------------------------------------------------------------------
\* The process or Durable Object restarts: memory is gone, a POST on its way
\* may or may not have been served, and a resetIdentity() call fails.
Restart ==
    /\ MayDie
    /\ generation' = 0 /\ chain' = None
    /\ inFlight' = [r \in Resources |-> None]
    /\ flights' = [f \in FlightId |-> FreeFlight]
    /\ substrate' = None /\ unavailable' = FALSE
    /\ signin' = IF At("teardown") THEN NoSignIn ELSE signin
    /\ \E served \in SUBSET {f \in FlightId : /\ flights[f].pc = "posting"
                                              /\ Usable(flights[f].held)
                                              /\ flights[f].held.ver < MaxVersion} :
          aad' = [n \in Families |->
             [ver |-> IF \E f \in served : flights[f].held.fam = n
                      THEN aad[n].ver + 1 ELSE aad[n].ver,
              alive |-> aad[n].alive,
              lost |-> \/ aad[n].lost
                       \/ \E f \in served : flights[f].held.fam = n
                       \/ \E f \in FlightId :
                             /\ flights[f].pc \in {"answered", "storing"}
                             /\ flights[f].held.fam = n]]
    /\ UNCHANGED <<kv, reauth, issued>>

Body(f) == Load(f) \/ Answer(f) \/ FailedAnswer(f) \/ GoodAnswer(f)
           \/ Store(f) \/ LoadFails(f) \/ StoreFails(f) \/ Finish(f)

Callers == RefreshGraph \/ MintSubstrate \/ ForceSubstrate
           \/ MarkMyDayUnavailable \/ ClaimsChallenge

SignInStep == ResetBegin \/ ResetFinish \/ WipeTokens \/ WipeIdentity
              \/ SignInStore \/ SignInMark \/ SignInClear \/ SignInDies

Next == \/ Callers
        \/ \E f \in FlightId : Body(f)
        \/ \E n \in Families : Revoke(n)
        \/ \E a \in Accounts : SignInExchange(a)
        \/ SignInStep
        \/ Restart

Spec == Init /\ [][Next]_vars

\* A pending promise goes on as long as the event loop turns, and every POST
\* is answered or fails in the end.
FairSpec == Spec /\ \A f \in FlightId : WF_vars(Body(f))

-----------------------------------------------------------------------------
(* Properties.                                                              *)

Running(f) == flights[f].pc \in {"posting", "answered", "storing", "finishing"}

\* Two refreshes launched under one identity are never past the chain at the
\* same time, whichever resources they are for and however many callers,
\* resets and failures there were ("one /token in flight at a time").
SingleFlight ==
    \A f, g \in FlightId :
        f # g /\ Running(f) /\ Running(g) => flights[f].gen # flights[g].gen

\* A flight that carries the successor of the stored refresh token.
Carries(f, t) == /\ flights[f].pc \in {"answered", "storing"}
                 /\ flights[f].answer = "ok"
                 /\ flights[f].held.fam = t.fam
                 /\ flights[f].ver = aad[t.fam].ver

\* The stored refresh token is the newest of its family (index-core.ts:378-381)
\* unless its successor is on its way into the store, or will never get there: the
\* answer that carried it was lost, the process ended, or the store rejected it.
StoredTokenIsNewest ==
    tokens # None /\ ~aad[tokens.fam].lost =>
        \/ tokens.ver = aad[tokens.fam].ver
        \/ \E f \in FlightId : Carries(f, tokens)

\* A refresh never hangs behind another: its promise settles, so the slot and
\* the chain are released for the next caller.
FlightsSettle ==
    \A f \in FlightId : (flights[f].pc # "free") ~> (flights[f].pc = "free")

\* H4: no refresh persists the prior account's tokens over those the sign-in
\* of another account has stored, neither one launched before the generation was
\* bumped nor one launched during the reset (index-core.ts:324-326).
StoresOwnAccount ==
    [][\A f \in FlightId :
          Store(f) /\ tokens # None => tokens'.acct = tokens.acct]_vars

\* The cached substrate token belongs to the signed-in account
\* (microsoft.ts:424-427: "two accounts' data can never mix").
SubstrateOfIdentity ==
    At("idle") /\ substrate # None /\ identity # None
        => substrate = identity

\* Two calls never spend the same refresh token at the same time
\* (index-core.ts:301-303).
NoDoubleSpend ==
    \A f, g \in FlightId :
        f # g /\ flights[f].pc = "posting" /\ flights[g].pc = "posting"
            => flights[f].held # flights[g].held

\* A substrate refresh stores a refresh token and nothing else
\* (index-core.ts:434-436).
SubstrateKeepsGraphToken ==
    [][\A f \in FlightId :
          Store(f) /\ flights[f].resource = "substrate" /\ tokens # None
              => tokens'.fam = tokens.fam /\ tokens'.graph = tokens.graph]_vars

\* A refused refresh asks for a new sign-in only if the refresh token that
\* was refused is still the stored one (auth-handler.ts: "Fresh Microsoft
\* tokens satisfy any pending re-auth").
RefusalIsOfStoredToken ==
    [][\A f \in FlightId :
          FailedAnswer(f) /\ reauth' /\ ~reauth
              => tokens # None /\ tokens.fam = flights[f].held.fam]_vars
=============================================================================

------------------------- MODULE TokenRefreshProofs -------------------------
(***************************************************************************)
(* TLAPS proofs about TokenRefresh, for every number of accounts, pending  *)
(* promises, sign-ins, rotations and resets:                               *)
(*   TypeCorrect    the type invariant;                                    *)
(*   SerialRefresh  SingleFlight, from the inductive invariant Queue;      *)
(*   NewestStored   StoredTokenIsNewest, where refreshes and identity      *)
(*                  resets do not overlap, from the invariant Newest.      *)
(***************************************************************************)
EXTENDS TokenRefresh, TLAPS

Active(f) == flights[f].pc # "free"
Live(f)   == Active(f) /\ Current(f)

\* Under one identity there are at most two flights, one per resource slot;
\* the chain ends in the later one, which waits for the earlier one.
SlotIsLive ==
    \A r \in Resources : inFlight[r] # None =>
        Live(inFlight[r]) /\ flights[inFlight[r]].resource = r
LiveHasSlot ==
    \A f \in FlightId : Live(f) => inFlight[flights[f].resource] = f
ChainIsLive == chain # None => Live(chain)
ChainIsLast ==
    \A f \in FlightId : Live(f) /\ f # chain
        => chain # None /\ flights[chain].prev = f
OnlyWaitersWait ==
    \A f \in FlightId : flights[f].prev # None => flights[f].pc = "waiting"
NoFutureFlight == \A f \in FlightId : flights[f].gen <= generation
Ordered ==
    \A f, g \in FlightId :
        f # g /\ Active(f) /\ Active(g) /\ flights[f].gen = flights[g].gen
            => flights[f].prev = g \/ flights[g].prev = f

Queue == /\ SlotIsLive /\ LiveHasSlot /\ ChainIsLive /\ ChainIsLast
         /\ OnlyWaitersWait /\ NoFutureFlight /\ Ordered

\* A flight that is past Load holds the record it read.
Holds == \A f \in FlightId : Running(f) => flights[f].held \in Token

\* A callback under way knows its account and the family it was issued.
Named == signin.pc # "idle" => signin.acct \in Accounts /\ signin.fam \in Families

TypeInv == TypeOK /\ Holds /\ Named

-----------------------------------------------------------------------------
(* Type correctness.                                                        *)

LEMMA FreeIsFlight == FreeFlight \in Flight
BY TokenAssumption DEF FreeFlight, Flight, Resources, Answers

LEMMA LaunchType ==
    ASSUME TypeOK, NEW r \in Resources, Launch(r)
    PROVE  /\ flights' \in [FlightId -> Flight]
           /\ inFlight' \in [Resources -> FlightId \cup {None}]
           /\ chain' \in FlightId \cup {None}
<1>1. PICK f \in FlightId :
         /\ flights[f].pc = "free"
         /\ flights' = [flights EXCEPT ![f] =
               [FreeFlight EXCEPT !.pc = "waiting", !.resource = r,
                                  !.gen = generation, !.prev = chain]]
         /\ inFlight' = [inFlight EXCEPT ![r] = f]
         /\ chain' = f
  BY DEF Launch
<1>2. [FreeFlight EXCEPT !.pc = "waiting", !.resource = r,
                         !.gen = generation, !.prev = chain] \in Flight
  BY FreeIsFlight DEF TypeOK, Flight, FreeFlight
<1>3. QED BY <1>1, <1>2 DEF TypeOK

LEMMA SettleType ==
    ASSUME TypeOK, NEW f \in FlightId, Settle(f)
    PROVE  /\ flights' \in [FlightId -> Flight]
           /\ inFlight' \in [Resources -> FlightId \cup {None}]
           /\ chain' \in FlightId \cup {None}
<1>1. \A g \in FlightId : [flights[g] EXCEPT !.prev = None] \in Flight
  BY DEF TypeOK, Flight
<1>2. QED BY <1>1, FreeIsFlight DEF TypeOK, Settle

LEMMA CallersType ==
    ASSUME TypeOK, Callers
    PROVE  TypeOK'
<1>1. CASE RefreshGraph
  BY <1>1, LaunchType DEF RefreshGraph, TypeOK, kv, entra, Resources
<1>2. CASE MintSubstrate
  BY <1>2, LaunchType DEF MintSubstrate, TypeOK, kv, entra, Resources
<1>3. CASE ForceSubstrate
  <2>1. /\ flights' \in [FlightId -> Flight]
        /\ inFlight' \in [Resources -> FlightId \cup {None}]
        /\ chain' \in FlightId \cup {None}
    BY <1>3, LaunchType DEF ForceSubstrate, TypeOK, Resources
  <2>2. QED BY <1>3, <2>1 DEF ForceSubstrate, TypeOK, kv, entra
<1>4. CASE MarkMyDayUnavailable
  BY <1>4 DEF MarkMyDayUnavailable, TypeOK, kv, entra
<1>5. CASE ClaimsChallenge
  BY <1>5 DEF ClaimsChallenge, TypeOK, kv, entra, memory
<1>6. QED BY <1>1, <1>2, <1>3, <1>4, <1>5 DEF Callers

LEMMA AnsweredType ==
    ASSUME TypeOK, Holds, NEW f \in FlightId, flights[f].pc = "posting",
           NEW a \in Answers, NEW v \in Int, NEW gone \in BOOLEAN,
           Answered(f, a, v, gone),
           \/ v = flights[f].held.ver
           \/ Usable(flights[f].held) /\ flights[f].held.ver < MaxVersion
              /\ v = flights[f].held.ver + 1,
           gone => Usable(flights[f].held) /\ flights[f].held.ver < MaxVersion
    PROVE  TypeOK'
<1> DEFINE n == flights[f].held.fam
<1>1. flights[f] \in Flight /\ flights[f].held \in Token
  BY DEF Holds, Running, TypeOK
<1>2. n \in Families /\ v \in 0..MaxVersion
  BY <1>1, TokenAssumption DEF Token
<1>3. [flights[f] EXCEPT !.pc = "answered", !.answer = a, !.ver = v] \in Flight
  BY <1>1, <1>2 DEF Flight
<1>4. flights' = [flights EXCEPT ![f] =
         [flights[f] EXCEPT !.pc = "answered", !.answer = a, !.ver = v]]
  BY DEF Answered, TypeOK
<1>5. PICK w, l : aad' = [aad EXCEPT ![n] = [aad[n] EXCEPT !.ver = w, !.lost = l]]
                  /\ w \in 0..MaxVersion /\ l \in BOOLEAN
  <2>1. aad[n] \in [ver : 0..MaxVersion, alive : BOOLEAN, lost : BOOLEAN]
    BY <1>2 DEF TypeOK
  <2>2. gone => aad[n].ver + 1 \in 0..MaxVersion
    BY <1>1, <2>1, TokenAssumption DEF Usable, Token
  <2> DEFINE w == IF gone THEN aad[n].ver + 1 ELSE IF a = "ok" THEN v ELSE aad[n].ver
             l == aad[n].lost \/ gone
  <2>3. w \in 0..MaxVersion /\ l \in BOOLEAN
    BY <1>2, <2>1, <2>2
  <2>4. aad' = [aad EXCEPT ![n] = [aad[n] EXCEPT !.ver = w, !.lost = l]]
    BY <1>2 DEF Answered, TypeOK
  <2>5. QED BY <2>3, <2>4
<1>6. aad' \in [Families -> [ver : 0..MaxVersion, alive : BOOLEAN, lost : BOOLEAN]]
  BY <1>2, <1>5 DEF TypeOK
<1>7. flights' \in [FlightId -> Flight]
  BY <1>3, <1>4 DEF TypeOK
<1>8. UNCHANGED <<tokens, identity, reauth, generation, inFlight, chain,
                  substrate, unavailable, signin, issued>>
  BY DEF Answered, kv
<1>9. QED BY <1>6, <1>7, <1>8 DEF TypeOK

LEMMA BodyType ==
    ASSUME TypeOK, Holds, NEW f \in FlightId, Body(f)
    PROVE  TypeOK'
<1> USE DEF kv, entra
<1>1. CASE Load(f)
  <2>1. CASE Current(f) /\ tokens # None
    <3>1. [flights[f] EXCEPT !.pc = "posting", !.held = tokens] \in Flight
      BY DEF TypeOK, Flight
    <3>2. flights' = [flights EXCEPT ![f] =
             [flights[f] EXCEPT !.pc = "posting", !.held = tokens]]
      BY <1>1, <2>1 DEF Load, TypeOK, Flight
    <3>3. QED BY <1>1, <2>1, <3>1, <3>2 DEF Load, TypeOK
  <2>2. CASE ~(Current(f) /\ tokens # None)
    BY <1>1, <2>2, SettleType DEF Load, TypeOK
  <2>3. QED BY <2>1, <2>2
<1>2. CASE Answer(f)
  <2> DEFINE t == flights[f].held
  <2>1. flights[f].pc = "posting" /\ t \in Token /\ t.ver \in Int
    BY <1>2 DEF Answer, Holds, Running, Token
  <2>2. \/ Usable(t) /\ t.ver < MaxVersion /\ Answered(f, "ok", t.ver + 1, FALSE)
        \/ \E a \in Answers : Answered(f, a, t.ver, FALSE)
        \/ Usable(t) /\ t.ver < MaxVersion /\ Answered(f, "failed", t.ver, TRUE)
    BY <1>2, Zenon DEF Answer, Answers
  <2>3. CASE Usable(t) /\ t.ver < MaxVersion /\ Answered(f, "ok", t.ver + 1, FALSE)
    <3>1. t.ver + 1 \in Int /\ "ok" \in Answers
      BY <2>1 DEF Answers
    <3>2. QED BY <2>1, <2>3, <3>1, AnsweredType
  <2>4. CASE \E a \in Answers : Answered(f, a, t.ver, FALSE)
    BY <2>1, <2>4, AnsweredType
  <2>5. CASE Usable(t) /\ t.ver < MaxVersion /\ Answered(f, "failed", t.ver, TRUE)
    <3>1. "failed" \in Answers
      BY DEF Answers
    <3>2. QED BY <2>1, <2>5, <3>1, AnsweredType
  <2>6. QED BY <2>2, <2>3, <2>4, <2>5
<1>3. CASE FailedAnswer(f)
  BY <1>3, SettleType DEF FailedAnswer, TypeOK
<1>4. CASE GoodAnswer(f)
  <2>1. CASE ~Current(f)
    BY <1>4, <2>1, SettleType DEF GoodAnswer, TypeOK
  <2>2. CASE Current(f)
    <3>1. PICK pc \in {"finishing", "storing"} :
             flights' = [flights EXCEPT ![f] = [flights[f] EXCEPT !.pc = pc]]
      BY <1>4, <2>2 DEF GoodAnswer, TypeOK, Flight
    <3>2. [flights[f] EXCEPT !.pc = pc] \in Flight
      BY DEF TypeOK, Flight
    <3>3. QED BY <1>4, <2>2, <3>1, <3>2 DEF GoodAnswer, TypeOK
  <2>3. QED BY <2>1, <2>2
<1>5. CASE Store(f)
  <2>1. flights[f] \in Flight /\ flights[f].held \in Token
    BY <1>5 DEF Holds, Running, Store, TypeOK
  <2>2. NextTokens(f) \in Token
    BY <2>1 DEF NextTokens, Token, Flight
  <2>3. [flights[f] EXCEPT !.pc = "finishing"] \in Flight
    BY <2>1 DEF Flight
  <2>4. flights' = [flights EXCEPT ![f] = [flights[f] EXCEPT !.pc = "finishing"]]
    BY <1>5 DEF Store, TypeOK
  <2>5. QED BY <1>5, <2>2, <2>3, <2>4 DEF Store, TypeOK
<1>6. CASE Finish(f)
  <2>1. flights[f].held \in Token
    BY <1>6 DEF Holds, Running, Finish
  <2>2. flights[f].held.acct \in Accounts
    BY <2>1 DEF Token
  <2>3. QED BY <1>6, <2>2, SettleType DEF Finish, TypeOK
<1>7. CASE LoadFails(f)
  BY <1>7, SettleType DEF LoadFails, TypeOK
<1>8. CASE StoreFails(f)
  <2>1. flights[f] \in Flight /\ flights[f].held \in Token
    BY <1>8 DEF Holds, Running, StoreFails, TypeOK
  <2>2. NextTokens(f) \in Token /\ flights[f].held.fam \in Families
    BY <2>1 DEF NextTokens, Token, Flight
  <2>3. tokens' \in Token \cup {None}
    BY <1>8, <2>2 DEF StoreFails, TypeOK
  <2>4. aad' \in [Families -> [ver : 0..MaxVersion, alive : BOOLEAN, lost : BOOLEAN]]
    BY <1>8, <2>2 DEF StoreFails, TypeOK
  <2>5. QED BY <1>8, <2>3, <2>4, SettleType DEF StoreFails, TypeOK
<1>9. QED BY <1>1, <1>2, <1>3, <1>4, <1>5, <1>6, <1>7, <1>8 DEF Body

LEMMA SignInType ==
    ASSUME TypeOK, Named, SignInStep
    PROVE  TypeOK'
<1>1. \A pc \in {"teardown", "wipeTokens", "wipeIdentity", "storing", "marking",
                 "clearing"} : [signin EXCEPT !.pc = pc] \in SignIn
  BY DEF TypeOK, SignIn
<1>2. NoSignIn \in SignIn
  BY TokenAssumption DEF NoSignIn, SignIn
<1> USE DEF kv, entra, memory, At, Goto
<1>3. CASE ResetBegin
  <2>1. generation + 1 \in 0..MaxReset
    BY <1>3, TokenAssumption DEF ResetBegin, TypeOK
  <2>2. QED BY <1>1, <1>3, <2>1 DEF ResetBegin, TypeOK
<1>4. CASE ResetFinish
  BY <1>1, <1>4 DEF ResetFinish, TypeOK
<1>5. CASE WipeTokens
  BY <1>1, <1>5 DEF WipeTokens, TypeOK
<1>6. CASE WipeIdentity
  BY <1>1, <1>6 DEF WipeIdentity, TypeOK
<1>7. CASE SignInStore
  <2>1. signin.acct \in Accounts /\ signin.fam \in Families
    BY <1>7 DEF SignInStore, Named
  <2>2. [acct |-> signin.acct, fam |-> signin.fam, ver |-> 0, graph |-> 0] \in Token
    BY <2>1, TokenAssumption DEF Token
  <2>3. QED BY <1>1, <1>7, <2>2 DEF SignInStore, TypeOK
<1>8. CASE SignInMark
  <2>1. signin.acct \in Accounts
    BY <1>8 DEF SignInMark, Named
  <2>2. QED BY <1>1, <1>8, <2>1 DEF SignInMark, TypeOK
<1>9. CASE SignInClear
  BY <1>2, <1>9 DEF SignInClear, TypeOK
<1>10. CASE SignInDies
  BY <1>2, <1>10 DEF SignInDies, TypeOK
<1>11. QED
  BY <1>3, <1>4, <1>5, <1>6, <1>7, <1>8, <1>9, <1>10 DEF SignInStep

LEMMA EntraType ==
    ASSUME TypeOK,
           \/ \E n \in Families : Revoke(n)
           \/ \E a \in Accounts : SignInExchange(a)
           \/ Restart
    PROVE  TypeOK'
<1> USE DEF kv, entra, memory
<1>1. ASSUME NEW n \in Families, Revoke(n) PROVE TypeOK'
  <2>1. [aad[n] EXCEPT !.alive = FALSE]
           \in [ver : 0..MaxVersion, alive : BOOLEAN, lost : BOOLEAN]
    BY DEF TypeOK
  <2>2. aad' = [aad EXCEPT ![n] = [aad[n] EXCEPT !.alive = FALSE]]
    BY <1>1 DEF Revoke, TypeOK
  <2>3. QED BY <1>1, <2>1, <2>2 DEF Revoke, TypeOK
<1>2. ASSUME NEW a \in Accounts, SignInExchange(a) PROVE TypeOK'
  <2>1. issued + 1 \in 0..MaxFamily
    BY <1>2, TokenAssumption DEF SignInExchange, TypeOK
  <2>2. PICK pc \in {"resetting", "storing"} :
           signin' = [pc |-> pc, acct |-> a, fam |-> issued + 1]
    BY <1>2 DEF SignInExchange
  <2>3. signin' \in SignIn
    BY <2>1, <2>2 DEF SignIn
  <2>4. QED BY <1>2, <2>1, <2>3 DEF SignInExchange, TypeOK
<1>3. ASSUME Restart PROVE TypeOK'
  <2>1. signin' \in SignIn
    BY <1>3, TokenAssumption DEF Restart, NoSignIn, SignIn, TypeOK
  <2>2. flights' \in [FlightId -> Flight]
    BY <1>3, FreeIsFlight DEF Restart
  <2>3. aad' \in [Families -> [ver : 0..MaxVersion, alive : BOOLEAN, lost : BOOLEAN]]
    <3>1. PICK served \in SUBSET {f \in FlightId :
                 /\ flights[f].pc = "posting"
                 /\ Usable(flights[f].held)
                 /\ flights[f].held.ver < MaxVersion} :
            aad' = [n \in Families |->
               [ver |-> IF \E f \in served : flights[f].held.fam = n
                        THEN aad[n].ver + 1 ELSE aad[n].ver,
                alive |-> aad[n].alive,
                lost |-> \/ aad[n].lost
                         \/ \E f \in served : flights[f].held.fam = n
                         \/ \E f \in FlightId :
                               /\ flights[f].pc \in {"answered", "storing"}
                               /\ flights[f].held.fam = n]]
      BY <1>3, Zenon DEF Restart
    <3>2. ASSUME NEW n \in Families, \E f \in served : flights[f].held.fam = n
          PROVE  aad[n].ver + 1 \in 0..MaxVersion
      <4>1. aad[n].ver \in 0..MaxVersion
        BY DEF TypeOK
      <4>2. aad[n].ver < MaxVersion
        BY <3>2 DEF Usable
      <4>3. QED BY <4>1, <4>2, TokenAssumption
    <3>3. QED BY <3>1, <3>2 DEF TypeOK
  <2>4. UNCHANGED <<tokens, identity, reauth, issued>>
        /\ generation' = 0 /\ chain' = None /\ substrate' = None
        /\ unavailable' = FALSE
        /\ inFlight' = [r \in Resources |-> None]
    BY <1>3 DEF Restart
  <2>5. 0 \in 0..MaxReset
    BY TokenAssumption
  <2>6. QED BY <2>1, <2>2, <2>3, <2>4, <2>5 DEF TypeOK
<1>4. QED BY <1>1, <1>2, <1>3

LEMMA LaunchKeeps ==
    ASSUME TypeOK, NEW r \in Resources, Launch(r), NEW g \in FlightId
    PROVE  flights'[g] = flights[g] \/ flights'[g].pc = "waiting"
BY DEF Launch, TypeOK, FreeFlight

LEMMA CallersKeep ==
    ASSUME TypeOK, Callers, NEW g \in FlightId
    PROVE  flights'[g] = flights[g] \/ flights'[g].pc = "waiting"
<1>1. flights' = flights \/ \E r \in Resources : Launch(r)
  BY DEF Callers, RefreshGraph, MintSubstrate, ForceSubstrate,
         MarkMyDayUnavailable, ClaimsChallenge, memory, Resources
<1>2. QED BY <1>1, LaunchKeeps

LEMMA HeldNext ==
    ASSUME TypeOK, Holds, Next
    PROVE  Holds'
<1> SUFFICES ASSUME NEW g \in FlightId, Running(g)'
             PROVE  flights'[g].held \in Token
  BY DEF Holds
<1> USE DEF Running, kv, entra, memory, FreeFlight
<1>1. CASE Callers
  BY <1>1, CallersKeep DEF Holds
<1>2. ASSUME NEW f \in FlightId, Body(f) PROVE flights'[g].held \in Token
  <2>1. CASE Load(f)
    BY <2>1 DEF Load, Settle, Holds, TypeOK, Flight
  <2>2. CASE Answer(f)
    <3>1. PICK a, v, gone : Answered(f, a, v, gone)
      BY <2>2 DEF Answer
    <3>2. flights[f].pc = "posting"
      BY <2>2 DEF Answer
    <3>3. flights' = [flights EXCEPT ![f] =
             [flights[f] EXCEPT !.pc = "answered", !.answer = a, !.ver = v]]
      BY <3>1 DEF Answered, TypeOK
    <3>4. flights'[g].held = flights[g].held /\ Running(g)
      BY <3>2, <3>3 DEF TypeOK, Flight
    <3>5. QED BY <3>4 DEF Holds
  <2>3. CASE FailedAnswer(f)
    BY <2>3 DEF FailedAnswer, Settle, Holds, TypeOK, Flight
  <2>4. CASE GoodAnswer(f)
    BY <2>4 DEF GoodAnswer, Settle, Holds, TypeOK, Flight
  <2>5. CASE Store(f)
    BY <2>5 DEF Store, Holds, TypeOK, Flight
  <2>6. CASE Finish(f)
    BY <2>6 DEF Finish, Settle, Holds, TypeOK, Flight
  <2>7. CASE LoadFails(f) \/ StoreFails(f)
    BY <2>7 DEF LoadFails, StoreFails, Settle, Holds, TypeOK, Flight
  <2>8. QED BY <1>2, <2>1, <2>2, <2>3, <2>4, <2>5, <2>6, <2>7 DEF Body
<1>3. CASE SignInStep
  BY <1>3 DEF SignInStep, ResetBegin, ResetFinish, WipeTokens, WipeIdentity,
       SignInStore, SignInMark, SignInClear, SignInDies, Holds
<1>4. CASE (\E n \in Families : Revoke(n)) \/ (\E a \in Accounts : SignInExchange(a))
  BY <1>4 DEF Revoke, SignInExchange, Holds
<1>5. CASE Restart
  BY <1>5 DEF Restart
<1>6. QED BY <1>1, <1>2, <1>3, <1>4, <1>5 DEF Next

LEMMA NamedNext ==
    ASSUME TypeOK, Named, Next
    PROVE  Named'
<1> USE DEF Named, kv, entra, memory, At, Goto, NoSignIn
<1>1. CASE UNCHANGED signin
  BY <1>1
<1>2. ASSUME NEW a \in Accounts, SignInExchange(a) PROVE Named'
  BY <1>2, TokenAssumption DEF SignInExchange, TypeOK, Families
<1>3. CASE SignInStep
  BY <1>3 DEF SignInStep, ResetBegin, ResetFinish, WipeTokens, WipeIdentity,
       SignInStore, SignInMark, SignInClear, SignInDies, TypeOK, SignIn
<1>4. CASE Restart
  BY <1>4 DEF Restart
<1>5. CASE Callers \/ (\E f \in FlightId : Body(f)) \/ (\E n \in Families : Revoke(n))
  <2>1. UNCHANGED signin
    BY <1>5 DEF Callers, RefreshGraph, MintSubstrate, ForceSubstrate,
         MarkMyDayUnavailable, ClaimsChallenge, Body, Load, Answer, Answered,
         FailedAnswer, GoodAnswer, Store, LoadFails, StoreFails, Finish, Revoke
  <2>2. QED BY <1>1, <2>1
<1>6. QED BY <1>2, <1>3, <1>4, <1>5 DEF Next

LEMMA InitTypeInv == Init => TypeInv
<1> SUFFICES ASSUME Init PROVE TypeInv
  OBVIOUS
<1>1. NoSignIn \in SignIn /\ 0 \in 0..MaxReset /\ 0 \in 0..MaxFamily
      /\ 0 \in 0..MaxVersion
  BY TokenAssumption DEF NoSignIn, SignIn
<1>2. TypeOK
  BY <1>1, FreeIsFlight DEF Init, TypeOK
<1>3. Holds /\ Named
  BY DEF Init, Holds, Running, Named, FreeFlight, NoSignIn
<1>4. QED BY <1>2, <1>3 DEF TypeInv

LEMMA NextTypeInv == TypeInv /\ [Next]_vars => TypeInv'
<1> SUFFICES ASSUME TypeInv, [Next]_vars PROVE TypeInv'
  OBVIOUS
<1>1. CASE Next
  <2>1. TypeOK'
    BY <1>1, CallersType, BodyType, SignInType, EntraType DEF Next, TypeInv
  <2>2. QED BY <1>1, <2>1, HeldNext, NamedNext DEF TypeInv
<1>2. CASE UNCHANGED vars
  BY <1>2 DEF vars, TypeInv, TypeOK, Holds, Running, Named
<1>3. QED BY <1>1, <1>2

\* The type invariant holds in every state.
THEOREM TypeCorrect == Spec => []TypeOK
<1>1. TypeInv => TypeOK
  BY DEF TypeInv
<1>2. QED BY <1>1, InitTypeInv, NextTypeInv, PTL DEF Spec

-----------------------------------------------------------------------------
(* The queue behind #refreshChain.                                          *)

LEMMA LaunchQueue ==
    ASSUME TypeOK, Queue, NEW r \in Resources, Launch(r), generation' = generation
    PROVE  Queue'
<1>1. PICK n \in FlightId :
         /\ flights[n].pc = "free"
         /\ flights' = [flights EXCEPT ![n] =
               [FreeFlight EXCEPT !.pc = "waiting", !.resource = r,
                                  !.gen = generation, !.prev = chain]]
         /\ inFlight' = [inFlight EXCEPT ![r] = n]
         /\ chain' = n
  BY DEF Launch
<1>2. /\ flights'[n].pc = "waiting" /\ flights'[n].resource = r
      /\ flights'[n].gen = generation /\ flights'[n].prev = chain
      /\ \A g \in FlightId : g # n => flights'[g] = flights[g]
  BY <1>1 DEF TypeOK, FreeFlight
<1>3. inFlight[r] = None /\ n # None
  BY TokenAssumption DEF Launch
<1>4. \A g \in FlightId : Live(g) => flights[g].resource # r /\ chain = g
  <2> SUFFICES ASSUME NEW g \in FlightId, Live(g)
               PROVE  flights[g].resource # r /\ chain = g
    OBVIOUS
  <2>1. flights[g].resource # r
    BY <1>3, TokenAssumption DEF Queue, LiveHasSlot
  <2>2. ASSUME chain # g PROVE FALSE
    <3>1. chain \in FlightId /\ Live(chain) /\ flights[chain].prev = g
      BY <2>2 DEF Queue, ChainIsLast, ChainIsLive, TypeOK
    <3>2. flights[chain].resource # r
      BY <1>3, <3>1, TokenAssumption DEF Queue, LiveHasSlot
    <3>3. flights[chain].resource = flights[g].resource
      BY <2>1, <3>1, <3>2 DEF TypeOK, Flight, Resources
    <3>4. QED BY <2>2, <3>1, <3>3 DEF Queue, LiveHasSlot
  <2>3. QED BY <2>1, <2>2
<1> USE DEF Active, Live, Current
<1>5. SlotIsLive'
  BY <1>1, <1>2, <1>3 DEF Queue, SlotIsLive, TypeOK
<1>6. LiveHasSlot'
  BY <1>1, <1>2, <1>4 DEF Queue, LiveHasSlot, TypeOK, Flight
<1>7. ChainIsLive' /\ ChainIsLast'
  <2>1. ChainIsLive'
    BY <1>1, <1>2 DEF ChainIsLive
  <2>2. ASSUME NEW g \in FlightId, Live(g)', g # n
        PROVE  flights'[n].prev = g
    BY <1>2, <1>4, <2>2
  <2>3. QED BY <1>1, <1>3, <2>1, <2>2 DEF ChainIsLast
<1>8. OnlyWaitersWait' /\ NoFutureFlight'
  BY <1>2 DEF Queue, OnlyWaitersWait, NoFutureFlight, TypeOK
<1>9. Ordered'
  BY <1>1, <1>2, <1>4 DEF Queue, Ordered, TypeOK
<1>10. QED BY <1>5, <1>6, <1>7, <1>8, <1>9 DEF Queue

LEMMA SettleQueue ==
    ASSUME TypeOK, Queue, NEW f \in FlightId, flights[f].prev = None, Settle(f),
           generation' = generation
    PROVE  Queue'
<1>1. /\ flights'[f].pc = "free" /\ flights'[f].prev = None /\ flights'[f].gen = 0
      /\ \A g \in FlightId : g # f =>
            /\ flights'[g].pc = flights[g].pc
            /\ flights'[g].resource = flights[g].resource
            /\ flights'[g].gen = flights[g].gen
            /\ flights'[g].prev = IF flights[g].prev = f THEN None ELSE flights[g].prev
  BY DEF Settle, FreeFlight, TypeOK, Flight
<1>2. /\ chain' = IF chain = f THEN None ELSE chain
      /\ \A r \in Resources : inFlight'[r] = IF inFlight[r] = f THEN None ELSE inFlight[r]
  BY DEF Settle
<1> USE DEF Active, Live, Current
<1>3. SlotIsLive'
  BY <1>1, <1>2 DEF Queue, SlotIsLive, TypeOK
<1>4. LiveHasSlot'
  BY <1>1, <1>2 DEF Queue, LiveHasSlot, TypeOK, Flight
<1>5. ChainIsLive'
  BY <1>1, <1>2 DEF Queue, ChainIsLive, TypeOK
<1>6. ChainIsLast'
  <2> SUFFICES ASSUME NEW g \in FlightId, Live(g)', g # chain'
               PROVE  chain' # None /\ flights'[chain'].prev = g
    BY DEF ChainIsLast
  <2>1. g # f /\ Live(g)
    BY <1>1
  <2>2. g # chain
    BY <1>2, <2>1
  <2>3. chain # None /\ flights[chain].prev = g
    BY <2>1, <2>2 DEF Queue, ChainIsLast
  <2>4. chain # f
    BY <2>3, TokenAssumption
  <2>5. QED BY <1>1, <1>2, <2>1, <2>3, <2>4 DEF TypeOK
<1>7. OnlyWaitersWait' /\ NoFutureFlight'
  BY <1>1 DEF Queue, OnlyWaitersWait, NoFutureFlight, TypeOK
<1>8. Ordered'
  BY <1>1 DEF Queue, Ordered
<1>9. QED BY <1>3, <1>4, <1>5, <1>6, <1>7, <1>8 DEF Queue

\* A flight that is not waiting for another moves on without settling.
LEMMA StepQueue ==
    ASSUME TypeOK, Queue, NEW f \in FlightId, flights[f].prev = None,
           Active(f), Active(f)',
           flights'[f].resource = flights[f].resource,
           flights'[f].gen = flights[f].gen, flights'[f].prev = flights[f].prev,
           \A g \in FlightId : g # f => flights'[g] = flights[g],
           UNCHANGED <<inFlight, chain, generation>>
    PROVE  Queue'
<1> USE DEF Active, Live, Current
<1>1. SlotIsLive' /\ LiveHasSlot'
  BY DEF Queue, SlotIsLive, LiveHasSlot, TypeOK
<1>2. ChainIsLive' /\ ChainIsLast'
  BY DEF Queue, ChainIsLive, ChainIsLast, TypeOK
<1>3. OnlyWaitersWait' /\ NoFutureFlight' /\ Ordered'
  BY DEF Queue, OnlyWaitersWait, NoFutureFlight, Ordered
<1>4. QED BY <1>1, <1>2, <1>3 DEF Queue

LEMMA BodyQueue ==
    ASSUME TypeOK, Queue, NEW f \in FlightId, Body(f)
    PROVE  Queue'
<1>1. flights[f].prev = None
  <2>1. CASE Load(f) \/ LoadFails(f)
    BY <2>1 DEF Load, LoadFails
  <2>2. CASE ~(Load(f) \/ LoadFails(f))
    <3>1. flights[f].pc # "waiting"
      BY <2>2 DEF Body, Answer, FailedAnswer, GoodAnswer, Store, StoreFails, Finish
    <3>2. QED BY <3>1 DEF Queue, OnlyWaitersWait
  <2>3. QED BY <2>1, <2>2
<1>2. generation' = generation
  BY DEF Body, Load, Answer, Answered, FailedAnswer, GoodAnswer, Store, LoadFails,
         StoreFails, Finish
<1>3. CASE Settle(f)
  BY <1>1, <1>2, <1>3, SettleQueue
<1>4. CASE ~Settle(f)
  <2>1. Active(f) /\ UNCHANGED <<inFlight, chain>>
    BY <1>4 DEF Body, Load, Answer, Answered, FailedAnswer, GoodAnswer, Store,
                LoadFails, StoreFails, Finish, Active
  <2>2. PICK fl : /\ flights' = [flights EXCEPT ![f] = fl]
                  /\ fl.pc # "free" /\ fl.resource = flights[f].resource
                  /\ fl.gen = flights[f].gen /\ fl.prev = flights[f].prev
    <3>1. CASE Load(f)
      <4> DEFINE fl == [flights[f] EXCEPT !.pc = "posting", !.held = tokens]
      <4>1. flights' = [flights EXCEPT ![f] = fl]
        BY <1>4, <3>1 DEF Load, TypeOK
      <4>2. fl.pc # "free" /\ fl.resource = flights[f].resource
            /\ fl.gen = flights[f].gen /\ fl.prev = flights[f].prev
        BY DEF TypeOK, Flight
      <4> HIDE DEF fl
      <4>3. QED BY <4>1, <4>2
    <3>2. CASE Answer(f)
      <4>1. PICK a, v, gone : Answered(f, a, v, gone)
        BY <3>2 DEF Answer
      <4> DEFINE fl == [flights[f] EXCEPT !.pc = "answered", !.answer = a, !.ver = v]
      <4>2. flights' = [flights EXCEPT ![f] = fl]
        BY <4>1 DEF Answered, TypeOK
      <4>3. fl.pc # "free" /\ fl.resource = flights[f].resource
            /\ fl.gen = flights[f].gen /\ fl.prev = flights[f].prev
        BY DEF TypeOK, Flight
      <4> HIDE DEF fl
      <4>4. QED BY <4>2, <4>3
    <3>3. CASE GoodAnswer(f)
      <4>1. PICK pc \in {"finishing", "storing"} :
               flights' = [flights EXCEPT ![f].pc = pc]
        BY <1>4, <3>3 DEF GoodAnswer
      <4> DEFINE fl == [flights[f] EXCEPT !.pc = pc]
      <4>2. flights' = [flights EXCEPT ![f] = fl]
        BY <4>1 DEF TypeOK
      <4>3. fl.pc # "free" /\ fl.resource = flights[f].resource
            /\ fl.gen = flights[f].gen /\ fl.prev = flights[f].prev
        BY DEF TypeOK, Flight
      <4> HIDE DEF fl
      <4>4. QED BY <4>2, <4>3
    <3>4. CASE Store(f)
      <4> DEFINE fl == [flights[f] EXCEPT !.pc = "finishing"]
      <4>1. flights' = [flights EXCEPT ![f] = fl]
        BY <3>4 DEF Store, TypeOK
      <4>2. fl.pc # "free" /\ fl.resource = flights[f].resource
            /\ fl.gen = flights[f].gen /\ fl.prev = flights[f].prev
        BY DEF TypeOK, Flight
      <4> HIDE DEF fl
      <4>3. QED BY <4>1, <4>2
    <3>5. QED
      BY <1>4, <3>1, <3>2, <3>3, <3>4
      DEF Body, FailedAnswer, LoadFails, StoreFails, Finish
  <2>3. /\ Active(f)'
        /\ flights'[f].resource = flights[f].resource
        /\ flights'[f].gen = flights[f].gen /\ flights'[f].prev = flights[f].prev
        /\ \A g \in FlightId : g # f => flights'[g] = flights[g]
    BY <2>2 DEF Active, TypeOK
  <2>4. QED BY <1>1, <1>2, <2>1, <2>3, StepQueue
<1>5. QED BY <1>3, <1>4

LEMMA ResetQueue ==
    ASSUME TypeOK, Queue, ResetBegin \/ Restart
    PROVE  Queue'
<1> USE DEF Active, Live, Current
<1>1. CASE ResetBegin
  <2>1. /\ generation' = generation + 1 /\ chain' = None
        /\ inFlight' = [r \in Resources |-> None] /\ flights' = flights
    BY <1>1 DEF ResetBegin
  <2>2. \A g \in FlightId : flights[g].gen \in Int /\ flights[g].gen <= generation
    BY DEF Queue, NoFutureFlight, TypeOK, Flight
  <2>3. generation \in Int
    BY DEF TypeOK
  <2>4. \A g \in FlightId : ~Live(g)'
    BY <2>1, <2>2, <2>3
  <2>5. NoFutureFlight'
    BY <2>1, <2>2, <2>3 DEF NoFutureFlight
  <2>6. SlotIsLive' /\ LiveHasSlot' /\ ChainIsLive' /\ ChainIsLast'
    BY <2>1, <2>4 DEF SlotIsLive, LiveHasSlot, ChainIsLive, ChainIsLast
  <2>7. OnlyWaitersWait' /\ Ordered'
    BY <2>1 DEF Queue, OnlyWaitersWait, Ordered
  <2>8. QED BY <2>5, <2>6, <2>7 DEF Queue
<1>2. CASE Restart
  BY <1>2 DEF Restart, Queue, SlotIsLive, LiveHasSlot, ChainIsLive, ChainIsLast,
              OnlyWaitersWait, NoFutureFlight, Ordered, FreeFlight
<1>3. QED BY <1>1, <1>2

\* No step outside these touches the refresher's queue.
LEMMA NextQueue ==
    ASSUME TypeOK, Queue, Next
    PROVE  Queue'
<1>1. CASE UNCHANGED <<inFlight, chain, generation, flights>>
  BY <1>1 DEF Queue, SlotIsLive, LiveHasSlot, ChainIsLive, ChainIsLast,
              OnlyWaitersWait, NoFutureFlight, Ordered, Active, Live, Current
<1>2. CASE Callers
  <2>1. generation' = generation
    BY <1>2 DEF Callers, RefreshGraph, MintSubstrate, ForceSubstrate,
                MarkMyDayUnavailable, ClaimsChallenge, memory
  <2>2. \/ \E r \in Resources : Launch(r)
        \/ UNCHANGED <<inFlight, chain, generation, flights>>
    BY <1>2 DEF Callers, RefreshGraph, MintSubstrate, ForceSubstrate,
                MarkMyDayUnavailable, ClaimsChallenge, memory, Resources
  <2>3. QED BY <1>1, <2>1, <2>2, LaunchQueue
<1>3. CASE \E f \in FlightId : Body(f)
  BY <1>3, BodyQueue
<1>4. CASE ResetBegin \/ Restart
  BY <1>4, ResetQueue
<1>5. CASE /\ ~ResetBegin
           /\ \/ \E n \in Families : Revoke(n)
              \/ \E a \in Accounts : SignInExchange(a)
              \/ SignInStep
  <2>1. UNCHANGED <<inFlight, chain, generation, flights>>
    BY <1>5 DEF Revoke, SignInExchange, SignInStep, ResetFinish, WipeTokens,
         WipeIdentity, SignInStore, SignInMark, SignInClear, SignInDies, memory
  <2>2. QED BY <1>1, <2>1
<1>6. QED BY <1>2, <1>3, <1>4, <1>5 DEF Next

LEMMA InitQueue == Init => Queue
BY DEF Init, Queue, SlotIsLive, LiveHasSlot, ChainIsLive, ChainIsLast,
       OnlyWaitersWait, NoFutureFlight, Ordered, FreeFlight, Active, Live,
       Current

LEMMA NextQueueInv == TypeOK /\ Queue /\ [Next]_vars => Queue'
<1> SUFFICES ASSUME TypeOK, Queue, UNCHANGED vars PROVE Queue'
  BY NextQueue
<1>1. QED
  BY DEF vars, Queue, SlotIsLive, LiveHasSlot, ChainIsLive, ChainIsLast,
         OnlyWaitersWait, NoFutureFlight, Ordered, Active, Live, Current

\* "One /token in flight at a time" (index-core.ts:310-312): refreshes that
\* were launched under the same identity are past the chain one at a time.
THEOREM SerialRefresh == Spec => []SingleFlight
<1>1. Queue => SingleFlight
  BY TokenAssumption DEF Queue, Ordered, OnlyWaitersWait, SingleFlight, Running,
                         Active
<1>2. QED BY <1>1, InitQueue, NextQueueInv, TypeCorrect, PTL DEF Spec

-----------------------------------------------------------------------------
(* The stored refresh token.                                                *)

\* Where refreshes and resets do not overlap, a pending flight belongs to the
\* current identity and none is pending while the records are wiped.
Wiping == signin.pc \in {"teardown", "wipeTokens", "wipeIdentity"}
Alone  == \A f \in FlightId : Active(f) => Current(f) /\ ~Wiping

\* Nobody holds a family that was not issued, and none such was rotated.
Numbered ==
    /\ tokens # None => tokens.fam <= issued
    /\ \A f \in FlightId : Running(f) => flights[f].held.fam <= issued
    /\ \A n \in Families : n > issued => aad[n].ver = 0

\* A callback that has yet to store its family is the only one to know it.
Unstored == signin.pc \in {"resetting", "teardown", "wipeTokens",
                           "wipeIdentity", "storing"}
Unspent ==
    Unstored => /\ signin.fam = issued /\ aad[issued].ver = 0
                /\ tokens # None => tokens.fam < issued
                /\ \A f \in FlightId : Running(f) => flights[f].held.fam < issued

\* Until a flight stores, the record it loaded is still the stored one or a
\* later sign-in has replaced it; a good answer is the newest of its family.
Spending(f) == flights[f].pc \in {"posting", "answered", "storing"}
Loaded ==
    \A f \in FlightId : Spending(f) =>
        \/ tokens = flights[f].held
        \/ (tokens # None /\ flights[f].held.fam < tokens.fam)
AnswerIsNewest ==
    \A f \in FlightId :
        /\ flights[f].pc \in {"answered", "storing"} /\ flights[f].answer = "ok"
              => flights[f].ver = aad[flights[f].held.fam].ver
        /\ flights[f].pc = "storing" => flights[f].answer = "ok"

Newest == /\ Alone /\ Numbered /\ Unspent /\ Loaded /\ AnswerIsNewest
          /\ StoredTokenIsNewest

\* What Newest says of a flight that is past Load.
Told(f) == <<flights[f].pc, flights[f].held, flights[f].answer, flights[f].ver>>

\* A step that only launches, or settles a flight that carries nothing.
LEMMA QuietNewest ==
    ASSUME Newest, UNCHANGED <<tokens, aad, issued, signin, generation>>,
           \A g \in FlightId : Running(g)' => Told(g)' = Told(g),
           \A g \in FlightId : Active(g)' =>
              \/ Active(g) /\ flights'[g].gen = flights[g].gen
              \/ (flights'[g].gen = generation /\ ~Wiping),
           \A g \in FlightId : Carries(g, tokens) => Told(g)' = Told(g)
    PROVE  Newest'
<1> USE DEF Told
<1>1. \A g \in FlightId : Running(g)' =>
         /\ Running(g) /\ flights'[g].pc = flights[g].pc
         /\ flights'[g].held = flights[g].held
         /\ flights'[g].answer = flights[g].answer
         /\ flights'[g].ver = flights[g].ver
  BY DEF Running
<1>2. Alone'
  BY DEF Newest, Alone, Wiping, Current
<1>3. Numbered' /\ Unspent'
  BY <1>1 DEF Newest, Numbered, Unspent, Unstored
<1>4. Loaded' /\ AnswerIsNewest'
  BY <1>1 DEF Newest, Loaded, AnswerIsNewest, Spending, Running
<1>5. \A g \in FlightId : Carries(g, tokens) => Carries(g, tokens)'
  BY DEF Carries
<1>6. StoredTokenIsNewest'
  BY <1>5 DEF Newest, StoredTokenIsNewest
<1>7. QED BY <1>2, <1>3, <1>4, <1>6 DEF Newest

LEMMA LaunchNewest ==
    ASSUME TypeOK, Newest, ~Overlap, NEW r \in Resources, Launch(r),
           UNCHANGED <<tokens, aad, issued, signin, generation>>
    PROVE  Newest'
<1>1. PICK n \in FlightId :
         /\ flights[n].pc = "free"
         /\ flights' = [flights EXCEPT ![n] =
               [FreeFlight EXCEPT !.pc = "waiting", !.resource = r,
                                  !.gen = generation, !.prev = chain]]
  BY DEF Launch
<1>2. /\ flights'[n].pc = "waiting" /\ flights'[n].gen = generation
      /\ \A g \in FlightId : g # n => flights'[g] = flights[g]
  BY <1>1 DEF TypeOK, FreeFlight
<1>3. ~Wiping
  BY DEF Launch, Wiping
<1>4. \A g \in FlightId : Running(g)' \/ Carries(g, tokens) => g # n
  BY <1>1, <1>2 DEF Running, Carries
<1>5. \A g \in FlightId : g # n => Told(g)' = Told(g)
  BY <1>2 DEF Told
<1>6. QED BY <1>2, <1>3, <1>4, <1>5, QuietNewest DEF Active

LEMMA SettleNewest ==
    ASSUME TypeOK, Newest, NEW f \in FlightId, Settle(f), ~Carries(f, tokens),
           UNCHANGED <<tokens, aad, issued, signin, generation>>
    PROVE  Newest'
<1>1. /\ flights'[f].pc = "free"
      /\ \A g \in FlightId : g # f =>
            /\ Told(g)' = Told(g)
            /\ flights'[g].gen = flights[g].gen
  BY DEF Settle, FreeFlight, TypeOK, Flight, Told
<1>2. \A g \in FlightId : g # f /\ Active(g)' => Active(g)
  BY <1>1 DEF Active, Told
<1>3. QED BY <1>1, <1>2, QuietNewest DEF Active, Running

\* At most one flight is past Load.
LEMMA OnlyOne ==
    ASSUME TypeOK, Queue, Alone, NEW f \in FlightId, NEW g \in FlightId,
           Running(f), Running(g)
    PROVE  f = g
<1> SUFFICES ASSUME f # g PROVE FALSE
  OBVIOUS
<1>1. Active(f) /\ Active(g) /\ flights[f].gen = flights[g].gen
  BY DEF Running, Active, Alone, Current
<1>2. flights[f].prev = g \/ flights[g].prev = f
  BY <1>1 DEF Queue, Ordered
<1>3. QED BY <1>2, TokenAssumption DEF Queue, OnlyWaitersWait, Running

LEMMA LoadNewest ==
    ASSUME TypeOK, Queue, Newest, NEW f \in FlightId, Load(f)
    PROVE  Newest'
<1>1. UNCHANGED <<tokens, aad, issued, signin, generation>>
  BY DEF Load, kv, entra
<1>2. flights[f].pc = "waiting"
  BY DEF Load
<1>3. CASE Settle(f)
  BY <1>1, <1>2, <1>3, SettleNewest DEF Carries
<1>4. CASE /\ tokens # None
           /\ flights' = [flights EXCEPT ![f].pc = "posting", ![f].held = tokens]
  <2>1. /\ flights'[f].pc = "posting" /\ flights'[f].held = tokens
        /\ flights'[f].gen = flights[f].gen
        /\ \A g \in FlightId : g # f => flights'[g] = flights[g]
    BY <1>4 DEF TypeOK, Flight
  <2>2. Alone'
    BY <1>1, <1>2, <2>1 DEF Newest, Alone, Active, Wiping, Current
  <2>3. Numbered' /\ Unspent'
    BY <1>1, <1>4, <2>1 DEF Newest, Numbered, Unspent, Unstored, Running
  <2>4. Loaded' /\ AnswerIsNewest'
    BY <1>1, <2>1 DEF Newest, Loaded, AnswerIsNewest, Spending
  <2>5. \A g \in FlightId : Carries(g, tokens) => Carries(g, tokens)'
    BY <1>1, <1>2, <2>1 DEF Carries
  <2>6. StoredTokenIsNewest'
    BY <1>1, <2>5 DEF Newest, StoredTokenIsNewest
  <2>7. QED BY <2>2, <2>3, <2>4, <2>6 DEF Newest
<1>5. QED BY <1>3, <1>4 DEF Load

LEMMA AnswerNewest ==
    ASSUME TypeInv, Queue, Newest, NEW f \in FlightId, Answer(f)
    PROVE  Newest'
<1>1. PICK a, v, gone :
         /\ Answered(f, a, v, gone) /\ gone \in BOOLEAN
         /\ a = "ok" => ~gone
  <2> DEFINE A(a, v, gone) == Answered(f, a, v, gone)
             t == flights[f].held
  <2>1. \/ A("ok", t.ver + 1, FALSE) \/ A("ok", t.ver, FALSE)
        \/ A("refused", t.ver, FALSE) \/ A("unconsented", t.ver, FALSE)
        \/ A("failed", t.ver, FALSE) \/ A("failed", t.ver, TRUE)
    BY DEF Answer
  <2> HIDE DEF t
  <2>2. "ok" # "refused" /\ "ok" # "unconsented" /\ "ok" # "failed"
        /\ FALSE \in BOOLEAN /\ TRUE \in BOOLEAN
    OBVIOUS
  <2>3. QED BY <2>1, <2>2, Zenon
<1> DEFINE n == flights[f].held.fam
           top == IF gone THEN aad[n].ver + 1 ELSE IF a = "ok" THEN v ELSE aad[n].ver
<1>2. flights[f].pc = "posting" /\ Running(f) /\ Spending(f)
  BY DEF Answer, Running, Spending
<1>3. TypeOK /\ flights[f].held \in Token /\ n \in Families
  BY <1>2 DEF TypeInv, Holds, Token
<1>4. /\ flights'[f].pc = "answered" /\ flights'[f].answer = a
      /\ flights'[f].ver = v /\ flights'[f].held = flights[f].held
      /\ flights'[f].gen = flights[f].gen
      /\ \A g \in FlightId : g # f => flights'[g] = flights[g]
  BY <1>1, <1>3 DEF Answered, TypeOK, Flight
<1>5. /\ aad'[n].ver = top /\ (aad'[n].lost <=> (aad[n].lost \/ gone))
      /\ \A m \in Families : m # n => aad'[m] = aad[m]
  BY <1>1, <1>3 DEF Answered, TypeOK
<1> HIDE DEF top
<1>6. UNCHANGED <<tokens, issued, signin, generation>>
  BY <1>1 DEF Answered, kv
<1>7. n <= issued /\ (Unstored => n < issued)
  BY <1>2 DEF Newest, Numbered, Unspent
<1>8. Alone'
  BY <1>2, <1>4, <1>6 DEF Newest, Alone, Active, Wiping, Current
<1>9. Numbered' /\ Unspent'
  <2>1. \A g \in FlightId : Running(g)' =>
           Running(g) /\ flights'[g].held = flights[g].held
    BY <1>2, <1>4 DEF Running
  <2>2. \A m \in Families : m > issued => m # n
    BY <1>3, <1>7 DEF Families, TypeOK
  <2>3. Unstored => issued # n
    BY <1>3, <1>7 DEF Families, TypeOK
  <2>4. Unstored => issued \in Families
    BY DEF Newest, Unspent, Unstored, TypeInv, Named
  <2>5. QED BY <1>5, <1>6, <2>1, <2>2, <2>3, <2>4 DEF Newest, Numbered, Unspent, Unstored
<1>10. Loaded'
  BY <1>2, <1>4, <1>6 DEF Newest, Loaded, Spending
<1>11. \A g \in FlightId : Running(g) => g = f
  BY <1>2, <1>3, OnlyOne DEF Newest
<1>12. AnswerIsNewest'
  <2>1. \A g \in FlightId : Running(g)' => g = f
    BY <1>4, <1>11 DEF Running
  <2>2. a = "ok" => v = aad'[n].ver
    BY <1>1, <1>5 DEF top
  <2>3. QED BY <1>4, <2>1, <2>2 DEF AnswerIsNewest, Running
<1>13. StoredTokenIsNewest'
  <2> SUFFICES ASSUME tokens # None, ~aad'[tokens.fam].lost
               PROVE  \/ tokens.ver = aad'[tokens.fam].ver
                      \/ \E g \in FlightId : Carries(g, tokens)'
    BY <1>6 DEF StoredTokenIsNewest, Carries
  <2>1. tokens \in Token /\ tokens.fam \in Families
    BY <1>3 DEF TypeOK, Token
  <2>2. \A g \in FlightId : ~Carries(g, tokens)
    BY <1>2, <1>11 DEF Carries, Running
  <2>3. CASE tokens.fam # n
    <3>1. tokens.ver = aad[tokens.fam].ver
      BY <1>5, <2>1, <2>2, <2>3 DEF Newest, StoredTokenIsNewest
    <3>2. QED BY <1>5, <2>1, <2>3, <3>1
  <2>4. CASE tokens.fam = n
    <3>1. ~gone /\ ~aad[n].lost
      BY <1>5, <2>4
    <3>2. tokens.ver = aad[n].ver
      BY <2>2, <2>4, <3>1 DEF Newest, StoredTokenIsNewest
    <3>3. CASE a = "ok"
      <4>1. Carries(f, tokens)'
        BY <1>4, <1>5, <1>6, <2>4, <3>1, <3>3 DEF Carries, top
      <4>2. QED BY <4>1
    <3>4. CASE a # "ok"
      BY <1>5, <2>4, <3>1, <3>2, <3>4 DEF top
    <3>5. QED BY <3>3, <3>4
  <2>5. QED BY <2>3, <2>4
<1>14. QED BY <1>8, <1>9, <1>10, <1>12, <1>13 DEF Newest

LEMMA GoodNewest ==
    ASSUME TypeInv, Newest, NEW f \in FlightId, GoodAnswer(f)
    PROVE  Newest'
<1>1. UNCHANGED <<tokens, aad, issued, signin, generation>>
  BY DEF GoodAnswer, kv, entra
<1>2. flights[f].pc = "answered" /\ flights[f].answer = "ok" /\ Current(f)
  BY DEF GoodAnswer, Newest, Alone, Active
<1>3. TypeOK /\ flights[f].held \in Token
  BY <1>2 DEF TypeInv, Holds, Running
<1>4. PICK pc \in {"finishing", "storing"} :
         /\ flights' = [flights EXCEPT ![f].pc = pc]
         /\ pc = "finishing" => flights[f].ver = flights[f].held.ver
  BY <1>2 DEF GoodAnswer
<1>5. /\ flights'[f].pc = pc
      /\ flights'[f].held = flights[f].held /\ flights'[f].ver = flights[f].ver
      /\ flights'[f].gen = flights[f].gen /\ flights'[f].answer = flights[f].answer
      /\ \A g \in FlightId : g # f => flights'[g] = flights[g]
  BY <1>3, <1>4 DEF TypeOK, Flight
<1>6. Alone'
  BY <1>1, <1>2, <1>5 DEF Newest, Alone, Active, Wiping, Current
<1>7. Numbered' /\ Unspent'
  BY <1>1, <1>2, <1>5 DEF Newest, Numbered, Unspent, Unstored, Running
<1>8. Loaded' /\ AnswerIsNewest'
  BY <1>1, <1>2, <1>5 DEF Newest, Loaded, AnswerIsNewest, Spending
<1>9. StoredTokenIsNewest'
  <2> SUFFICES ASSUME tokens # None, ~aad[tokens.fam].lost,
                      tokens.ver # aad[tokens.fam].ver
               PROVE  \E g \in FlightId : Carries(g, tokens)'
    BY <1>1 DEF StoredTokenIsNewest, Carries
  <2>1. PICK g \in FlightId : Carries(g, tokens)
    BY DEF Newest, StoredTokenIsNewest
  <2>2. CASE g # f
    BY <1>1, <1>5, <2>1, <2>2 DEF Carries
  <2>3. CASE g = f /\ pc = "storing"
    BY <1>1, <1>5, <2>1, <2>3 DEF Carries
  <2>4. CASE g = f /\ pc = "finishing"
    <3>1. flights[f].held.fam = tokens.fam /\ flights[f].ver = aad[tokens.fam].ver
      BY <2>1, <2>4 DEF Carries
    <3>2. tokens = flights[f].held
      BY <1>2, <1>3, <3>1 DEF Newest, Loaded, Spending, Token, Families
    <3>3. QED BY <1>4, <2>4, <3>1, <3>2
  <2>5. QED BY <2>2, <2>3, <2>4
<1>10. QED BY <1>6, <1>7, <1>8, <1>9 DEF Newest

LEMMA StoreNewest ==
    ASSUME TypeInv, Queue, Newest, NEW f \in FlightId, Store(f)
    PROVE  Newest'
<1>1. UNCHANGED <<aad, issued, signin, generation>> /\ tokens' = NextTokens(f)
  BY DEF Store, entra
<1>2. flights[f].pc = "storing" /\ Running(f)
  BY DEF Store, Running
<1>3. TypeOK /\ flights[f].held \in Token
  BY <1>2 DEF TypeInv, Holds
<1>4. /\ flights'[f].pc = "finishing" /\ flights'[f].held = flights[f].held
      /\ flights'[f].gen = flights[f].gen
      /\ \A g \in FlightId : g # f => flights'[g] = flights[g]
  BY <1>3 DEF Store, TypeOK, Flight
<1>5. tokens'.fam = flights[f].held.fam /\ tokens'.ver = flights[f].ver
  BY <1>1, <1>3 DEF NextTokens, Token
<1>6. \A g \in FlightId : Running(g)' => g = f
  <2>1. \A g \in FlightId : Running(g) => g = f
    BY <1>2, <1>3, OnlyOne DEF Newest
  <2>2. QED BY <1>4, <2>1 DEF Running
<1>7. Alone'
  BY <1>1, <1>2, <1>4 DEF Newest, Alone, Active, Wiping, Current
<1>8. Numbered' /\ Unspent'
  <2>1. flights[f].held.fam <= issued /\ (Unstored => flights[f].held.fam < issued)
    BY <1>2 DEF Newest, Numbered, Unspent
  <2>2. QED BY <1>1, <1>4, <1>5, <1>6, <2>1 DEF Newest, Numbered, Unspent, Unstored
<1>9. Loaded' /\ AnswerIsNewest'
  BY <1>4, <1>6 DEF Loaded, AnswerIsNewest, Spending, Running
<1>10. StoredTokenIsNewest'
  BY <1>1, <1>2, <1>5 DEF Newest, AnswerIsNewest, StoredTokenIsNewest
<1>11. QED BY <1>7, <1>8, <1>9, <1>10 DEF Newest

\* A record that is not stored takes its family's newest token with it.
LEMMA StoreFailsNewest ==
    ASSUME TypeInv, Queue, Newest, NEW f \in FlightId, StoreFails(f)
    PROVE  Newest'
<1> DEFINE n == flights[f].held.fam
<1>1. UNCHANGED <<issued, signin, generation>>
  BY DEF StoreFails
<1>2. flights[f].pc = "storing" /\ Running(f)
  BY DEF StoreFails, Running
<1>3. TypeOK /\ flights[f].held \in Token /\ n \in Families
  BY <1>2 DEF TypeInv, Holds, Token
<1>4. /\ flights'[f].pc = "free"
      /\ \A g \in FlightId : g # f =>
            flights'[g].pc = flights[g].pc /\ flights'[g].gen = flights[g].gen
  BY <1>3 DEF StoreFails, Settle, FreeFlight, TypeOK, Flight
<1>5. \A g \in FlightId : ~Running(g)'
  <2>1. \A g \in FlightId : Running(g) => g = f
    BY <1>2, <1>3, OnlyOne DEF Newest
  <2>2. QED BY <1>4, <2>1 DEF Running
<1>6. Alone'
  BY <1>1, <1>4 DEF Newest, Alone, Active, Wiping, Current
<1>7. \A m \in Families : aad'[m].ver = aad[m].ver /\ (aad[m].lost => aad'[m].lost)
  BY <1>3 DEF StoreFails, TypeOK
<1>8. tokens' = tokens \/ (tokens'.fam = n /\ tokens'.ver = flights[f].ver)
  BY <1>3 DEF StoreFails, NextTokens, Token
<1>9. Numbered' /\ Unspent'
  <2>1. n <= issued /\ (Unstored => n < issued)
    BY <1>2 DEF Newest, Numbered, Unspent
  <2>2. Unstored => issued \in Families
    BY DEF Newest, Unspent, Unstored, TypeInv, Named
  <2>3. Numbered'
    BY <1>1, <1>5, <1>7, <1>8, <2>1 DEF Newest, Numbered
  <2>4. Unspent'
    BY <1>1, <1>5, <1>7, <1>8, <2>1, <2>2 DEF Newest, Unspent, Unstored
  <2> QED BY <2>3, <2>4
<1>10. Loaded' /\ AnswerIsNewest'
  BY <1>5 DEF Loaded, AnswerIsNewest, Spending, Running
<1>11. StoredTokenIsNewest'
  <2> SUFFICES ASSUME tokens' # None, ~aad'[tokens'.fam].lost
               PROVE  tokens'.ver = aad'[tokens'.fam].ver
    BY DEF StoredTokenIsNewest
  <2>1. flights[f].ver = aad[n].ver
    BY <1>2 DEF Newest, AnswerIsNewest
  <2>2. CASE tokens' = NextTokens(f)
    BY <1>3, <1>7, <2>1, <2>2 DEF NextTokens, Token
  <2>3. CASE tokens' = tokens /\ tokens' # NextTokens(f)
    <3>1. aad' = IF flights[f].ver = flights[f].held.ver THEN aad
                 ELSE [aad EXCEPT ![flights[f].held.fam].lost = TRUE]
      BY <2>3 DEF StoreFails
    <3>2. tokens \in Token /\ tokens.fam \in Families
      BY <1>3, <2>3 DEF TypeOK, Token
    <3>3. ~aad[tokens.fam].lost
      BY <1>7, <2>3, <3>2
    <3>4. CASE tokens.fam # n
      <4>1. \A g \in FlightId : ~Carries(g, tokens)
        BY <1>2, <1>3, <3>4, OnlyOne DEF Newest, Carries, Running
      <4>2. tokens.ver = aad[tokens.fam].ver
        BY <2>3, <3>3, <4>1 DEF Newest, StoredTokenIsNewest
      <4> QED BY <1>7, <2>3, <3>2, <4>2
    <3>5. CASE tokens.fam = n
      <4>1. flights[f].ver = flights[f].held.ver
        BY <1>3, <2>3, <3>1, <3>5 DEF TypeOK
      <4>2. tokens = flights[f].held
        BY <1>2, <1>3, <3>5 DEF Newest, Loaded, Spending, Token, Families
      <4> QED BY <1>7, <2>1, <2>3, <3>2, <3>5, <4>1, <4>2
    <3> QED BY <3>4, <3>5
  <2> QED BY <2>2, <2>3 DEF StoreFails
<1> QED BY <1>6, <1>9, <1>10, <1>11 DEF Newest

LEMMA BodyNewest ==
    ASSUME TypeInv, Queue, Newest, NEW f \in FlightId, Body(f)
    PROVE  Newest'
<1>1. CASE FailedAnswer(f)
  <2>1. Settle(f) /\ ~Carries(f, tokens)
        /\ UNCHANGED <<tokens, aad, issued, signin, generation>>
    BY <1>1 DEF FailedAnswer, Carries, kv, entra
  <2>2. QED BY <2>1, SettleNewest DEF TypeInv
<1>2. CASE Finish(f)
  <2>1. Settle(f) /\ ~Carries(f, tokens)
        /\ UNCHANGED <<tokens, aad, issued, signin, generation>>
    BY <1>2 DEF Finish, Carries, kv, entra
  <2>2. QED BY <2>1, SettleNewest DEF TypeInv
<1>3. CASE LoadFails(f)
  <2>1. Settle(f) /\ ~Carries(f, tokens)
        /\ UNCHANGED <<tokens, aad, issued, signin, generation>>
    BY <1>3 DEF LoadFails, Carries, kv, entra
  <2>2. QED BY <2>1, SettleNewest DEF TypeInv
<1>4. QED
  BY <1>1, <1>2, <1>3, LoadNewest, AnswerNewest, GoodNewest, StoreNewest,
     StoreFailsNewest DEF Body, TypeInv

\* The callback, and the reset it may need, with no flight pending.
LEMMA SignInNewest ==
    ASSUME TypeInv, Newest, ~Overlap,
           SignInStep \/ (\E a \in Accounts : SignInExchange(a))
    PROVE  Newest'
<1> USE DEF At, Goto, kv, memory, entra, NoSignIn
<1>1. flights' = flights /\ aad' = aad
  BY DEF SignInStep, SignInExchange, ResetBegin, ResetFinish, WipeTokens,
         WipeIdentity, SignInStore, SignInMark, SignInClear, SignInDies
<1>2. issued \in Nat /\ issued <= MaxFamily /\ generation \in Nat
      /\ signin \in SignIn /\ tokens \in Token \cup {None}
  BY TokenAssumption DEF TypeInv, TypeOK
<1>3. \A f \in FlightId : Running(f) =>
         Active(f) /\ flights[f].held \in Token /\ flights[f].held.fam \in Nat
  BY DEF TypeInv, Holds, Running, Active, Token, Families
<1>4. tokens # None => tokens.fam \in Nat
  BY <1>2 DEF Token, Families
<1>5. AnswerIsNewest'
  BY <1>1 DEF Newest, AnswerIsNewest
<1>6. ASSUME UNCHANGED tokens
      PROVE  Loaded' /\ StoredTokenIsNewest'
  BY <1>1, <1>6 DEF Newest, Loaded, StoredTokenIsNewest, Spending, Carries
<1>7. CASE \E a \in Accounts : SignInExchange(a)
  <2>1. /\ UNCHANGED <<tokens, generation>> /\ issued' = issued + 1
        /\ issued + 1 \in Families
        /\ signin'.pc \in {"resetting", "storing"} /\ signin'.fam = issued + 1
    BY <1>2, <1>7, TokenAssumption DEF SignInExchange, Families
  <2>2. Alone'
    BY <1>1, <2>1 DEF Newest, Alone, Wiping, Active, Current
  <2>3. aad[issued + 1].ver = 0
    BY <1>2, <2>1 DEF Newest, Numbered
  <2>4. \A n \in Families : n > issued + 1 => n > issued
    BY <1>2 DEF Families
  <2>5. Numbered' /\ Unspent'
    BY <1>1, <1>2, <1>3, <1>4, <2>1, <2>3, <2>4
       DEF Newest, Numbered, Unspent, Unstored, Running
  <2>6. QED BY <1>5, <1>6, <2>1, <2>2, <2>5 DEF Newest
<1>8. CASE SignInStore
  <2>1. /\ UNCHANGED <<issued, generation>> /\ signin'.pc = "marking"
        /\ tokens'.fam = signin.fam /\ tokens'.ver = 0 /\ Unstored
    BY <1>2, <1>8 DEF SignInStore, SignIn, Unstored
  <2>2. tokens' # None
    BY <1>8, TokenAssumption DEF SignInStore, TypeInv, Named, Families
  <2>3. Alone'
    BY <1>1, <2>1 DEF Newest, Alone, Wiping, Active, Current
  <2>4. Numbered' /\ Unspent'
    BY <1>1, <1>2, <2>1 DEF Newest, Numbered, Unspent, Unstored, Running
  <2>5. \A f \in FlightId : Running(f) => flights[f].held.fam < tokens'.fam
    BY <2>1 DEF Newest, Unspent
  <2>6. Loaded'
    BY <1>1, <2>2, <2>5 DEF Loaded, Spending, Running
  <2>7. StoredTokenIsNewest'
    BY <1>1, <2>1 DEF Newest, Unspent, StoredTokenIsNewest
  <2>8. QED BY <1>5, <2>3, <2>4, <2>6, <2>7 DEF Newest
<1>9. CASE WipeTokens
  <2>1. \A f \in FlightId : ~Active(f)
    BY <1>9 DEF WipeTokens, Newest, Alone, Wiping
  <2>2. tokens' = None /\ UNCHANGED <<issued, generation>>
        /\ signin' = [signin EXCEPT !.pc = "wipeIdentity"] /\ Unstored
    BY <1>9 DEF WipeTokens, Unstored
  <2>3. Alone' /\ Loaded' /\ StoredTokenIsNewest'
    BY <1>1, <2>1, <2>2 DEF Alone, Active, Loaded, Spending, StoredTokenIsNewest
  <2>4. Numbered' /\ Unspent'
    BY <1>1, <1>2, <2>2 DEF Newest, Numbered, Unspent, Unstored, Running, SignIn
  <2>5. QED BY <1>5, <2>3, <2>4 DEF Newest
<1>10. CASE ResetBegin
  <2>1. \A f \in FlightId : ~Active(f)
    BY <1>10 DEF ResetBegin, Active
  <2>2. UNCHANGED <<tokens, issued>> /\ Unstored
        /\ signin' = [signin EXCEPT !.pc = "teardown"]
    BY <1>10 DEF ResetBegin, Unstored
  <2>3. Alone'
    BY <1>1, <2>1 DEF Alone, Active
  <2>4. Numbered' /\ Unspent'
    BY <1>1, <1>2, <2>2 DEF Newest, Numbered, Unspent, Unstored, Running, SignIn
  <2>5. QED BY <1>5, <1>6, <2>2, <2>3, <2>4 DEF Newest
<1>11. CASE ResetFinish \/ WipeIdentity \/ SignInMark \/ SignInClear \/ SignInDies
  <2>1. /\ UNCHANGED <<tokens, issued, generation>>
        /\ Wiping' => Wiping
        /\ Unstored' => Unstored /\ signin'.fam = signin.fam
    BY <1>2, <1>11 DEF ResetFinish, WipeIdentity, SignInMark, SignInClear,
                       SignInDies, Unstored, Wiping, SignIn
  <2>2. Alone'
    BY <1>1, <2>1 DEF Newest, Alone, Active, Current
  <2>3. Numbered' /\ Unspent'
    BY <1>1, <2>1 DEF Newest, Numbered, Unspent, Running
  <2>4. QED BY <1>5, <1>6, <2>1, <2>2, <2>3 DEF Newest
<1>12. QED BY <1>7, <1>8, <1>9, <1>10, <1>11 DEF SignInStep

LEMMA RestartNewest ==
    ASSUME TypeInv, Newest, Restart
    PROVE  Newest'
<1> DEFINE kept(n) == \A f \in FlightId :
              flights[f].pc \in {"answered", "storing"} => flights[f].held.fam # n
<1>1. UNCHANGED <<tokens, issued>> /\ \A f \in FlightId : flights'[f].pc = "free"
  BY DEF Restart, kv, FreeFlight
<1>2. PICK served \in SUBSET {f \in FlightId : flights[f].pc = "posting"} :
         \A n \in Families :
            /\ (\A f \in served : flights[f].held.fam # n)
                  => aad'[n].ver = aad[n].ver
            /\ ~aad'[n].lost => /\ ~aad[n].lost /\ kept(n)
                                /\ \A f \in served : flights[f].held.fam # n
  <2>1. PICK served \in SUBSET {f \in FlightId : /\ flights[f].pc = "posting"
                                                 /\ Usable(flights[f].held)
                                                 /\ flights[f].held.ver < MaxVersion} :
           aad' = [n \in Families |->
             [ver |-> IF \E f \in served : flights[f].held.fam = n
                      THEN aad[n].ver + 1 ELSE aad[n].ver,
              alive |-> aad[n].alive,
              lost |-> \/ aad[n].lost
                       \/ \E f \in served : flights[f].held.fam = n
                       \/ \E f \in FlightId :
                             /\ flights[f].pc \in {"answered", "storing"}
                             /\ flights[f].held.fam = n]]
    BY Zenon DEF Restart
  <2> WITNESS served \in SUBSET {f \in FlightId : flights[f].pc = "posting"}
  <2>2. TAKE n \in Families
  <2>3. aad'[n].ver = (IF \E f \in served : flights[f].held.fam = n
                       THEN aad[n].ver + 1 ELSE aad[n].ver)
    BY <2>1
  <2>4. aad'[n].lost = (\/ aad[n].lost
                        \/ \E f \in served : flights[f].held.fam = n
                        \/ \E f \in FlightId :
                              /\ flights[f].pc \in {"answered", "storing"}
                              /\ flights[f].held.fam = n)
    BY <2>1
  <2>5. QED BY <2>3, <2>4
<1>3. \A f \in served : Running(f) /\ flights[f].held \in Token
  BY DEF Running, TypeInv, Holds
<1>4. \A n \in Families : n > issued => aad'[n].ver = 0
  <2> SUFFICES ASSUME NEW n \in Families, n > issued PROVE aad'[n].ver = 0
    OBVIOUS
  <2>1. \A f \in served : flights[f].held.fam \in Nat /\ flights[f].held.fam <= issued
    BY <1>3 DEF Newest, Numbered, Token, Families
  <2>2. \A f \in served : flights[f].held.fam # n
    BY <2>1 DEF TypeInv, TypeOK, Families
  <2>3. QED BY <1>2, <2>2 DEF Newest, Numbered
<1>5. Unstored => aad'[issued].ver = 0
  <2> SUFFICES ASSUME Unstored PROVE aad'[issued].ver = 0
    OBVIOUS
  <2>1. issued \in Families /\ aad[issued].ver = 0
    BY DEF Newest, Unspent, Unstored, TypeInv, Named
  <2>2. \A f \in served : flights[f].held.fam \in Nat /\ flights[f].held.fam < issued
    BY <1>3 DEF Newest, Unspent, Token, Families
  <2>3. \A f \in served : flights[f].held.fam # issued
    BY <2>1, <2>2 DEF Families
  <2>4. QED BY <1>2, <2>1, <2>3
<1>6. Unstored' => Unstored /\ signin' = signin
  BY DEF Restart, Unstored, NoSignIn
<1>7. Alone' /\ Loaded' /\ AnswerIsNewest'
  BY <1>1 DEF Alone, Active, Loaded, Spending, AnswerIsNewest
<1>8. Numbered' /\ Unspent'
  BY <1>1, <1>4, <1>5, <1>6 DEF Newest, Numbered, Unspent, Running
<1>9. StoredTokenIsNewest'
  <2> SUFFICES ASSUME tokens # None, ~aad'[tokens.fam].lost
               PROVE  tokens.ver = aad'[tokens.fam].ver
    BY <1>1 DEF StoredTokenIsNewest
  <2>1. tokens.fam \in Families
    BY DEF TypeInv, TypeOK, Token
  <2>2. ~aad[tokens.fam].lost /\ kept(tokens.fam)
        /\ aad'[tokens.fam].ver = aad[tokens.fam].ver
    BY <1>2, <2>1
  <2>3. \A f \in FlightId : ~Carries(f, tokens)
    BY <2>2 DEF Carries
  <2>4. QED BY <2>2, <2>3 DEF Newest, StoredTokenIsNewest
<1>10. QED BY <1>7, <1>8, <1>9 DEF Newest

LEMMA NextNewest ==
    ASSUME TypeInv, Queue, Newest, ~Overlap, Next
    PROVE  Newest'
<1>1. CASE Callers
  <2>1. UNCHANGED <<tokens, aad, issued, signin, generation>>
    BY <1>1 DEF Callers, RefreshGraph, MintSubstrate, ForceSubstrate,
                MarkMyDayUnavailable, ClaimsChallenge, memory, kv, entra
  <2>2. flights' = flights \/ \E r \in Resources : Launch(r)
    BY <1>1 DEF Callers, RefreshGraph, MintSubstrate, ForceSubstrate,
                MarkMyDayUnavailable, ClaimsChallenge, memory, Resources
  <2>3. CASE flights' = flights
    BY <2>1, <2>3, QuietNewest DEF Told, Active
  <2>4. QED BY <2>1, <2>2, <2>3, LaunchNewest DEF TypeInv
<1>2. CASE \E n \in Families : Revoke(n)
  <2>1. PICK m \in Families : aad' = [aad EXCEPT ![m].alive = FALSE]
    BY <1>2 DEF Revoke
  <2>2. UNCHANGED <<tokens, issued, signin, generation, flights>>
    BY <1>2 DEF Revoke, kv, memory
  <2>3. \A n \in Families : aad'[n].ver = aad[n].ver /\ aad'[n].lost = aad[n].lost
    BY <2>1 DEF TypeInv, TypeOK
  <2>4. /\ tokens # None => tokens.fam \in Families
        /\ Unstored => issued \in Families
        /\ \A f \in FlightId : Running(f) => flights[f].held.fam \in Families
    BY DEF TypeInv, TypeOK, Token, Holds, Newest, Unspent, Unstored, Named
  <2>5. Alone' /\ Numbered' /\ Unspent'
    BY <2>2, <2>3, <2>4 DEF Newest, Alone, Active, Current, Wiping, Numbered,
                            Unspent, Unstored, Running
  <2>6. Loaded' /\ AnswerIsNewest'
    BY <2>2, <2>3, <2>4 DEF Newest, Loaded, Spending, AnswerIsNewest, Running
  <2>7. StoredTokenIsNewest'
    BY <2>2, <2>3, <2>4 DEF Newest, StoredTokenIsNewest, Carries
  <2>8. QED BY <2>5, <2>6, <2>7 DEF Newest
<1>3. QED BY <1>1, <1>2, BodyNewest, SignInNewest, RestartNewest DEF Next

\* The stored refresh token is the newest of its sign-in, or its successor is
\* about to be stored, or an answer of the token endpoint was lost: whatever
\* refreshes, mints, failures, sign-ins and restarts there were, as long as no
\* refresh overlaps an identity reset (index-core.ts:407-446).
THEOREM NewestStored ==
    ASSUME ~Overlap
    PROVE  Spec => []StoredTokenIsNewest
<1>1. Init => TypeInv /\ Queue /\ Newest
  <2> SUFFICES ASSUME Init PROVE TypeInv /\ Queue /\ Newest
    OBVIOUS
  <2>1. TypeInv /\ Queue
    BY InitTypeInv, InitQueue
  <2>2. Newest
    BY DEF Init, Newest, Alone, Numbered, Unspent, Unstored, Loaded, Spending,
           AnswerIsNewest, StoredTokenIsNewest, Active, Running, FreeFlight, NoSignIn
  <2>3. QED BY <2>1, <2>2
<1>2. TypeInv /\ Queue /\ Newest /\ [Next]_vars => (TypeInv /\ Queue /\ Newest)'
  <2> SUFFICES ASSUME TypeInv, Queue, Newest, UNCHANGED vars PROVE Newest'
    BY NextTypeInv, NextQueueInv, NextNewest DEF TypeInv
  <2>1. QED
    BY DEF vars, Newest, Alone, Numbered, Unspent, Unstored, Loaded, Spending,
           AnswerIsNewest, StoredTokenIsNewest, Carries, Active, Running, Current,
           Wiping
<1>3. Newest => StoredTokenIsNewest
  BY DEF Newest
<1>4. QED BY <1>1, <1>2, <1>3, PTL DEF Spec
=============================================================================

------------------------------ MODULE GraphClient ------------------------------
(***************************************************************************)
(* One call of the Graph client (src/core/graph/client.ts fetchWithRetry,  *)
(* getAllPages) or of the Substrate client (substrate-client.ts            *)
(* #fetchWithRetry): a write is one request, a read is a request for each  *)
(* page.  A request is sent again when its access token was refused, once, *)
(* and when it was throttled, Max429 times; anything else ends the call.   *)
(*                                                                         *)
(* The service carries out a request at most when it answers 2xx, 5xx or   *)
(* nothing at all.  The wait before a retry is left out.                   *)
(***************************************************************************)
EXTENDS Integers

CONSTANTS
    Budgets,  \* MAX_429_RETRIES: 1 for Graph, 2 for Substrate, 0 for "fast"
    Pages,    \* pages of the collection that is read
    MaxBad    \* bound: answers in one call that are not 2xx

VARIABLES
    req,  \* the call: where it is, its request's two retry counters
    done, \* service: how often the current request was carried out
    met   \* what the current request met: refusals of its token, throttles,
          \* and answers that no retry is for

vars == <<req, done, met>>

Nothing == [expired |-> 0, throttled |-> 0, fatal |-> 0]
Bad == met.expired + met.throttled + met.fatal

TypeOK ==
    /\ req \in [pc : {"sent", "answered", "ok", "failed", "reauth"},
                kind : {"read", "write"}, max : Budgets, page : 1..Pages,
                retried401 : BOOLEAN, retried429 : 0..2,
                answer : {"none", "2xx", "401", "429", "claims", "4xx", "5xx"}]
    /\ done \in 0..(MaxBad + 1)
    /\ met \in [DOMAIN Nothing -> 0..MaxBad]

Init ==
    /\ \E kind \in {"read", "write"}, max \in Budgets :
          req = [pc |-> "sent", kind |-> kind, max |-> max, page |-> 1,
                 retried401 |-> FALSE, retried429 |-> 0, answer |-> "none"]
    /\ done = 0 /\ met = Nothing

-----------------------------------------------------------------------------
(* The service (external).                                                  *)

Answer(a, carriedOut, what) ==
    /\ req.pc = "sent"
    /\ what # "nothing" => Bad < MaxBad
    /\ req' = [req EXCEPT !.pc = "answered", !.answer = a]
    /\ done' = IF carriedOut THEN done + 1 ELSE done
    /\ met' = IF what = "nothing" THEN met ELSE [met EXCEPT ![what] = @ + 1]

Serve    == Answer("2xx", TRUE, "nothing")
Expired  == Answer("401", FALSE, "expired")
Throttle == Answer("429", FALSE, "throttled")
Refuse   == \E a \in {"4xx", "claims"} : Answer(a, FALSE, "fatal")
\* 5xx, or the connection breaks: nobody knows whether it was carried out.
Break    == \E carriedOut \in BOOLEAN : Answer("5xx", carriedOut, "fatal")

-----------------------------------------------------------------------------
(* fetchWithRetry().                                                        *)

Ended(pc) == req' = [req EXCEPT !.pc = pc] /\ UNCHANGED <<done, met>>

\* Mutant of Again: whether a request is sent again also after a 5xx.
AgainAfter5xx ==
    \/ req.answer = "401" /\ ~req.retried401
    \/ req.answer \in {"429", "5xx"} /\ req.retried429 < req.max

\* Whether the answer is one of the two a request is sent again for.
Again ==
    \/ req.answer = "401" /\ ~req.retried401
    \/ req.answer = "429" /\ req.retried429 < req.max

\* Sent again with a token from forceRefresh(), or after Retry-After.
Retry ==
    /\ req.pc = "answered" /\ Again
    /\ req' = [req EXCEPT !.pc = "sent",
                          !.retried401 = @ \/ req.answer = "401",
                          !.retried429 = IF req.answer = "401" THEN @ ELSE @ + 1]
    /\ UNCHANGED <<done, met>>

\* forceRefresh() throws.
RefreshFails ==
    /\ req.pc = "answered" /\ req.answer = "401" /\ Again
    /\ Bad < MaxBad
    /\ req' = [req EXCEPT !.pc = "failed"]
    /\ met' = [met EXCEPT !.fatal = @ + 1]
    /\ UNCHANGED done

\* A Conditional Access challenge is reported and ends the call, as does every
\* status that is left.
GiveUp ==
    /\ req.pc = "answered" /\ ~Again /\ req.answer # "2xx"
    /\ Ended(IF req.answer = "claims" THEN "reauth" ELSE "failed")

LastPage == req.kind = "write" \/ req.page = Pages

\* getAllPages(): the next page is a request of its own, with its own retries.
NextPage ==
    /\ req.pc = "answered" /\ req.answer = "2xx" /\ ~LastPage
    /\ req' = [req EXCEPT !.pc = "sent", !.page = @ + 1, !.retried401 = FALSE,
                          !.retried429 = 0]
    /\ done' = 0 /\ met' = Nothing

Finish ==
    /\ req.pc = "answered" /\ req.answer = "2xx" /\ LastPage
    /\ Ended("ok")

\* The body of a 2xx is not JSON, or not of the schema: the call throws.
Unreadable ==
    /\ req.pc = "answered" /\ req.answer = "2xx" /\ Bad < MaxBad
    /\ req' = [req EXCEPT !.pc = "failed"]
    /\ met' = [met EXCEPT !.fatal = @ + 1]
    /\ UNCHANGED done

Next == \/ Serve \/ Expired \/ Throttle \/ Refuse \/ Break
        \/ Retry \/ RefreshFails \/ GiveUp \/ NextPage \/ Finish
        \/ Unreadable

Spec == Init /\ [][Next]_vars

-----------------------------------------------------------------------------
(* Properties.                                                              *)

\* The retries never carry a write out twice, and a call told that its request
\* was refused or throttled has changed nothing: only a 5xx, or a 2xx whose body
\* cannot be read, leaves it open.
AtMostOnce ==
    /\ done <= 1
    /\ req.pc = "failed" /\ req.answer \notin {"2xx", "5xx"} => done = 0

\* An access token that expired and a throttle are both absorbed, in one request
\* and in any order: a call fails only for something no retry is for, or more
\* often than the budget.
Absorbs ==
    req.pc \in {"failed", "reauth"} =>
        met.fatal > 0 \/ met.expired > 1 \/ met.throttled > req.max

\* A read that answers has every page of the collection.
WholeCollection == req.pc = "ok" /\ req.kind = "read" => req.page = Pages
=============================================================================

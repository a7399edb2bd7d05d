--------------------------- MODULE MCTokenRefresh ---------------------------
(***************************************************************************)
(* Model values for TokenRefresh.  Promises are interchangeable, accounts  *)
(* are; the two kinds are permuted independently.                          *)
(***************************************************************************)
EXTENDS TokenRefresh, TLC

Symmetry == Permutations(FlightId) \cup Permutations(Accounts)

\* For liveness, where TLC's symmetry is not to be used: accounts being
\* interchangeable, the first to sign in may as well be this one.
First == CHOOSE a \in Accounts : TRUE

NextFrom == \/ Callers
            \/ \E f \in FlightId : Body(f)
            \/ \E n \in Families : Revoke(n)
            \/ \E a \in Accounts : (issued = 0 => a = First) /\ SignInExchange(a)
            \/ SignInStep
            \/ Restart

FairSpecFrom == Init /\ [][NextFrom]_vars /\ \A f \in FlightId : WF_vars(Body(f))
=============================================================================

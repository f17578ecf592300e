------------------------- MODULE MCRequestDispatch -------------------------
(* An instance of RequestDispatch for TLC. *)
EXTENDS RequestDispatch

CONSTANT First   \* one of the connections, which are interchangeable

\* The first request comes from First, and only the last one has no scope.
MCOffers ==
    [r \in Requests |-> {o \in Connections \X Scopes :
        (r = 1 => o[1] = First) /\ (r # MaxRequests => o[2][1] # NoKey)}]
============================================================================

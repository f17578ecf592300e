--------------------------- MODULE RevisionStore ---------------------------
(***************************************************************************)
(* What the workspace server promises the clients of its shared sessions   *)
(* (server/src/sessions.ts): each session is a compare-and-set register.   *)
(* A PATCH takes effect in one instant, on top of the very revision its    *)
(* sender named and under a revision larger than every earlier one, or is  *)
(* refused because another snapshot is the latest in that instant.  Row    *)
(* locks, statements and transactions are the business of SharedSession,   *)
(* which is shown to implement this.                                       *)
(***************************************************************************)
EXTENDS Naturals

CONSTANTS Keys, Clients, Data, NoData, Initial

VARIABLES
    live,    \* keys with a session row
    gone,    \* keys whose row was deleted
    latest,  \* key -> [rev, data] of its latest snapshot, rev 0 when it has none
    last,    \* the last revision given out
    req      \* client -> its request, or the answer to it

vars == <<live, gone, latest, last, req>>

Nothing == [rev |-> 0, data |-> NoData]
Idle    == [st |-> "idle"]
Request == [st : {"asked"}, key : Keys, base : Nat, data : Data]
Answer  == [st : {"accepted"}, rev : Nat] \union [st : {"refused"}]

Init ==
    /\ live = Initial /\ gone = {}
    /\ latest = [k \in Keys |-> Nothing] /\ last = 0
    /\ req = [c \in Clients |-> Idle]

Ask(c) ==
    /\ req[c] = Idle
    /\ req'[c] \in Request /\ req'[c].base <= last
    /\ req' = [req EXCEPT ![c] = req'[c]]
    /\ UNCHANGED <<live, gone, latest, last>>

Write(k, d) ==
    /\ latest' = [latest EXCEPT ![k] = [rev |-> last + 1, data |-> d]]
    /\ last' = last + 1

Accept(c) ==
    /\ req[c].st = "asked" /\ req[c].key \in live
    /\ req[c].base = latest[req[c].key].rev
    /\ Write(req[c].key, req[c].data)
    /\ req' = [req EXCEPT ![c] = [st |-> "accepted", rev |-> last + 1]]
    /\ UNCHANGED <<live, gone>>

Refuse(c) ==
    /\ req[c].st = "asked" /\ req[c].key \in live
    /\ req[c].base # latest[req[c].key].rev
    /\ req' = [req EXCEPT ![c] = [st |-> "refused"]]
    /\ UNCHANGED <<live, gone, latest, last>>

Create(c) ==
    /\ req[c] = Idle
    /\ req' = [req EXCEPT ![c] = [st |-> "accepted", rev |-> last + 1]]
    /\ \E k \in Keys \ (live \union gone) :
          /\ live' = live \union {k}
          /\ \E d \in Data : Write(k, d)
    /\ UNCHANGED gone

Delete(k) ==
    /\ k \in live
    /\ live' = live \ {k} /\ gone' = gone \union {k}
    /\ latest' = [latest EXCEPT ![k] = Nothing]
    /\ UNCHANGED <<last, req>>

\* The client takes the answer, or never sees it, or its request is lost or is for a
\* session without a row.
Finish(c) ==
    /\ req[c] # Idle
    /\ req' = [req EXCEPT ![c] = Idle]
    /\ UNCHANGED <<live, gone, latest, last>>

Next ==
    \/ \E c \in Clients : Ask(c) \/ Accept(c) \/ Refuse(c) \/ Create(c) \/ Finish(c)
    \/ \E k \in Keys : Delete(k)

Spec == Init /\ [][Next]_vars
=============================================================================

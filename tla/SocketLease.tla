---------------------------- MODULE SocketLease ----------------------------
(***************************************************************************)
(* What the tunnel broker promises (spec sections 4.1 and 8): each request *)
(* either leases an idle registered socket at once, or waits in a FIFO     *)
(* queue; a request that finishes hands its socket to the head waiter.     *)
(* Acquisition and hand-off are single atomic steps here; Tunnel splits    *)
(* them across awaits and refines this module.                             *)
(***************************************************************************)
EXTENDS Naturals, Sequences, FiniteSets

CONSTANTS Requests, SocketIds, ExpectedSockets, NoSocket

VARIABLES registered, queue, lease, status

avars == <<registered, queue, lease, status>>

Leased == {lease[r] : r \in {q \in Requests : status[q] = "leased"}}

IdleSockets == registered \ Leased

AInit ==
    /\ registered = {}
    /\ queue = << >>
    /\ lease = [r \in Requests |-> NoSocket]
    /\ status = [r \in Requests |-> "idle"]

Register(s) ==
    /\ s \notin registered
    /\ Cardinality(registered) < ExpectedSockets
    /\ registered' = registered \cup {s}
    /\ UNCHANGED <<queue, lease, status>>

\* While anyone waits, a new request joins the queue behind them.
Arrive(r) ==
    /\ status[r] = "idle"
    /\ IF queue = << >> /\ IdleSockets # {}
       THEN \E s \in IdleSockets :
               /\ lease' = [lease EXCEPT ![r] = s]
               /\ status' = [status EXCEPT ![r] = "leased"]
               /\ UNCHANGED queue
       ELSE /\ queue' = Append(queue, r)
            /\ status' = [status EXCEPT ![r] = "waiting"]
            /\ UNCHANGED lease
    /\ UNCHANGED registered

\* The socket goes straight to the longest waiter, never through idle.
Finish(r) ==
    /\ status[r] = "leased"
    /\ IF queue # << >>
       THEN LET w == Head(queue) IN
            /\ queue' = Tail(queue)
            /\ lease' = [lease EXCEPT ![r] = NoSocket, ![w] = lease[r]]
            /\ status' = [status EXCEPT ![r] = "done", ![w] = "leased"]
       ELSE /\ lease' = [lease EXCEPT ![r] = NoSocket]
            /\ status' = [status EXCEPT ![r] = "done"]
            /\ UNCHANGED queue
    /\ UNCHANGED registered

ANext ==
    \/ \E s \in SocketIds : Register(s)
    \/ \E r \in Requests : Arrive(r) \/ Finish(r)

ASpec == AInit /\ [][ANext]_avars
=============================================================================

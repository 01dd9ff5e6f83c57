------------------------------- MODULE Tunnel -------------------------------
(***************************************************************************)
(* TunnelManager of magnitude-remote (src/.../server/tunnel.ts): inbound   *)
(* HTTP requests are forwarded over a pool of tunnel web sockets, one      *)
(* request per socket, with a FIFO queue of waiters for a free socket.     *)
(* The reply on a socket is correlated to a request only through           *)
(* activeRequests[socket]: the wire frames carry no request id.            *)
(*                                                                         *)
(* Each request runs as an async task whose steps are separated by its     *)
(* awaits; phase[r] is the point it is suspended at:                       *)
(*   "idle"     handleRequest not called yet                               *)
(*   "queued"   its resolver is in socketWaitQueue                         *)
(*   "granted"  acquireTunnelSocket has returned a socket (held[r]) and    *)
(*              the continuation after `await` has not run yet             *)
(*   "sent"     request frame sent, awaiting responsePromise               *)
(*   "replied"  responsePromise resolved, continuation not yet run         *)
(*   "done"     the HTTP response has been returned                        *)
(* "granted" and "replied" are continuations waiting in the microtask      *)
(* queue.  Scheduling = "drain" is the JavaScript event loop: a new        *)
(* event (HTTP request, socket frame, registration) is dispatched only     *)
(* once the microtask queue is empty.  Scheduling = "interleave" is the    *)
(* cooperative model of the design, where any other step may run while a   *)
(* task is suspended at an await.                                          *)
(***************************************************************************)
EXTENDS Naturals, Sequences, FiniteSets, SequencesExt

CONSTANTS
    Requests,         \* request ids from createId(); never reused
    SocketIds,        \* tunnel socket ids the handshake layer may register
    ExpectedSockets,  \* constructor argument expectedSockets
    NoRequest,        \* activeRequests[s] undefined or null
    NoSocket,         \* a request that holds no socket
    Garbled,          \* a Buffer (non-text) frame from the peer
    Scheduling,       \* "drain" or "interleave"
    ReadyGate,        \* TRUE: traffic starts once ExpectedSockets registered
    PeerGarbles,      \* TRUE: the peer may answer with a Buffer frame
    SocketsClose,     \* TRUE: a tunnel web socket may close
    EmptyId           \* the socket id "", which is falsy

ASSUME ExpectedSockets \in Nat /\ Scheduling \in {"drain", "interleave"}
ASSUME ReadyGate \in BOOLEAN /\ PeerGarbles \in BOOLEAN /\ SocketsClose \in BOOLEAN

VARIABLES
    sockets,          \* Object.keys(this.sockets), in insertion order
    activeRequests,   \* this.activeRequests: socket -> request id
    pendingRequests,  \* keys of this.pendingRequests
    socketWaitQueue,  \* this.socketWaitQueue, one resolver per request
    phase,            \* where each request's async task is suspended
    held,             \* the local tunnelSocketId of each task
    response,         \* whose reply resolved each responsePromise
    toPeer,           \* request frames in flight on each socket
    fromPeer,         \* frames in flight from the peer on each socket
    arrival,          \* history: requests in the order handleRequest ran
    closed            \* registered sockets whose connection has closed

vars == <<sockets, activeRequests, pendingRequests, socketWaitQueue, phase,
          held, response, toPeer, fromPeer, arrival, closed>>

Phases == {"idle", "queued", "granted", "sent", "replied", "done"}

\* Continuations sitting in the microtask queue.
MicrotaskPending == \E r \in Requests : phase[r] \in {"granted", "replied"}

\* A new event may be dispatched by the event loop.
EventLoopFree == Scheduling = "interleave" \/ ~MicrotaskPending

\* A task that has obtained a socket and not yet let it go.
Holds(r) == phase[r] \in {"granted", "sent", "replied"}

Init ==
    /\ sockets = << >>
    /\ activeRequests = [s \in SocketIds |-> NoRequest]
    /\ pendingRequests = {}
    /\ socketWaitQueue = << >>
    /\ phase = [r \in Requests |-> "idle"]
    /\ held = [r \in Requests |-> NoSocket]
    /\ response = [r \in Requests |-> NoRequest]
    /\ toPeer = [s \in SocketIds |-> << >>]
    /\ fromPeer = [s \in SocketIds |-> << >>]
    /\ arrival = << >>
    /\ closed = {}

\* waitUntilReady() is an empty stub; ReadyGate models a caller that holds
\* traffic back until every expected socket has registered.
WaitUntilReady == ~ReadyGate \/ Len(sockets) = ExpectedSockets

\* Mutant: registerSocket without its capacity check.
RegisterSocketUnbounded(s) ==
    /\ EventLoopFree
    /\ s \notin ToSet(sockets)
    /\ sockets' = Append(sockets, s)
    /\ UNCHANGED <<activeRequests, pendingRequests, socketWaitQueue, phase,
                   held, response, toPeer, fromPeer, arrival, closed>>

\* registerSocket: the capacity check, then this.sockets[id] = ws.  A known
\* id keeps its place in key order and gets the new (open) connection; its
\* activeRequests entry is left as it was.  The throwing branch leaves the
\* state unchanged and is not a step.
RegisterSocket(s) ==
    /\ EventLoopFree
    /\ Len(sockets) < ExpectedSockets
    /\ IF s \in ToSet(sockets)
       THEN closed' = closed \ {s} /\ UNCHANGED sockets
       ELSE sockets' = Append(sockets, s) /\ UNCHANGED closed
    /\ UNCHANGED <<activeRequests, pendingRequests, socketWaitQueue, phase,
                   held, response, toPeer, fromPeer, arrival>>

\* Mutant: the find() without its !activeRequests[id] test.
FirstSocketIndex == SelectInSeq(sockets, LAMBDA s : TRUE)

\* Object.keys(this.sockets).find(id => !this.activeRequests[id]): index
\* of the first registered socket with no active request, 0 if none.
IdleSocketIndex == SelectInSeq(sockets, LAMBDA s : activeRequests[s] = NoRequest)

\* Mutant: acquireTunnelSocket without the "already waiters" branch.
AcquireIgnoringQueue(r) ==
    IF IdleSocketIndex > 0 /\ sockets[IdleSocketIndex] # EmptyId
    THEN /\ phase' = [phase EXCEPT ![r] = "granted"]
         /\ held' = [held EXCEPT ![r] = sockets[IdleSocketIndex]]
         /\ UNCHANGED socketWaitQueue
    ELSE /\ phase' = [phase EXCEPT ![r] = "queued"]
         /\ socketWaitQueue' = Append(socketWaitQueue, r)
         /\ UNCHANGED held

\* acquireTunnelSocket, synchronous part: join the queue if it is non-empty,
\* else return the first idle socket, else join the queue.  The found id is
\* tested for truthiness (`if (availableSocketId)`), so a first idle socket
\* whose id is "" counts as none.
AcquireTunnelSocket(r) ==
    IF socketWaitQueue = << >> /\ IdleSocketIndex > 0
       /\ sockets[IdleSocketIndex] # EmptyId
    THEN /\ phase' = [phase EXCEPT ![r] = "granted"]
         /\ held' = [held EXCEPT ![r] = sockets[IdleSocketIndex]]
         /\ UNCHANGED socketWaitQueue
    ELSE /\ phase' = [phase EXCEPT ![r] = "queued"]
         /\ socketWaitQueue' = Append(socketWaitQueue, r)
         /\ UNCHANGED held

\* waitForResponse up to its first await: register the pending request,
\* then acquire.
WaitForResponse(r) ==
    /\ pendingRequests' = pendingRequests \cup {r}
    /\ arrival' = Append(arrival, r)
    /\ AcquireTunnelSocket(r)

\* handleRequest: serialise the request (data abstracted away) and forward.
HandleRequest(r) ==
    /\ EventLoopFree
    /\ WaitUntilReady
    /\ phase[r] = "idle"
    /\ WaitForResponse(r)
    /\ UNCHANGED <<sockets, activeRequests, response, toPeer, fromPeer, closed>>

\* Mutant: releaseTunnelSocket taking the newest waiter (pop, not shift).
ReleaseToNewestWaiter(s, ph) ==
    IF socketWaitQueue # << >>
    THEN LET w == Last(socketWaitQueue) IN
         /\ socketWaitQueue' = Front(socketWaitQueue)
         /\ phase' = [ph EXCEPT ![w] = "granted"]
         /\ held' = [held EXCEPT ![w] = s]
    ELSE /\ phase' = ph
         /\ UNCHANGED <<socketWaitQueue, held>>

\* Mutant: releaseTunnelSocket that never hands the socket to a waiter.
ReleaseWithoutHandoff(s, ph) ==
    /\ phase' = ph
    /\ UNCHANGED <<socketWaitQueue, held>>

\* releaseTunnelSocket: hand the socket to the head waiter, if any.  The
\* waiter only resumes later, as a microtask ("granted").
ReleaseTunnelSocket(s, ph) ==
    IF socketWaitQueue # << >>
    THEN LET w == Head(socketWaitQueue) IN
         /\ socketWaitQueue' = Tail(socketWaitQueue)
         /\ phase' = [ph EXCEPT ![w] = "granted"]
         /\ held' = [held EXCEPT ![w] = s]
    ELSE /\ phase' = ph
         /\ UNCHANGED <<socketWaitQueue, held>>

\* Mutant: `const response = responsePromise` without the await: the task
\* sends, clears, releases and returns at once.
ClaimWithoutAwait(r) ==
    LET s == held[r] IN
    /\ phase[r] = "granted"
    /\ activeRequests' = [activeRequests EXCEPT ![s] = NoRequest]
    /\ toPeer' = [toPeer EXCEPT ![s] = Append(@, r)]
    /\ ReleaseTunnelSocket(s, [phase EXCEPT ![r] = "done"])
    /\ UNCHANGED <<sockets, pendingRequests, response, fromPeer, arrival, closed>>

\* Continuation after `await this.acquireTunnelSocket()`: record the active
\* request for the socket and send the frame on it.  send on a closed
\* ServerWebSocket drops the frame and does not throw.
Claim(r) ==
    LET s == held[r] IN
    /\ phase[r] = "granted"
    /\ activeRequests' = [activeRequests EXCEPT ![s] = r]
    /\ toPeer' = IF s \in closed THEN toPeer
                 ELSE [toPeer EXCEPT ![s] = Append(@, r)]
    /\ phase' = [phase EXCEPT ![r] = "sent"]
    /\ UNCHANGED <<sockets, pendingRequests, socketWaitQueue, held, response,
                   fromPeer, arrival, closed>>

\* The remote tunnel client answers the oldest request frame on a socket.
PeerServe(s) ==
    /\ s \notin closed
    /\ toPeer[s] # << >>
    /\ toPeer' = [toPeer EXCEPT ![s] = Tail(@)]
    /\ fromPeer' = [fromPeer EXCEPT ![s] = Append(@, Head(toPeer[s]))]
    /\ UNCHANGED <<sockets, activeRequests, pendingRequests, socketWaitQueue,
                   phase, held, response, arrival, closed>>

\* ... or sends a Buffer frame in its place.
PeerGarble(s) ==
    /\ PeerGarbles
    /\ s \notin closed
    /\ toPeer[s] # << >>
    /\ toPeer' = [toPeer EXCEPT ![s] = Tail(@)]
    /\ fromPeer' = [fromPeer EXCEPT ![s] = Append(@, Garbled)]
    /\ UNCHANGED <<sockets, activeRequests, pendingRequests, socketWaitQueue,
                   phase, held, response, arrival, closed>>

\* A registered connection closes; the frames in flight on it are lost.
\* TunnelManager has no close handler and no way to deregister a socket.
CloseSocket(s) ==
    /\ SocketsClose
    /\ s \in ToSet(sockets) \ closed
    /\ closed' = closed \cup {s}
    /\ toPeer' = [toPeer EXCEPT ![s] = << >>]
    /\ fromPeer' = [fromPeer EXCEPT ![s] = << >>]
    /\ UNCHANGED <<sockets, activeRequests, pendingRequests, socketWaitQueue,
                   phase, held, response, arrival>>

\* handleWebSocketMessage: a Buffer frame throws; so does a frame on a
\* socket with no active request (pendingRequests[null] is undefined).
\* Otherwise resolve the pending request of activeRequests[s]; resolving an
\* already settled promise has no effect.  Either way the frame is consumed.
HandleWebSocketMessage(s) ==
    LET m   == Head(fromPeer[s])
        rid == activeRequests[s]
    IN
    /\ EventLoopFree
    /\ fromPeer[s] # << >>
    /\ fromPeer' = [fromPeer EXCEPT ![s] = Tail(@)]
    /\ IF m # Garbled /\ rid # NoRequest /\ phase[rid] = "sent"
       THEN /\ phase' = [phase EXCEPT ![rid] = "replied"]
            /\ response' = [response EXCEPT ![rid] = m]
       ELSE UNCHANGED <<phase, response>>
    /\ UNCHANGED <<sockets, activeRequests, pendingRequests, socketWaitQueue,
                   held, toPeer, arrival, closed>>

\* Continuation after `await responsePromise`: clear the socket's active
\* request, release the socket and return the response.
Resume(r) ==
    LET s == held[r] IN
    /\ phase[r] = "replied"
    /\ activeRequests' = [activeRequests EXCEPT ![s] = NoRequest]
    /\ ReleaseTunnelSocket(s, [phase EXCEPT ![r] = "done"])
    /\ UNCHANGED <<sockets, pendingRequests, response, toPeer, fromPeer,
                   arrival, closed>>

Next ==
    \/ \E s \in SocketIds : RegisterSocket(s)
    \/ \E r \in Requests : HandleRequest(r) \/ Claim(r) \/ Resume(r)
    \/ \E s \in SocketIds : PeerServe(s) \/ PeerGarble(s) \/ CloseSocket(s)
    \/ \E s \in SocketIds : HandleWebSocketMessage(s)

Spec == Init /\ [][Next]_vars

\* Microtasks always run; the event loop dispatches every frame that has
\* arrived; the peer answers every request frame it receives.  New HTTP
\* requests and socket registrations come from outside and are not forced.
Fairness ==
    /\ \A r \in Requests : WF_vars(Claim(r)) /\ WF_vars(Resume(r))
    /\ \A s \in SocketIds : WF_vars(HandleWebSocketMessage(s))
    /\ \A s \in SocketIds : WF_vars(PeerServe(s) \/ PeerGarble(s))

FairSpec == Spec /\ Fairness

-----------------------------------------------------------------------------
TypeOK ==
    /\ sockets \in Seq(SocketIds) /\ Len(sockets) <= ExpectedSockets
    /\ activeRequests \in [SocketIds -> Requests \cup {NoRequest}]
    /\ pendingRequests \subseteq Requests
    /\ socketWaitQueue \in Seq(Requests)
    /\ phase \in [Requests -> Phases]
    /\ held \in [Requests -> SocketIds \cup {NoSocket}]
    /\ response \in [Requests -> Requests \cup {NoRequest}]
    /\ toPeer \in [SocketIds -> Seq(Requests)]
    /\ fromPeer \in [SocketIds -> Seq(Requests \cup {Garbled})]
    /\ arrival \in Seq(Requests)
    /\ closed \subseteq ToSet(sockets)

\* At most one request in flight per socket: no two tasks hold the same
\* socket between acquireTunnelSocket returning it and the release in
\* waitForResponse.  This is what lets a reply frame without an id be routed
\* through activeRequests.
ExclusiveSocket ==
    \A r1, r2 \in Requests :
        r1 # r2 /\ Holds(r1) /\ Holds(r2) => held[r1] # held[r2]

\* Round-trip correctness: the response handleRequest returns to a caller
\* (the value its responsePromise was resolved with) is the peer's answer
\* to that caller's own request frame.
ResponseCorrelation ==
    \A r \in Requests : phase[r] \in {"replied", "done"} => response[r] = r

\* FIFO fairness of acquireTunnelSocket: no request that called handleRequest
\* after a request still waiting in the queue has been given a socket.
FifoFairness ==
    \A i, j \in 1..Len(arrival) :
        /\ i < j
        /\ phase[arrival[i]] = "queued"
        => phase[arrival[j]] = "queued"

\* The state of the SocketLease abstraction that each task's phase stands for.
LeaseStatus(r) ==
    CASE phase[r] = "idle"   -> "idle"
      [] phase[r] = "queued" -> "waiting"
      [] phase[r] = "done"   -> "done"
      [] OTHER               -> "leased"

Lease == INSTANCE SocketLease WITH
            registered <- ToSet(sockets),
            queue      <- socketWaitQueue,
            lease      <- [r \in Requests |-> IF Holds(r) THEN held[r] ELSE NoSocket],
            status     <- [r \in Requests |-> LeaseStatus(r)]

\* The broker implements the atomic FIFO lease of spec section 4.1: a
\* socket returned by acquireTunnelSocket is idle and unleased, a request
\* overtakes no waiter, and releaseTunnelSocket passes the socket straight
\* to the head waiter.
ImplementsSocketLease == Lease!ASpec

\* Every request handed to handleRequest eventually gets its response.
EventuallyServed ==
    \A r \in Requests : phase[r] # "idle" ~> phase[r] = "done"
=============================================================================

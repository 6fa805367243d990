------------------------------ MODULE Listener ------------------------------
(***************************************************************************)
(* Server::Listen, the one loop over all endpoints, with the detached      *)
(* receiver threads it starts and the sends of the threads that answer.    *)
(* The loop and the senders share Server::fd_write without a lock, and     *)
(* select reads the set when it is entered and writes it when it returns.  *)
(*                                                                         *)
(* A thread blocked in recvfrom is like any other blocked on that socket,  *)
(* so they are counted.  A thread that received a datagram is named after  *)
(* it.  What it does before Server::Send is DhcpHandler's and a single     *)
(* step here.  fd_read and fd_except are only used by the loop, for the    *)
(* endpoint at hand: what select reports in fd_read is ready.              *)
(*                                                                         *)
(* A definition whose name ends in Bug is a wrong variant of the one after *)
(* it; the specification uses none of them.                                *)
(***************************************************************************)
EXTENDS Naturals, Sequences

CONSTANTS
    Endpoints,    \* the endpoints' identifiers
    Order,        \* the sequence in which Server::endpoints holds them
    Datagrams,    \* the datagrams that may arrive
    MaxWaiting    \* bound: receiver threads blocked on one endpoint

ASSUME OrderAssumption ==
    /\ Order \in Seq(Endpoints)
    /\ Len(Order) > 0
    /\ \A d \in Endpoints : \E k \in 1..Len(Order) : Order[k] = d

ASSUME MaxWaitingAssumption == MaxWaiting \in Nat \ {0}

VARIABLES
    at,        \* the position of the endpoint the loop is at
    stage,     \* what the loop does with it
    snapshot,  \* fd_write as select was given it
    ready,     \* select reported the endpoint in fd_read
    fdWrite,   \* Server::fd_write
    waiting,   \* waiting[d]: receiver threads blocked on the socket of d
    closeReq,  \* the endpoints with closeReq set
    closed,    \* the endpoints whose socket has been closed
    where,     \* where[g]: the endpoint datagram g was sent to
    phase      \* phase[g]: where datagram g, or its thread, is

loopVars == <<at, stage, snapshot, ready>>

vars == <<loopVars, fdWrite, waiting, closeReq, closed, where, phase>>

LoopStages == {"visit", "select", "dispatch"}

Phases == {"away", "queued", "discarded", "handle", "check", "zero", "set",
           "isset", "sendto", "sent", "unsent", "answered", "silent"}

\* The types of the loop's and the senders' state; blocked receivers are
\* never fewer than none.
TypeOK ==
    /\ at \in 1..Len(Order)
    /\ stage \in LoopStages
    /\ snapshot \in SUBSET Endpoints
    /\ ready \in BOOLEAN
    /\ fdWrite \in SUBSET Endpoints
    /\ waiting \in [Endpoints -> 0..MaxWaiting]
    /\ closeReq \in SUBSET Endpoints
    /\ closed \in SUBSET Endpoints
    /\ where \in [Datagrams -> Endpoints]
    /\ phase \in [Datagrams -> Phases]

Init ==
    /\ at = 1
    /\ stage = "visit"
    /\ snapshot = {}
    /\ ready = FALSE
    /\ fdWrite = {}
    /\ waiting = [d \in Endpoints |-> 0]
    /\ closeReq = {}
    /\ closed = {}
    /\ where \in [Datagrams -> Endpoints]
    /\ phase = [g \in Datagrams |-> "away"]

Queued(d) == \E g \in Datagrams : where[g] = d /\ phase[g] = "queued"

-----------------------------------------------------------------------------
(***************************************************************************)
(* The loop.                                                               *)
(***************************************************************************)

Endpoint == Order[at]

\* The loop goes on to the next endpoint, or to the next round.
Advance ==
    /\ at' = IF at = Len(Order) THEN 1 ELSE at + 1
    /\ stage' = "visit"
    /\ snapshot' = {}
    /\ ready' = FALSE

\* Bug: the endpoint is passed over and its socket stays open.
CloseEndpointBug ==
    /\ stage = "visit"
    /\ Endpoint \in closeReq
    /\ Advance
    /\ UNCHANGED <<fdWrite, waiting, closeReq, closed, where, phase>>

\* An endpoint that shall close is closed, in every round again.
CloseEndpoint ==
    /\ stage = "visit"
    /\ Endpoint \in closeReq
    /\ closed' = closed \cup {Endpoint}
    /\ Advance
    /\ UNCHANGED <<fdWrite, waiting, closeReq, where, phase>>

\* Bug: the endpoint is put into fd_write as it is into fd_read.
SelectEnterBug ==
    /\ stage = "visit"
    /\ Endpoint \notin closeReq
    /\ snapshot' = fdWrite \cup {Endpoint}
    /\ stage' = "select"
    /\ UNCHANGED <<at, ready, fdWrite, waiting, closeReq, closed, where, phase>>

\* Any other is handed to select, with fd_write as it is.
SelectEnter ==
    /\ stage = "visit"
    /\ Endpoint \notin closeReq
    /\ snapshot' = fdWrite
    /\ stage' = "select"
    /\ UNCHANGED <<at, ready, fdWrite, waiting, closeReq, closed, where, phase>>

\* A socket that was closed makes select fail; the sets stay as they are.
SelectFails ==
    /\ stage = "select"
    /\ (snapshot \cup {Endpoint}) \cap closed # {}
    /\ Advance
    /\ UNCHANGED <<fdWrite, waiting, closeReq, closed, where, phase>>

\* Bug: only the first endpoint of a round is put into fd_read.
SelectReturnBug ==
    /\ stage = "select"
    /\ (snapshot \cup {Endpoint}) \cap closed = {}
    /\ fdWrite' \in SUBSET snapshot
    /\ ready' = (Queued(Endpoint) /\ at = 1)
    /\ snapshot' = {}
    /\ stage' = "dispatch"
    /\ UNCHANGED <<at, waiting, closeReq, closed, where, phase>>

\* select stores the writable ones of the sockets it was given, and says
\* whether a datagram lies unread; it returns without one after its timeout.
\* (For an error alone the loop starts a thread that ends at once.)
SelectReturn ==
    /\ stage = "select"
    /\ (snapshot \cup {Endpoint}) \cap closed = {}
    /\ fdWrite' \in SUBSET snapshot
    /\ ready' = Queued(Endpoint)
    /\ snapshot' = {}
    /\ stage' = "dispatch"
    /\ UNCHANGED <<at, waiting, closeReq, closed, where, phase>>

\* The endpoint's bit in fd_write makes the loop pass over what is unread.
PassOver ==
    /\ stage = "dispatch"
    /\ Endpoint \in fdWrite
    /\ Advance
    /\ UNCHANGED <<fdWrite, waiting, closeReq, closed, where, phase>>

\* One more receiver thread, however many the datagram has woken already.
SpawnReceiver ==
    /\ stage = "dispatch"
    /\ Endpoint \notin fdWrite
    /\ ready
    /\ waiting[Endpoint] < MaxWaiting
    /\ waiting' = [waiting EXCEPT ![Endpoint] = @ + 1]
    /\ Advance
    /\ UNCHANGED <<fdWrite, closeReq, closed, where, phase>>

\* Nothing to read, or the bound on blocked receivers is reached.
StartNothing ==
    /\ stage = "dispatch"
    /\ Endpoint \notin fdWrite
    /\ ready => waiting[Endpoint] = MaxWaiting
    /\ Advance
    /\ UNCHANGED <<fdWrite, waiting, closeReq, closed, where, phase>>

Loop ==
    \/ CloseEndpoint
    \/ SelectEnter \/ SelectFails \/ SelectReturn
    \/ PassOver \/ SpawnReceiver \/ StartNothing

-----------------------------------------------------------------------------
(***************************************************************************)
(* Receiver threads.                                                       *)
(***************************************************************************)

Become(g, from, to) ==
    /\ phase[g] = from
    /\ phase' = [phase EXCEPT ![g] = to]

\* Bug: a datagram is handled that no thread has received.
ReceiveBug(g) ==
    /\ Become(g, "queued", "handle")
    /\ waiting' = [waiting EXCEPT ![where[g]] = @ - 1]
    /\ UNCHANGED <<loopVars, fdWrite, closeReq, closed, where>>

\* recvfrom hands a datagram to one of the threads blocked on its socket.
Receive(g) ==
    /\ Become(g, "queued", "handle")
    /\ where[g] \notin closed
    /\ waiting[where[g]] > 0
    /\ waiting' = [waiting EXCEPT ![where[g]] = @ - 1]
    /\ UNCHANGED <<loopVars, fdWrite, closeReq, closed, where>>

\* recvfrom fails and the thread ends: the socket is closed or has an error to
\* report, or a datagram was longer than the buffer and is thrown away.
ReceiveFails(d) ==
    /\ waiting[d] > 0
    /\ waiting' = [waiting EXCEPT ![d] = @ - 1]
    /\ \/ UNCHANGED phase
       \/ /\ d \notin closed
          /\ \E g \in Datagrams : where[g] = d /\ Become(g, "queued", "discarded")
    /\ UNCHANGED <<loopVars, fdWrite, closeReq, closed, where>>

\* The callback works the datagram out: a reply to send, or none.
Handle(g) ==
    /\ \E to \in {"check", "silent"} : Become(g, "handle", to)
    /\ UNCHANGED <<loopVars, fdWrite, waiting, closeReq, closed, where>>

-----------------------------------------------------------------------------
(***************************************************************************)
(* Server::Send, an access to shared state at a time.                      *)
(***************************************************************************)

\* An endpoint that shall close sends nothing any more.
SendCheck(g) ==
    /\ Become(g, "check", IF where[g] \in closeReq THEN "silent" ELSE "zero")
    /\ UNCHANGED <<loopVars, fdWrite, waiting, closeReq, closed, where>>

\* FD_ZERO takes the bits of all senders.
FdZero(g) ==
    /\ Become(g, "zero", "set")
    /\ fdWrite' = {}
    /\ UNCHANGED <<loopVars, waiting, closeReq, closed, where>>

FdSet(g) ==
    /\ Become(g, "set", "isset")
    /\ fdWrite' = fdWrite \cup {where[g]}
    /\ UNCHANGED <<loopVars, waiting, closeReq, closed, where>>

\* A bit that someone has cleared since costs the reply.
FdIsSet(g) ==
    /\ Become(g, "isset", IF where[g] \in fdWrite THEN "sendto" ELSE "silent")
    /\ UNCHANGED <<loopVars, fdWrite, waiting, closeReq, closed, where>>

\* The joined __Send thread, whose sendto may fail on any socket; its result
\* goes unused.
SendTo(g) ==
    /\ \/ where[g] \notin closed /\ Become(g, "sendto", "sent")
       \/ Become(g, "sendto", "unsent")
    /\ UNCHANGED <<loopVars, fdWrite, waiting, closeReq, closed, where>>

\* Bug: a sender whose bit was cleared under it sends again.
FdClrBug(g) ==
    /\ \/ Become(g, "sent", IF where[g] \in fdWrite THEN "answered" ELSE "sendto")
       \/ Become(g, "unsent", "silent")
    /\ fdWrite' = fdWrite \ {where[g]}
    /\ UNCHANGED <<loopVars, waiting, closeReq, closed, where>>

\* The bit is cleared and the thread ends.
FdClr(g) ==
    /\ Become(g, "sent", "answered") \/ Become(g, "unsent", "silent")
    /\ fdWrite' = fdWrite \ {where[g]}
    /\ UNCHANGED <<loopVars, waiting, closeReq, closed, where>>

SendStep(g) ==
    \/ SendCheck(g) \/ FdZero(g) \/ FdSet(g) \/ FdIsSet(g) \/ SendTo(g) \/ FdClr(g)

-----------------------------------------------------------------------------
(***************************************************************************)
(* The network, and the caller of Server::RemoveEndpoint.                  *)
(***************************************************************************)

Arrive(g) ==
    /\ Become(g, "away", "queued")
    /\ UNCHANGED <<loopVars, fdWrite, waiting, closeReq, closed, where>>

\* Bug: the socket is closed by the caller.
RemoveEndpointBug(d) ==
    /\ d \notin closeReq
    /\ closeReq' = closeReq \cup {d}
    /\ closed' = closed \cup {d}
    /\ UNCHANGED <<loopVars, fdWrite, waiting, where, phase>>

\* The request to close; the loop finds it on its next visit.
RemoveEndpoint(d) ==
    /\ d \notin closeReq
    /\ closeReq' = closeReq \cup {d}
    /\ UNCHANGED <<loopVars, fdWrite, waiting, closed, where, phase>>

ThreadStep(g) == Receive(g) \/ Handle(g) \/ SendStep(g)

Next ==
    \/ Loop
    \/ \E g \in Datagrams : Arrive(g) \/ ThreadStep(g)
    \/ \E d \in Endpoints : ReceiveFails(d) \/ RemoveEndpoint(d)

\* The loop never blocks for longer than select's timeout, and the operating
\* system schedules every thread.  Nobody has to send or to close.
Fairness ==
    /\ WF_vars(Loop)
    /\ \A g \in Datagrams : WF_vars(ThreadStep(g))
    /\ \A d \in Endpoints : WF_vars(d \in closed /\ ReceiveFails(d))

Spec == Init /\ [][Next]_vars /\ Fairness

-----------------------------------------------------------------------------
(***************************************************************************)
(* Properties.                                                             *)
(***************************************************************************)

(***************************************************************************)
(* The loop passes an endpoint over only after that endpoint has itself    *)
(* come to send a reply: no bit of fd_write, and none that a running       *)
(* select will write back, belongs to an endpoint whose threads have not   *)
(* been past FD_SET.  So the first request at an endpoint is always read.  *)
(***************************************************************************)
SkippedOnlyAfterReply ==
    \A d \in fdWrite \cup snapshot :
        \E g \in Datagrams :
            /\ where[g] = d
            /\ phase[g] \in {"isset", "sendto", "sent", "unsent", "answered",
                             "silent"}

(***************************************************************************)
(* No receiver thread is started on a socket that has been closed, though  *)
(* the request to close may come between any two steps of the loop.        *)
(***************************************************************************)
NoReceiverAfterClose ==
    [][\A d \in closed : waiting'[d] <= waiting[d]]_vars

(***************************************************************************)
(* An endpoint that was removed is closed and its blocked receivers end,   *)
(* even while other endpoints are kept busy or stuck.                      *)
(***************************************************************************)
CloseReleasesReceivers ==
    \A d \in Endpoints :
        d \in closeReq ~> [](d \in closed /\ waiting[d] = 0)

(***************************************************************************)
(* A datagram lies unread for ever only at an endpoint that is closed, or  *)
(* while a bit of fd_write stands in the way again and again: its own, or  *)
(* that of a closed socket, which makes every select fail.  (Or while its  *)
(* socket reports one error after the other in the place of the datagram.) *)
(***************************************************************************)
Obstructed(d) == d \in fdWrite \/ fdWrite \cap closed # {}

ServedUnlessObstructed ==
    \A d \in Endpoints :
        <>[](Queued(d) /\ d \notin closed) =>
            []<>Obstructed(d) \/ []<><<ReceiveFails(d)>>_vars

(***************************************************************************)
(* The listener and its senders implement RequestReply: a datagram that    *)
(* was received is answered once or passed over in silence, and no sender  *)
(* is held up for ever, whatever happens to its bit in fd_write.           *)
(***************************************************************************)
StatusOf(g) ==
    CASE phase[g] \in {"away", "queued", "discarded"} -> "unseen"
      [] phase[g] \in {"sent", "answered"}            -> "answered"
      [] phase[g] = "silent"                          -> "silent"
      [] OTHER                                        -> "open"

Promise ==
    INSTANCE RequestReply
        WITH Requests <- Datagrams,
             Fresh <- TRUE,
             status <- [g \in Datagrams |-> StatusOf(g)],
             basis <- [g \in Datagrams |->
                          IF StatusOf(g) = "answered" THEN {g} ELSE {}],
             alive <- TRUE

KeepsPromise == Promise!Spec
=============================================================================

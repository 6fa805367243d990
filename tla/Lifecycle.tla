------------------------------ MODULE Lifecycle ------------------------------
(***************************************************************************)
(* main: the endpoints are added, opened and bound, the server listens, or *)
(* everything is closed again.  Every call into the socket library may     *)
(* fail, and the functions of Server carry on with the next endpoint when  *)
(* one has failed: they only add the results up.  While the server listens *)
(* an endpoint may be removed at any time.                                 *)
(*                                                                         *)
(* A std::map holds the endpoints in the order of their names; the model   *)
(* takes them in any order.                                                *)
(*                                                                         *)
(* A definition whose name ends in Bug is a wrong variant of the one after *)
(* it; the specification uses none of them.                                *)
(***************************************************************************)
EXTENDS Integers

CONSTANT Endpoints  \* the endpoints NetBootd::Init adds

VARIABLES
    stage,      \* the function main has come to
    endpoints,  \* the endpoints in the server's map
    todo,       \* those the function at hand has not come to
    retval,     \* the sum of the results so far
    open,       \* the endpoints whose socket is open
    bound,      \* the endpoints whose socket was bound to its port
    closeReq,   \* the endpoints with closeReq set
    listening   \* Server::listening

vars == <<stage, endpoints, todo, retval, open, bound, closeReq, listening>>

Stages == {"start", "add", "init", "bind", "listen", "close", "exit", "dead"}

SOCKET_ERROR == -1

\* The types of main's progress and of the server's members; no result is
\* positive, so that none makes up for another.
TypeOK ==
    /\ stage \in Stages
    /\ endpoints \subseteq Endpoints
    /\ todo \subseteq Endpoints
    /\ retval \in Int /\ retval <= 0
    /\ open \subseteq Endpoints
    /\ bound \subseteq Endpoints
    /\ closeReq \subseteq Endpoints
    /\ listening \in BOOLEAN

Init ==
    /\ stage = "start"
    /\ endpoints = {}
    /\ todo = {}
    /\ retval = 0
    /\ open = {}
    /\ bound = {}
    /\ closeReq = {}
    /\ listening = FALSE

-----------------------------------------------------------------------------
(***************************************************************************)
(* A loop over endpoints, as Server's functions write it.                  *)
(***************************************************************************)

\* The loop of a function begins with retval = 0.
Begin(to, over) ==
    /\ stage' = to
    /\ todo' = over
    /\ retval' = 0

\* Bug: the last result stands for all.
VisitBug(at, e, result) ==
    /\ stage = at
    /\ e \in todo
    /\ todo' = todo \ {e}
    /\ retval' = result
    /\ UNCHANGED stage

\* The result for one endpoint is added; the others are visited all the same.
Visit(at, e, result) ==
    /\ stage = at
    /\ e \in todo
    /\ todo' = todo \ {e}
    /\ retval' = retval + result
    /\ UNCHANGED stage

Visited(at) == stage = at /\ todo = {}

-----------------------------------------------------------------------------
(***************************************************************************)
(* NetBootd::Init.                                                         *)
(***************************************************************************)

\* Without the socket library there are no endpoints; main goes on.
InitNetwork ==
    /\ stage = "start"
    /\ Begin("add", Endpoints) \/ Begin("init", {})
    /\ UNCHANGED <<endpoints, open, bound, closeReq, listening>>

AddEndpoint(e) ==
    /\ Visit("add", e, 0)
    /\ endpoints' = endpoints \cup {e}
    /\ UNCHANGED <<open, bound, closeReq, listening>>

\* AddEndpoint reads through what gethostbyname returned, which may be null.
LocalIPFails ==
    /\ stage = "add"
    /\ todo # {}
    /\ stage' = "dead"
    /\ UNCHANGED <<endpoints, todo, retval, open, bound, closeReq, listening>>

Added ==
    /\ Visited("add")
    /\ Begin("init", endpoints)
    /\ UNCHANGED <<endpoints, open, bound, closeReq, listening>>

-----------------------------------------------------------------------------
(***************************************************************************)
(* NetBootd::Listen: Server::Init, Server::Bind and Server::Listen.        *)
(***************************************************************************)

\* Bug: the failures are counted.
NoSocketBug(e) ==
    /\ Visit("init", e, 1)
    /\ UNCHANGED <<endpoints, open, bound, closeReq, listening>>

NoSocket(e) ==
    /\ Visit("init", e, SOCKET_ERROR)
    /\ UNCHANGED <<endpoints, open, bound, closeReq, listening>>

\* The socket is open even if the last of its options could not be set; the
\* result of the option before that is overwritten.
OpenSocket(e) ==
    /\ \E result \in {0, SOCKET_ERROR} : Visit("init", e, result)
    /\ open' = open \cup {e}
    /\ UNCHANGED <<endpoints, bound, closeReq, listening>>

\* Server::Bind returns at once if there are no endpoints.
Opened ==
    /\ Visited("init")
    /\ IF retval = 0 /\ endpoints # {}
       THEN Begin("bind", endpoints)
       ELSE Begin("listen", {})
    /\ UNCHANGED <<endpoints, open, bound, closeReq, listening>>

BindSocket(e) ==
    /\ Visit("bind", e, 0)
    /\ bound' = bound \cup {e}
    /\ UNCHANGED <<endpoints, open, closeReq, listening>>

BindFails(e) ==
    /\ Visit("bind", e, SOCKET_ERROR)
    /\ UNCHANGED <<endpoints, open, bound, closeReq, listening>>

Bound ==
    /\ Visited("bind")
    /\ listening' = (retval = 0)
    /\ Begin("listen", {})
    /\ UNCHANGED <<endpoints, open, bound, closeReq>>

\* Server::RemoveEndpoint while the server listens.
RemoveEndpoint(e) ==
    /\ stage = "listen" /\ listening
    /\ e \in endpoints
    /\ closeReq' = closeReq \cup {e}
    /\ UNCHANGED <<stage, endpoints, todo, retval, open, bound, listening>>

\* The loop closes an endpoint; its socket number stays in the map.
CloseRemoved(e) ==
    /\ stage = "listen" /\ listening
    /\ e \in closeReq
    /\ open' = open \ {e}
    /\ UNCHANGED <<stage, endpoints, todo, retval, bound, closeReq, listening>>

Return ==
    /\ stage = "listen" /\ ~listening
    /\ Begin("close", endpoints)
    /\ UNCHANGED <<endpoints, open, bound, closeReq, listening>>

-----------------------------------------------------------------------------
(***************************************************************************)
(* NetBootd::Close: Server::Close.                                         *)
(***************************************************************************)

\* Bug: an endpoint that is not bound is taken for closed.
CloseSocketBug(e) ==
    /\ Visit("close", e, IF e \in open THEN 0 ELSE SOCKET_ERROR)
    /\ closeReq' = closeReq \cup {e}
    /\ open' = IF e \in bound THEN open \ {e} ELSE open
    /\ UNCHANGED <<endpoints, bound, listening>>

\* Closing a socket that is not open fails.
CloseSocket(e) ==
    /\ Visit("close", e, IF e \in open THEN 0 ELSE SOCKET_ERROR)
    /\ closeReq' = closeReq \cup {e}
    /\ open' = open \ {e}
    /\ UNCHANGED <<endpoints, bound, listening>>

\* Bug: the map is kept when a socket could not be closed, to try again.
ClosedBug ==
    /\ Visited("close")
    /\ retval = 0
    /\ stage' = "exit"
    /\ endpoints' = {}
    /\ UNCHANGED <<todo, retval, open, bound, closeReq, listening>>

\* The map is cleared and main returns, whatever the results.
Closed ==
    /\ Visited("close")
    /\ stage' = "exit"
    /\ endpoints' = {}
    /\ UNCHANGED <<todo, retval, open, bound, closeReq, listening>>

\* The process has ended.
Ended == stage \in {"exit", "dead"} /\ UNCHANGED vars

Main ==
    \/ InitNetwork \/ Added \/ Opened \/ Bound \/ Return \/ Closed
    \/ \E e \in Endpoints :
        \/ AddEndpoint(e)
        \/ NoSocket(e) \/ OpenSocket(e)
        \/ BindSocket(e) \/ BindFails(e)
        \/ CloseSocket(e)

Next ==
    \/ Main
    \/ LocalIPFails
    \/ \E e \in Endpoints : RemoveEndpoint(e) \/ CloseRemoved(e)
    \/ Ended

\* Every call of main returns.
Spec == Init /\ [][Next]_vars /\ WF_vars(Main)

-----------------------------------------------------------------------------
(***************************************************************************)
(* Properties.                                                             *)
(***************************************************************************)

(***************************************************************************)
(* The server listens only when each of its endpoints was opened and bound *)
(* to its port, though the functions go on after a failure and only sum    *)
(* the results up; afterwards a socket is closed only because someone      *)
(* removed its endpoint.                                                   *)
(***************************************************************************)
ListensOnAll ==
    listening => /\ endpoints = Endpoints
                 /\ bound = Endpoints
                 /\ Endpoints \ open \subseteq closeReq

(***************************************************************************)
(* No socket is lost: as long as it is open the map has its endpoint, and  *)
(* none is open when main returns, whichever calls failed.  So Close also  *)
(* closes those that a failed Server::Init or Bind left.                   *)
(***************************************************************************)
NothingLeftOpen ==
    /\ open \subseteq endpoints
    /\ stage \in {"exit", "dead"} => open = {}

(***************************************************************************)
(* The program does not get stuck half-way: it listens on all endpoints or *)
(* it ends.                                                                *)
(***************************************************************************)
ListensOrEnds == <>[](listening \/ stage \in {"exit", "dead"})
=============================================================================

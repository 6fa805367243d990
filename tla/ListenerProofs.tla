--------------------------- MODULE ListenerProofs ---------------------------
(***************************************************************************)
(* Proofs about Listener, for every set of endpoints, every order in which *)
(* the server holds them, every set of datagrams and every bound on the    *)
(* blocked receivers.                                                      *)
(***************************************************************************)
EXTENDS Listener, Integers, TLAPS

\* The loop goes past select only with an endpoint that is still open.
DispatchesOpen == stage = "dispatch" => Endpoint \notin closed

Inv ==
    /\ TypeOK
    /\ DispatchesOpen
    /\ SkippedOnlyAfterReply

\* Past FD_SET a datagram has come to be answered, and stays so.
Past == {"isset", "sendto", "sent", "unsent", "answered", "silent"}

USE MaxWaitingAssumption

(***************************************************************************)
(* The position the loop is at names an endpoint, and so does the next.    *)
(***************************************************************************)
LEMMA OrderNames ==
    /\ Len(Order) \in Nat \ {0}
    /\ \A k \in 1..Len(Order) : Order[k] \in Endpoints
BY OrderAssumption

LEMMA AdvanceType ==
    ASSUME TypeOK, Advance
    PROVE  /\ at' \in 1..Len(Order)
           /\ stage' = "visit"
           /\ snapshot' = {}
           /\ ready' = FALSE
<1>1. at \in 1..Len(Order) /\ at' = IF at = Len(Order) THEN 1 ELSE at + 1
    BY DEF TypeOK, Advance
<1>2. at' \in 1..Len(Order)
    BY <1>1, OrderNames
<1> QED
    BY <1>2 DEF Advance

-----------------------------------------------------------------------------
(***************************************************************************)
(* The invariant.                                                          *)
(***************************************************************************)

LEMMA InitInv == Init => Inv
<1> SUFFICES ASSUME Init
             PROVE  Inv
    OBVIOUS
<1>1. at \in 1..Len(Order)
    BY OrderNames DEF Init
<1>2. waiting \in [Endpoints -> 0..MaxWaiting]
    BY DEF Init
<1>3. TypeOK
    BY <1>1, <1>2, Zenon DEF Init, TypeOK, LoopStages, Phases
<1> QED
    BY <1>3 DEF Init, Inv, DispatchesOpen, SkippedOnlyAfterReply

(***************************************************************************)
(* A step of the loop puts no endpoint into fd_write, or into the set      *)
(* select will write back, that was in neither.                            *)
(***************************************************************************)
LEMMA LoopKeepsInv ==
    ASSUME Inv, Loop
    PROVE  Inv'
<1>0. TypeOK /\ DispatchesOpen /\ SkippedOnlyAfterReply
    BY DEF Inv
<1>a. Endpoint \in Endpoints
    BY <1>0, OrderNames DEF TypeOK, Endpoint
<1>b. ASSUME Advance, fdWrite' = fdWrite, UNCHANGED <<where, phase, closeReq>>,
             closed' \in SUBSET Endpoints,
             waiting' \in [Endpoints -> 0..MaxWaiting]
      PROVE  Inv'
    <2>1. /\ at' \in 1..Len(Order) /\ stage' = "visit"
          /\ snapshot' = {} /\ ready' = FALSE
        BY <1>0, <1>b, AdvanceType
    <2>2. TypeOK'
        BY <1>0, <1>b, <2>1, Zenon DEF TypeOK, LoopStages
    <2> QED
        BY <1>0, <1>b, <2>1, <2>2
        DEF Inv, DispatchesOpen, SkippedOnlyAfterReply
<1>1. CASE CloseEndpoint
    BY <1>0, <1>a, <1>b, <1>1 DEF CloseEndpoint, TypeOK
<1>2. CASE SelectEnter
    <2>1. TypeOK'
        BY <1>0, <1>2, Zenon DEF SelectEnter, TypeOK, LoopStages
    <2> QED
        BY <1>0, <1>2, <2>1
        DEF SelectEnter, Inv, DispatchesOpen, SkippedOnlyAfterReply
<1>3. CASE SelectFails
    BY <1>0, <1>b, <1>3 DEF SelectFails, TypeOK
<1>4. CASE SelectReturn
    <2>1. ready' \in BOOLEAN
        BY <1>4, Zenon DEF SelectReturn, Queued
    <2>2. fdWrite' \in SUBSET Endpoints
        BY <1>0, <1>4 DEF SelectReturn, TypeOK
    <2>3. TypeOK'
        BY <1>0, <1>4, <2>1, <2>2, Zenon DEF SelectReturn, TypeOK, LoopStages
    <2>4. DispatchesOpen'
        BY <1>4 DEF SelectReturn, DispatchesOpen, Endpoint
    <2>5. SkippedOnlyAfterReply'
        BY <1>0, <1>4 DEF SelectReturn, SkippedOnlyAfterReply
    <2> QED
        BY <2>3, <2>4, <2>5 DEF Inv
<1>5. CASE PassOver
    BY <1>0, <1>b, <1>5 DEF PassOver, TypeOK
<1>6. CASE SpawnReceiver
    <2>1. waiting' \in [Endpoints -> 0..MaxWaiting]
        BY <1>0, <1>a, <1>6 DEF SpawnReceiver, TypeOK
    <2> QED
        BY <1>0, <1>b, <1>6, <2>1 DEF SpawnReceiver, TypeOK
<1>7. CASE StartNothing
    BY <1>0, <1>b, <1>7 DEF StartNothing, TypeOK
<1> QED
    BY <1>1, <1>2, <1>3, <1>4, <1>5, <1>6, <1>7 DEF Loop

(***************************************************************************)
(* The types survive a step of a thread, which moves one datagram on.      *)
(***************************************************************************)
LEMMA ThreadType ==
    ASSUME TypeOK, NEW g \in Datagrams, Arrive(g) \/ ThreadStep(g)
    PROVE  /\ phase' \in [Datagrams -> Phases]
           /\ fdWrite' \in SUBSET Endpoints
           /\ waiting' \in [Endpoints -> 0..MaxWaiting]
           /\ UNCHANGED <<loopVars, closeReq, closed, where>>
<1> USE DEF TypeOK, Become, Phases
<1>1. CASE Arrive(g)
    BY <1>1 DEF Arrive
<1>2. CASE Receive(g)
    BY <1>2 DEF Receive
<1>3. CASE Handle(g)
    BY <1>3 DEF Handle
<1>4. CASE SendCheck(g)
    BY <1>4 DEF SendCheck
<1>5. CASE FdZero(g)
    BY <1>5 DEF FdZero
<1>6. CASE FdSet(g)
    BY <1>6 DEF FdSet
<1>7. CASE FdIsSet(g)
    BY <1>7 DEF FdIsSet
<1>8. CASE SendTo(g)
    BY <1>8 DEF SendTo
<1>9. CASE FdClr(g)
    BY <1>9 DEF FdClr
<1> QED
    BY <1>1, <1>2, <1>3, <1>4, <1>5, <1>6, <1>7, <1>8, <1>9
    DEF ThreadStep, SendStep

(***************************************************************************)
(* A thread that is past FD_SET stays past it, and only FD_SET adds to     *)
(* fd_write: it adds the endpoint of the thread that has just passed it.   *)
(***************************************************************************)
LEMMA ThreadKeepsInv ==
    ASSUME Inv, NEW g \in Datagrams, Arrive(g) \/ ThreadStep(g)
    PROVE  Inv'
<1>0. TypeOK /\ DispatchesOpen /\ SkippedOnlyAfterReply
    BY DEF Inv
<1>1. /\ phase' \in [Datagrams -> Phases]
      /\ fdWrite' \in SUBSET Endpoints
      /\ waiting' \in [Endpoints -> 0..MaxWaiting]
      /\ UNCHANGED <<loopVars, closeReq, closed, where>>
    BY <1>0, ThreadType
<1>2. TypeOK'
    BY <1>0, <1>1, Zenon DEF TypeOK, loopVars
<1>3. DispatchesOpen'
    BY <1>0, <1>1 DEF DispatchesOpen, Endpoint, loopVars
<1>4. \A h \in Datagrams : phase[h] \in Past => phase'[h] \in Past
    BY <1>0
    DEF TypeOK, Past, ThreadStep, SendStep, Arrive, Receive, Handle, SendCheck,
        FdZero, FdSet, FdIsSet, SendTo, FdClr, Become
<1>5. \/ fdWrite' \subseteq fdWrite
      \/ fdWrite' = fdWrite \cup {where[g]} /\ phase'[g] = "isset"
    BY <1>0
    DEF TypeOK, ThreadStep, SendStep, Arrive, Receive, Handle, SendCheck,
        FdZero, FdSet, FdIsSet, SendTo, FdClr, Become
<1>6. SkippedOnlyAfterReply'
    BY <1>0, <1>1, <1>4, <1>5 DEF SkippedOnlyAfterReply, Past, loopVars
<1> QED
    BY <1>2, <1>3, <1>6 DEF Inv

(***************************************************************************)
(* A recvfrom that fails throws away a datagram, or none.                  *)
(***************************************************************************)
LEMMA Discards ==
    ASSUME TypeOK, NEW d \in Endpoints, ReceiveFails(d)
    PROVE  /\ phase' \in [Datagrams -> Phases]
           /\ \/ phase' = phase
              \/ \E g \in Datagrams : Become(g, "queued", "discarded")
BY DEF TypeOK, ReceiveFails, Become, Phases

LEMMA OthersKeepInv ==
    ASSUME Inv, NEW d \in Endpoints, ReceiveFails(d) \/ RemoveEndpoint(d)
    PROVE  Inv'
<1>0. TypeOK /\ DispatchesOpen /\ SkippedOnlyAfterReply
    BY DEF Inv
<1>1. /\ waiting' \in [Endpoints -> 0..MaxWaiting]
      /\ closeReq' \in SUBSET Endpoints
      /\ UNCHANGED <<loopVars, fdWrite, closed, where>>
    BY <1>0 DEF TypeOK, ReceiveFails, RemoveEndpoint
<1>2. phase' \in [Datagrams -> Phases]
    BY <1>0, Discards DEF TypeOK, RemoveEndpoint
<1>3. \A g \in Datagrams : phase[g] \in Past => phase'[g] \in Past
    BY <1>0, Discards DEF TypeOK, RemoveEndpoint, Become, Past
<1>4. TypeOK'
    BY <1>0, <1>1, <1>2, Zenon DEF TypeOK, loopVars
<1>5. SkippedOnlyAfterReply'
    BY <1>0, <1>1, <1>3 DEF SkippedOnlyAfterReply, Past, loopVars
<1> QED
    BY <1>0, <1>1, <1>4, <1>5 DEF Inv, DispatchesOpen, Endpoint, loopVars

LEMMA StepInv == Inv /\ [Next]_vars => Inv'
<1> SUFFICES ASSUME Inv, [Next]_vars
             PROVE  Inv'
    OBVIOUS
<1>1. CASE UNCHANGED vars
    BY <1>1
    DEF vars, loopVars, Inv, TypeOK, DispatchesOpen, Endpoint,
        SkippedOnlyAfterReply
<1> QED
    BY <1>1, LoopKeepsInv, ThreadKeepsInv, OthersKeepInv DEF Next

(***************************************************************************)
(* The invariant holds in every state of the listen loop and its threads.  *)
(***************************************************************************)
THEOREM InvHolds == Spec => []Inv
BY InitInv, StepInv, PTL DEF Spec

(***************************************************************************)
(* Every variable of the loop and of the senders keeps its type.           *)
(***************************************************************************)
THEOREM TypeCorrect == Spec => []TypeOK
<1>1. Inv => TypeOK
    BY DEF Inv
<1> QED
    BY <1>1, InvHolds, PTL

(***************************************************************************)
(* An endpoint is in fd_write only once one of its threads has come to     *)
(* send, so the first request at an endpoint is always read.               *)
(***************************************************************************)
THEOREM SkipsOnlyAfterReplies == Spec => []SkippedOnlyAfterReply
<1>1. Inv => SkippedOnlyAfterReply
    BY DEF Inv
<1> QED
    BY <1>1, InvHolds, PTL

(***************************************************************************)
(* No receiver is started on a closed socket.                              *)
(***************************************************************************)
THEOREM NoLateReceivers == Spec => NoReceiverAfterClose
<1>1. Inv /\ [Next]_vars => [\A d \in closed : waiting'[d] <= waiting[d]]_vars
    <2> SUFFICES ASSUME Inv, Next, NEW d \in closed
                 PROVE  waiting'[d] <= waiting[d]
        OBVIOUS
    <2>1. TypeOK /\ DispatchesOpen /\ d \in Endpoints /\ waiting[d] \in Nat
        BY DEF Inv, TypeOK
    <2>2. CASE SpawnReceiver
        <3>1. d # Endpoint
            BY <2>1, <2>2 DEF SpawnReceiver, DispatchesOpen
        <3> QED
            BY <2>1, <2>2, <3>1 DEF SpawnReceiver, TypeOK
    <2>3. CASE UNCHANGED waiting
        BY <2>1, <2>3
    <2>4. ASSUME NEW e \in Endpoints, waiting' = [waiting EXCEPT ![e] = @ - 1]
          PROVE  waiting'[d] <= waiting[d]
        BY <2>1, <2>4 DEF TypeOK
    <2>5. CASE Loop
        BY <2>2, <2>3, <2>5
        DEF Loop, CloseEndpoint, SelectEnter, SelectFails, SelectReturn,
            PassOver, StartNothing
    <2>6. ASSUME NEW g \in Datagrams, Arrive(g) \/ ThreadStep(g)
          PROVE  waiting'[d] <= waiting[d]
        BY <2>1, <2>3, <2>4, <2>6
        DEF ThreadStep, SendStep, Arrive, Receive, Handle, SendCheck, FdZero,
            FdSet, FdIsSet, SendTo, FdClr, TypeOK
    <2> QED
        BY <2>3, <2>4, <2>5, <2>6 DEF Next, ReceiveFails, RemoveEndpoint
<1> QED
    BY <1>1, InvHolds, PTL DEF Spec, NoReceiverAfterClose

-----------------------------------------------------------------------------
(***************************************************************************)
(* The promise.                                                            *)
(***************************************************************************)

(***************************************************************************)
(* A datagram that is alone in changing its phase is alone in changing     *)
(* what has become of it.                                                  *)
(***************************************************************************)
LEMMA OthersKeepStatus ==
    ASSUME TypeOK, NEW g \in Datagrams, NEW to,
           phase' = [phase EXCEPT ![g] = to]
    PROVE  /\ \A h \in Datagrams \ {g} : StatusOf(h)' = StatusOf(h)
           /\ phase'[g] = to
BY DEF TypeOK, StatusOf

LEMMA StepPromise ==
    ASSUME TypeOK, [Next]_vars
    PROVE  [Promise!Next]_(Promise!vars)
<1> DEFINE status == [g \in Datagrams |-> StatusOf(g)]
           basis == [g \in Datagrams |->
                        IF StatusOf(g) = "answered" THEN {g} ELSE {}]
<1>1. ASSUME UNCHANGED phase
      PROVE  UNCHANGED Promise!vars
    <2>1. \A g \in Datagrams : StatusOf(g)' = StatusOf(g)
        BY <1>1 DEF StatusOf
    <2>2. status' = status /\ basis' = basis
        BY <2>1
    <2> QED
        BY <2>2 DEF Promise!vars
<1>2. ASSUME NEW g \in Datagrams, NEW from, NEW to, Become(g, from, to),
             \/ from \in {"away", "queued"} /\ to \in {"handle"}
             \/ /\ from \in {"handle", "check", "zero", "set", "isset", "sendto",
                             "unsent"}
                /\ to \in {"check", "zero", "set", "isset", "sendto", "sent",
                           "unsent", "silent"}
             \/ from = "away" /\ to = "queued"
             \/ from = "sent" /\ to = "answered"
      PROVE  \/ Promise!Accept(g) \/ Promise!Answer(g) \/ Promise!Ignore(g)
             \/ UNCHANGED Promise!vars
    <2>0. /\ phase[g] = from /\ phase'[g] = to
          /\ \A h \in Datagrams \ {g} : StatusOf(h)' = StatusOf(h)
        BY <1>2, OthersKeepStatus DEF Become
    <2>1. ASSUME StatusOf(g)' = StatusOf(g)
          PROVE  UNCHANGED Promise!vars
        <3>1. status' = status /\ basis' = basis
            BY <2>0, <2>1
        <3> QED
            BY <3>1 DEF Promise!vars
    <2>2. ASSUME StatusOf(g)' # "answered", StatusOf(g) # "answered"
          PROVE  /\ status' = [status EXCEPT ![g] = StatusOf(g)']
                 /\ basis' = basis
        BY <2>0, <2>2
    <2>3. CASE from \in {"away", "queued"} /\ to = "handle"
        <3>1. StatusOf(g) = "unseen" /\ StatusOf(g)' = "open"
            BY <2>0, <2>3 DEF StatusOf
        <3> QED
            BY <2>2, <3>1 DEF Promise!Accept, Promise!Become
    <2>4. CASE /\ from \in {"handle", "check", "zero", "set", "isset", "sendto",
                            "unsent"}
               /\ to = "silent"
        <3>1. StatusOf(g) = "open" /\ StatusOf(g)' = "silent"
            BY <2>0, <2>4 DEF StatusOf
        <3> QED
            BY <2>2, <3>1 DEF Promise!Ignore, Promise!Become
    <2>5. CASE /\ from \in {"handle", "check", "zero", "set", "isset", "sendto",
                            "unsent"}
               /\ to = "sent"
        <3>1. StatusOf(g) = "open" /\ StatusOf(g)' = "answered"
            BY <2>0, <2>5 DEF StatusOf
        <3>2. /\ status' = [status EXCEPT ![g] = "answered"]
              /\ basis' = [basis EXCEPT ![g] = {g}]
            BY <2>0, <3>1
        <3> QED
            BY <3>1, <3>2
            DEF Promise!Answer, Promise!Become, Promise!Eligible
    <2>6. CASE \/ /\ from \in {"handle", "check", "zero", "set", "isset",
                               "sendto", "unsent"}
                  /\ to \notin {"silent", "sent"}
               \/ from = "away" /\ to = "queued"
               \/ from = "sent" /\ to = "answered"
        <3>1. StatusOf(g)' = StatusOf(g)
            BY <1>2, <2>0, <2>6 DEF StatusOf
        <3> QED
            BY <2>1, <3>1
    <2> QED
        BY <1>2, <2>3, <2>4, <2>5, <2>6
<1>3. ASSUME NEW g \in Datagrams, Arrive(g) \/ ThreadStep(g)
      PROVE  [Promise!Next]_(Promise!vars)
    BY <1>2, <1>3
    DEF ThreadStep, SendStep, Arrive, Receive, Handle, SendCheck, FdZero,
        FdSet, FdIsSet, SendTo, FdClr, Promise!Next
<1>4. CASE Loop
    BY <1>1, <1>4
    DEF Loop, CloseEndpoint, SelectEnter, SelectFails, SelectReturn, PassOver,
        SpawnReceiver, StartNothing
<1>5. ASSUME NEW d \in Endpoints, ReceiveFails(d)
      PROVE  UNCHANGED Promise!vars
    <2>1. CASE phase' = phase
        BY <1>1, <2>1
    <2>2. ASSUME NEW g \in Datagrams, Become(g, "queued", "discarded")
          PROVE  UNCHANGED Promise!vars
        <3>1. \A h \in Datagrams : StatusOf(h)' = StatusOf(h)
            BY <2>2, OthersKeepStatus DEF Become, StatusOf
        <3>2. status' = status /\ basis' = basis
            BY <3>1
        <3> QED
            BY <3>2 DEF Promise!vars
    <2> QED
        BY <1>5, <2>1, <2>2, Discards
<1> QED
    BY <1>1, <1>3, <1>4, <1>5 DEF Next, RemoveEndpoint, vars

(***************************************************************************)
(* However senders clear each other's bits, a datagram is answered at most *)
(* once, only after it was received, and never after it was passed over.   *)
(***************************************************************************)
THEOREM PromiseIsKept == Spec => Promise!SafeSpec
<1>1. Init => Promise!Init
    <2> SUFFICES ASSUME Init
                 PROVE  Promise!Init
        OBVIOUS
    <2>1. \A g \in Datagrams : StatusOf(g) = "unseen"
        BY DEF Init, StatusOf
    <2> QED
        BY <2>1 DEF Promise!Init
<1>2. TypeOK /\ [Next]_vars => [Promise!Next]_(Promise!vars)
    BY StepPromise
<1> QED
    BY <1>1, <1>2, TypeCorrect, PTL DEF Spec, Promise!SafeSpec
=============================================================================

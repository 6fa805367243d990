-------------------------- MODULE LifecycleProofs --------------------------
(***************************************************************************)
(* Proofs about Lifecycle, for every set of endpoints.                     *)
(***************************************************************************)
EXTENDS Lifecycle, TLAPS

\* NetBootd::Init adds all endpoints or none; until then nothing is open.
Adding ==
    /\ stage = "start" => endpoints = {} /\ open = {}
    /\ stage = "add" => endpoints = Endpoints \ todo /\ open = {}
    /\ stage \in {"init", "listen"} => endpoints \in {{}, Endpoints}
    /\ stage = "init" => todo \subseteq endpoints
    /\ stage = "bind" => endpoints = Endpoints

\* A sum of 0 means that no endpoint visited so far has failed.
Summed ==
    /\ stage = "init" /\ retval = 0 => endpoints \ todo \subseteq open
    /\ stage = "bind" => Endpoints \subseteq open
    /\ stage = "bind" /\ retval = 0 => Endpoints \ todo \subseteq bound

\* Only Server::Listen runs while the server listens.
Listens == listening => stage = "listen"

\* Server::Close has closed the sockets of the endpoints it has visited.
Closing == stage = "close" => open \subseteq todo

Inv ==
    /\ TypeOK
    /\ Adding
    /\ Summed
    /\ Listens
    /\ Closing
    /\ ListensOnAll
    /\ NothingLeftOpen

USE DEF SOCKET_ERROR

(***************************************************************************)
(* Nothing is open before main starts.                                     *)
(***************************************************************************)
LEMMA InitInv == Init => Inv
<1> SUFFICES ASSUME Init
             PROVE  Inv
    OBVIOUS
<1>0. retval \in Int /\ retval <= 0
    BY DEF Init
<1>1. TypeOK
    BY <1>0, Zenon DEF Init, TypeOK, Stages
<1>2. Adding /\ Summed /\ Closing /\ NothingLeftOpen
    BY DEF Init, Adding, Summed, Closing, NothingLeftOpen
<1>3. Listens /\ ListensOnAll
    BY DEF Init, Listens, ListensOnAll
<1> QED
    BY <1>1, <1>2, <1>3 DEF Inv

(***************************************************************************)
(* NetBootd::Init keeps the invariant.                                     *)
(***************************************************************************)
LEMMA AddKeepsInv ==
    ASSUME Inv,
           \/ InitNetwork
           \/ Added
           \/ LocalIPFails
           \/ \E e \in Endpoints : AddEndpoint(e)
    PROVE  Inv'
<1> USE DEF Inv, TypeOK, Stages, Adding, Summed, Listens, Closing,
            ListensOnAll, NothingLeftOpen
<1>1. CASE InitNetwork
    BY <1>1 DEF InitNetwork, Begin
<1>2. CASE Added
    BY <1>2 DEF Added, Visited, Begin
<1>3. CASE LocalIPFails
    BY <1>3 DEF LocalIPFails
<1>4. ASSUME NEW e \in Endpoints, AddEndpoint(e)
      PROVE  Inv'
    BY <1>4 DEF AddEndpoint, Visit
<1> QED
    BY <1>1, <1>2, <1>3, <1>4

(***************************************************************************)
(* Server::Init keeps the invariant.                                       *)
(***************************************************************************)
LEMMA OpenKeepsInv ==
    ASSUME Inv,
           \/ Opened
           \/ \E e \in Endpoints : NoSocket(e) \/ OpenSocket(e)
    PROVE  Inv'
<1> USE DEF Inv, TypeOK, Stages, Adding, Summed, Listens, Closing,
            ListensOnAll, NothingLeftOpen
<1>1. CASE Opened
    BY <1>1 DEF Opened, Visited, Begin
<1>2. ASSUME NEW e \in Endpoints, NoSocket(e)
      PROVE  Inv'
    BY <1>2 DEF NoSocket, Visit
<1>3. ASSUME NEW e \in Endpoints, OpenSocket(e)
      PROVE  Inv'
    BY <1>3 DEF OpenSocket, Visit
<1> QED
    BY <1>1, <1>2, <1>3

(***************************************************************************)
(* Server::Bind keeps the invariant: only here listening is set.           *)
(***************************************************************************)
LEMMA BindKeepsInv ==
    ASSUME Inv,
           \/ Bound
           \/ \E e \in Endpoints : BindSocket(e) \/ BindFails(e)
    PROVE  Inv'
<1> USE DEF Inv, TypeOK, Stages, Adding, Summed, Listens, Closing,
            ListensOnAll, NothingLeftOpen
<1>1. CASE Bound
    BY <1>1 DEF Bound, Visited, Begin
<1>2. ASSUME NEW e \in Endpoints, BindSocket(e)
      PROVE  Inv'
    BY <1>2 DEF BindSocket, Visit
<1>3. ASSUME NEW e \in Endpoints, BindFails(e)
      PROVE  Inv'
    BY <1>3 DEF BindFails, Visit
<1> QED
    BY <1>1, <1>2, <1>3

(***************************************************************************)
(* Server::Listen and Server::Close keep the invariant.                    *)
(***************************************************************************)
LEMMA CloseKeepsInv ==
    ASSUME Inv,
           \/ Return
           \/ Closed
           \/ \E e \in Endpoints :
                  RemoveEndpoint(e) \/ CloseRemoved(e) \/ CloseSocket(e)
    PROVE  Inv'
<1> USE DEF Inv, TypeOK, Stages, Adding, Summed, Listens, Closing,
            ListensOnAll, NothingLeftOpen
<1>1. CASE Return
    BY <1>1 DEF Return, Begin
<1>2. CASE Closed
    BY <1>2 DEF Closed, Visited
<1>3. ASSUME NEW e \in Endpoints, RemoveEndpoint(e)
      PROVE  Inv'
    BY <1>3 DEF RemoveEndpoint
<1>4. ASSUME NEW e \in Endpoints, CloseRemoved(e)
      PROVE  Inv'
    BY <1>4 DEF CloseRemoved
<1>5. ASSUME NEW e \in Endpoints, CloseSocket(e)
      PROVE  Inv'
    BY <1>5 DEF CloseSocket, Visit
<1> QED
    BY <1>1, <1>2, <1>3, <1>4, <1>5

(***************************************************************************)
(* The invariant holds whenever main, the loop or a remover has done a     *)
(* step.                                                                   *)
(***************************************************************************)
THEOREM InvHolds == Spec => []Inv
<1>1. Inv /\ [Next]_vars => Inv'
    <2> SUFFICES ASSUME Inv, [Next]_vars
                 PROVE  Inv'
        OBVIOUS
    <2>1. CASE UNCHANGED vars
        BY <2>1 DEF vars, Inv, TypeOK, Adding, Summed, Listens, Closing,
                    ListensOnAll, NothingLeftOpen
    <2>2. CASE Next
        BY <2>1, <2>2, AddKeepsInv, OpenKeepsInv, BindKeepsInv, CloseKeepsInv
        DEF Next, Main, Ended
    <2> QED
        BY <2>1, <2>2
<1> QED
    BY <1>1, InitInv, PTL DEF Spec

(***************************************************************************)
(* Every variable keeps its type, and no sum of results becomes positive.  *)
(***************************************************************************)
THEOREM TypeCorrect == Spec => []TypeOK
<1>1. Inv => TypeOK
    BY DEF Inv
<1> QED
    BY <1>1, InvHolds, PTL

(***************************************************************************)
(* The server listens only on all its endpoints.                           *)
(***************************************************************************)
THEOREM ListensOnEverything == Spec => []ListensOnAll
<1>1. Inv => ListensOnAll
    BY DEF Inv
<1> QED
    BY <1>1, InvHolds, PTL

(***************************************************************************)
(* No socket is lost and none is open when main has returned.              *)
(***************************************************************************)
THEOREM EverythingIsClosed == Spec => []NothingLeftOpen
<1>1. Inv => NothingLeftOpen
    BY DEF Inv
<1> QED
    BY <1>1, InvHolds, PTL
=============================================================================

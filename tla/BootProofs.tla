----------------------------- MODULE BootProofs -----------------------------
(***************************************************************************)
(* Proofs about Boot, for every set of machines and of slots.              *)
(***************************************************************************)
EXTENDS Boot, TLAPS

\* A record that is not of a discovery is of a machine that heard an OFFER.
Asked(r) ==
    r # NoRecord => r.msg = "DISCOVER" \/ phase[r.ident] # "selecting"

Requested == \A d \in net : d[2] = "REQUEST" => phase[d[1]] # "selecting"

\* What the threads hold and the table holds is asked for.
AllAsked ==
    /\ \A t \in Threads : Asked(packet[t]) /\ Asked(c[t])
    /\ \A i \in Idents : Asked(clients[i])

\* A thread at work has its records.
Equipped ==
    \A t \in Threads :
        /\ pc[t] # "recv" => packet[t] # NoRecord
        /\ pc[t] \in {"copy", "handle", "send", "remove"} => c[t] # NoRecord

Inv == TypeOK /\ Equipped /\ AllAsked /\ Requested /\ NoAckBeforeOffer

-----------------------------------------------------------------------------
(***************************************************************************)
(* No machine goes back to selecting, so what it asked for stays so.       *)
(***************************************************************************)
LEMMA AskedStays ==
    ASSUME NEW r \in Handler!Record \cup {NoRecord}, Asked(r),
           \A i \in Idents : phase'[i] = "selecting" => phase[i] = "selecting"
    PROVE  Asked(r)'
BY DEF Asked, Handler!Record

LEMMA InitInv == Init => Inv
BY DEF Init, Inv, TypeOK, Equipped, AllAsked, Asked, Requested, NoAckBeforeOffer,
       Phases, Handler!Init, Handler!TypeOK, Handler!Stages, Handler!Faults

(***************************************************************************)
(* The record of a datagram that is delivered is asked for.                *)
(***************************************************************************)
LEMMA Delivered ==
    ASSUME Inv, NEW d \in Datagrams, Deliver(d)
    PROVE  Inv'
<1>1. PICK t \in Threads :
          Handler!Receive(t) /\ <<packet'[t].ident, packet'[t].msg>> = d
    BY DEF Deliver
<1>2. PICK p \in PxePackets : \E v \in Handler!ParsedVendor(p.class) :
          packet' = [packet EXCEPT ![t] = Handler!NewClient(t, p, v)]
    BY <1>1 DEF Handler!Receive
<1>3. PICK v \in Handler!ParsedVendor(p.class) :
          packet' = [packet EXCEPT ![t] = Handler!NewClient(t, p, v)]
    BY <1>2
<1>4. Handler!NewClient(t, p, v) \in Handler!Record
    BY DEF PxePackets, Handler!NewClient, Handler!Record, Handler!ParsedVendor,
           Handler!Vendors, Handler!Messages
<1>5. PICK r \in Handler!Record : packet' = [packet EXCEPT ![t] = r]
    BY <1>3, <1>4
<1>6. /\ pc' = [pc EXCEPT ![t] = "add"]
      /\ UNCHANGED <<clients, c, sent, freed, fault, phase, answers>>
      /\ d \in net /\ net' = net \ {d}
    BY <1>1 DEF Deliver, Handler!Receive, Handler!Step
<1>7. TypeOK /\ TypeOK'
    BY <1>5, <1>6 DEF Inv, TypeOK, Handler!TypeOK, Handler!Stages
<1>8. packet'[t] = r /\ r.ident = d[1] /\ r.msg = d[2]
    BY <1>1, <1>5, <1>7 DEF TypeOK, Handler!TypeOK
<1>9. Equipped' /\ AllAsked'
    <2>1. /\ packet'[t] # NoRecord /\ Asked(r)
          /\ \A e \in Threads \ {t} : pc'[e] = pc[e] /\ packet'[e] = packet[e]
          /\ pc'[t] = "add"
        BY <1>5, <1>6, <1>7, <1>8, NoRecordAssumption
        DEF Inv, Requested, Asked, Datagrams, TypeOK, Handler!TypeOK
    <2>2. Equipped'
        BY <1>6, <2>1 DEF Inv, Equipped
    <2>3. AllAsked'
        BY <1>6, <1>8, <2>1 DEF Inv, AllAsked, Asked
    <2> QED
        BY <2>2, <2>3
<1>10. Requested' /\ NoAckBeforeOffer'
    BY <1>6 DEF Inv, Requested, NoAckBeforeOffer
<1> QED
    BY <1>7, <1>9, <1>10 DEF Inv

(***************************************************************************)
(* A step of a thread moves records from the table and into it.            *)
(***************************************************************************)
LEMMA Worked ==
    ASSUME Inv, NEW t \in Threads, Work(t) \/ Die
    PROVE  Inv'
<1>0. /\ TypeOK /\ Equipped /\ AllAsked
      /\ UNCHANGED <<phase, net, answers>>
    BY DEF Inv, Work, Die
<1> USE DEF TypeOK, Handler!TypeOK, Handler!Step, Equipped, AllAsked, Asked,
            Handler!Stages, Handler!Faults
<1>1. CASE Handler!AddClient(t)
    <2>1. packet[t] \in Handler!Record /\ packet[t].ident \in Idents
        BY <1>0, <1>1 DEF Handler!AddClient, Handler!Record
    <2> QED
        BY <1>0, <1>1, <2>1 DEF Handler!AddClient, Inv, Requested, NoAckBeforeOffer
<1>2. CASE Handler!GetClient(t)
    <2>1. packet[t] \in Handler!Record /\ packet[t].ident \in Idents
        BY <1>0, <1>2 DEF Handler!GetClient, Handler!Record
    <2> QED
        BY <1>0, <1>2, <2>1 DEF Handler!GetClient, Inv, Requested, NoAckBeforeOffer
<1>3. CASE Handler!CopyClient(t) \/ Handler!Drop(t)
    BY <1>0, <1>3 DEF Handler!CopyClient, Handler!Drop, Inv, Requested,
                      NoAckBeforeOffer
<1>4. CASE Handler!CopyFreed(t)
    BY <1>0, <1>4 DEF Handler!CopyFreed, Inv, Requested, NoAckBeforeOffer
<1>5. CASE Handler!Handle(t) \/ Handler!Remove(t)
    <2>1. /\ \/ clients' = clients
             \/ \E i \in Idents : clients' = [clients EXCEPT ![i] = NoRecord]
          /\ c[t] # NoRecord
          /\ \E to \in {"send", "done"} : pc' = [pc EXCEPT ![t] = to]
          /\ pc[t] \in {"handle", "remove"}
          /\ UNCHANGED <<packet, c, sent, freed, fault>>
        BY <1>0, <1>5 DEF Handler!Handle, Handler!Remove, Handler!RemoveClient,
                          Handler!Record
    <2> QED
        BY <1>0, <2>1 DEF Inv, Requested, NoAckBeforeOffer
<1>6. CASE \/ Handler!GetClientThrows(t) \/ Handler!CopyFaults(t)
           \/ Handler!MessageTypeThrows(t) \/ Handler!MapRace
    BY <1>0, <1>6
    DEF Handler!GetClientThrows, Handler!CopyFaults, Handler!MessageTypeThrows,
        Handler!MapRace, Handler!Terminate, Inv, Requested, NoAckBeforeOffer
<1> QED
    BY <1>1, <1>2, <1>3, <1>4, <1>5, <1>6
    DEF Work, Die, Handler!ThreadStep, Handler!Send

(***************************************************************************)
(* A reply is an ACK only if the record is asked for.                      *)
(***************************************************************************)
LEMMA Sent ==
    ASSUME Inv, NEW t \in Threads, Reply(t) \/ ReplyFails(t) \/ EndThread(t)
    PROVE  Inv'
<1> USE DEF TypeOK, Handler!TypeOK, Handler!Stages, Equipped, AllAsked, Asked
<1>1. CASE Reply(t) \/ ReplyFails(t)
    <2>1. /\ pc[t] = "send" /\ pc' = [pc EXCEPT ![t] = "remove"]
          /\ sent' \in SUBSET Threads
          /\ UNCHANGED <<packet, clients, c, freed, fault, phase, net>>
        BY <1>1 DEF Inv, Reply, ReplyFails, Handler!Send, Handler!Step
    <2>2. c[t] \in Handler!Record /\ c[t].ident \in Idents
        BY <2>1 DEF Inv, Handler!Record
    <2>3. \/ answers' = answers
          \/ answers' = answers \cup {<<c[t].ident, Kind(c[t].msg)>>}
        BY <1>1 DEF Reply, ReplyFails
    <2>4. TypeOK'
        BY <2>1, <2>2, <2>3 DEF Inv, Answers, Kind
    <2>5. Equipped' /\ AllAsked' /\ Requested'
        BY <2>1, <2>2 DEF Inv, Requested
    <2>6. Kind(c[t].msg) = "ACK" => phase[c[t].ident] # "selecting"
        BY <2>1, <2>2 DEF Inv, Kind
    <2>7. NoAckBeforeOffer'
        BY <2>1, <2>3, <2>6 DEF Inv, NoAckBeforeOffer
    <2> QED
        BY <2>4, <2>5, <2>7 DEF Inv
<1>2. CASE EndThread(t)
    BY <1>2 DEF EndThread, Inv, Requested, NoAckBeforeOffer
<1> QED
    BY <1>1, <1>2

(***************************************************************************)
(* The machines and the network create no answer, and a machine asks for   *)
(* its file after the OFFER.                                               *)
(***************************************************************************)
LEMMA Travelled ==
    ASSUME Inv, [Next]_vars,
           \/ \E i \in Idents : Transmit(i)
           \/ \E d \in Datagrams : LoseDatagram(d)
           \/ \E a \in Answers : LoseAnswer(a) \/ Hear(a)
           \/ UNCHANGED vars
    PROVE  Inv'
<1>1. /\ UNCHANGED <<pc, packet, clients, c, sent, freed, fault>>
      /\ answers' \subseteq answers
    BY DEF Transmit, LoseDatagram, LoseAnswer, Hear, handler, vars
<1>2. /\ phase' \in [Idents -> Phases]
      /\ \A i \in Idents : phase'[i] = "selecting" => phase[i] = "selecting"
    BY DEF Inv, TypeOK, Transmit, LoseDatagram, LoseAnswer, Hear, vars, Phases,
           Answers
<1>3. \/ net' \subseteq net
      \/ \E i \in Idents : net' = net \cup {<<i, Wanted(i)>>} /\ phase' = phase
    BY DEF Transmit, LoseDatagram, LoseAnswer, Hear, vars
<1>4. TypeOK'
    BY <1>1, <1>2, <1>3
    DEF Inv, TypeOK, Handler!TypeOK, Datagrams, Wanted
<1>5. Equipped'
    BY <1>1 DEF Inv, Equipped
<1>6. AllAsked'
    BY <1>1, <1>2, AskedStays
    DEF Inv, AllAsked, TypeOK, Handler!TypeOK, Asked
<1>7. Requested'
    BY <1>2, <1>3 DEF Inv, TypeOK, Requested, Wanted, Datagrams
<1>8. NoAckBeforeOffer'
    BY <1>1, <1>2 DEF Inv, TypeOK, NoAckBeforeOffer, Answers
<1> QED
    BY <1>4, <1>5, <1>6, <1>7, <1>8 DEF Inv

(***************************************************************************)
(* The invariant holds in every reachable state.                           *)
(***************************************************************************)
THEOREM InvHolds == Spec => []Inv
<1>1. Inv /\ [Next]_vars => Inv'
    <2> SUFFICES ASSUME Inv, [Next]_vars
                 PROVE  Inv'
        OBVIOUS
    <2>1. CASE \E t \in Threads : ThreadStep(t)
        BY <2>1, Worked, Sent DEF ThreadStep
    <2>2. CASE Die
        <3>1. PICK t \in Threads : TRUE
            BY <2>2 DEF Die, Handler!MapRace
        <3> QED
            BY <2>2, Worked
    <2>3. CASE \E d \in Datagrams : Deliver(d)
        BY <2>3, Delivered
    <2> QED
        BY <2>1, <2>2, <2>3, Travelled DEF Next, Stopped
<1> QED
    BY <1>1, InitInv, PTL DEF Spec

(***************************************************************************)
(* The types of the handler's variables, the network and the machines.     *)
(***************************************************************************)
THEOREM TypeCorrect == Spec => []TypeOK
<1>1. Inv => TypeOK
    BY DEF Inv
<1> QED
    BY <1>1, InvHolds, PTL

(***************************************************************************)
(* No machine is acknowledged before it has heard an OFFER, whatever is    *)
(* lost, repeated, overtaken or answered from an earlier record.           *)
(***************************************************************************)
THEOREM NoEarlyAck == Spec => []NoAckBeforeOffer
<1>1. Inv => NoAckBeforeOffer
    BY DEF Inv
<1> QED
    BY <1>1, InvHolds, PTL
=============================================================================

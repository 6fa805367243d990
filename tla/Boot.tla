-------------------------------- MODULE Boot --------------------------------
(***************************************************************************)
(* PXE machines that ask the daemon of DhcpHandler for their boot file     *)
(* over a network that loses and reorders datagrams.  A machine repeats    *)
(* its DISCOVER until it hears an OFFER and its REQUEST until it hears an  *)
(* ACK; both endpoints run the same handler.  The machine and the network  *)
(* are not in the repository: they are modelled as the handler expects     *)
(* them.                                                                   *)
(*                                                                         *)
(* A thread ends after its datagram and another one is started for the     *)
(* next: Threads are the slots such threads run in, and a slot is used     *)
(* again.  The src of a record then names its slot.                        *)
(*                                                                         *)
(* A definition whose name ends in Bug is a wrong variant of the one after *)
(* it; the specification uses none of them.                                *)
(***************************************************************************)
CONSTANTS
    Threads,   \* as many threads as run at a time
    Idents,    \* the machines, by their hardware addresses
    NoRecord   \* no client record

VARIABLES
    pc, packet, clients, c, sent, freed, fault,   \* the handler's
    phase,     \* phase[i]: what machine i waits for
    net,       \* the datagrams on their way to the daemon
    answers    \* the replies on their way to the machines

handler == <<pc, packet, clients, c, sent, freed, fault>>

vars == <<pc, packet, clients, c, sent, freed, fault, phase, net, answers>>

PxePackets == [ident : Idents, relayed : {FALSE}, class : {"PXEClient"},
               msg : {"DISCOVER", "REQUEST"}]

Handler ==
    INSTANCE DhcpHandler WITH Packets <- PxePackets, StopAndWait <- FALSE

ASSUME NoRecordAssumption == NoRecord \notin Handler!Record

Phases == {"selecting", "requesting", "acked"}

Datagrams == Idents \X {"DISCOVER", "REQUEST"}

Answers == Idents \X {"OFFER", "ACK"}

\* The types of the network and of the machines beside those of the handler.
TypeOK ==
    /\ Handler!TypeOK
    /\ phase \in [Idents -> Phases]
    /\ net \subseteq Datagrams
    /\ answers \subseteq Answers

Init ==
    /\ Handler!Init
    /\ phase = [i \in Idents |-> "selecting"]
    /\ net = {}
    /\ answers = {}

-----------------------------------------------------------------------------
(***************************************************************************)
(* The machines and the network, as long as the daemon lives.              *)
(***************************************************************************)

Wanted(i) == IF phase[i] = "selecting" THEN "DISCOVER" ELSE "REQUEST"

\* Answer a is the one its machine waits for.
Awaited(a) ==
    \/ phase[a[1]] = "selecting" /\ a[2] = "OFFER"
    \/ phase[a[1]] = "requesting" /\ a[2] = "ACK"

\* The first transmission, or another one when the timer of the machine has
\* run out; of two equal datagrams under way one is kept.
Transmit(i) ==
    /\ fault = "none"
    /\ phase[i] # "acked"
    /\ <<i, Wanted(i)>> \notin net
    /\ net' = net \cup {<<i, Wanted(i)>>}
    /\ UNCHANGED <<handler, phase, answers>>

\* A machine passes over an answer it does not wait for.
Hear(a) ==
    /\ fault = "none"
    /\ a \in answers
    /\ answers' = answers \ {a}
    /\ phase' = IF Awaited(a)
                THEN [phase EXCEPT ![a[1]] = IF @ = "selecting" THEN "requesting"
                                                                ELSE "acked"]
                ELSE phase
    /\ UNCHANGED <<handler, net>>

LoseDatagram(d) ==
    /\ fault = "none"
    /\ d \in net
    /\ net' = net \ {d}
    /\ UNCHANGED <<handler, phase, answers>>

LoseAnswer(a) ==
    /\ fault = "none"
    /\ a \in answers
    /\ answers' = answers \ {a}
    /\ UNCHANGED <<handler, phase, net>>

-----------------------------------------------------------------------------
(***************************************************************************)
(* The daemon.                                                             *)
(***************************************************************************)

\* A slot takes the datagram.
Deliver(d) ==
    /\ d \in net
    /\ \E t \in Threads :
        /\ Handler!Receive(t)
        /\ <<packet'[t].ident, packet'[t].msg>> = d
    /\ net' = net \ {d}
    /\ UNCHANGED <<phase, answers>>

\* Every step of a thread but the sending of its reply.
Work(t) ==
    /\ pc[t] # "send"
    /\ Handler!ThreadStep(t)
    /\ UNCHANGED <<phase, net, answers>>

\* Bug: a discovery is acknowledged.
KindBug(msg) == "ACK"

\* Bug: the message type of the client is left in the reply.
KindKeptBug(msg) == msg

\* The message type Handle_DHCP_Discover and Handle_DHCP_Request set.
Kind(msg) == IF msg = "DISCOVER" THEN "OFFER" ELSE "ACK"

\* The reply is made from the record the thread copied, and goes there.
Reply(t) ==
    /\ Handler!Send(t)
    /\ sent' # sent
    /\ answers' = answers \cup {<<c[t].ident, Kind(c[t].msg)>>}
    /\ UNCHANGED <<phase, net>>

\* Server::Send fails, and nobody looks.
ReplyFails(t) ==
    /\ Handler!Send(t)
    /\ sent' = sent
    /\ UNCHANGED <<phase, net, answers>>

\* The detached thread ends with its copies.
EndThread(t) ==
    /\ fault = "none"
    /\ Handler!Ended(t)
    /\ pc' = [pc EXCEPT ![t] = "recv"]
    /\ packet' = [packet EXCEPT ![t] = NoRecord]
    /\ c' = [c EXCEPT ![t] = NoRecord]
    /\ sent' = sent \ {t}
    /\ freed' = freed \ {t}
    /\ UNCHANGED <<clients, fault, phase, net, answers>>

ThreadStep(t) == Work(t) \/ Reply(t) \/ ReplyFails(t) \/ EndThread(t)

Die == Handler!MapRace /\ UNCHANGED <<phase, net, answers>>

-----------------------------------------------------------------------------
\* What a machine waits for is lost: its datagram, or the answer.
Loss ==
    \/ \E i \in Idents : phase[i] # "acked" /\ LoseDatagram(<<i, Wanted(i)>>)
    \/ \E a \in Answers : Awaited(a) /\ LoseAnswer(a)
    \/ \E t \in Threads :
           ReplyFails(t) /\ Awaited(<<c[t].ident, Kind(c[t].msg)>>)

\* The process is dead, or every machine has what it wants.
Stopped ==
    /\ fault # "none" \/ \A i \in Idents : phase[i] = "acked"
    /\ UNCHANGED vars

Next ==
    \/ \E i \in Idents : Transmit(i)
    \/ \E d \in Datagrams : LoseDatagram(d) \/ Deliver(d)
    \/ \E a \in Answers : LoseAnswer(a) \/ Hear(a)
    \/ \E t \in Threads : ThreadStep(t)
    \/ Die
    \/ Stopped

(***************************************************************************)
(* A machine keeps its timer, the network does not keep a datagram, and    *)
(* the operating system keeps scheduling a thread.  A datagram may always  *)
(* be lost instead, one that the listen loop leaves unread included.       *)
(***************************************************************************)
Fairness ==
    /\ \A i \in Idents : WF_vars(Transmit(i))
    /\ \A d \in Datagrams : WF_vars(Deliver(d) \/ LoseDatagram(d))
    /\ \A a \in Answers : WF_vars(Hear(a) \/ LoseAnswer(a))
    /\ \A t \in Threads : WF_vars(ThreadStep(t))

Spec == Init /\ [][Next]_vars /\ Fairness

-----------------------------------------------------------------------------
(***************************************************************************)
(* Properties.                                                             *)
(***************************************************************************)

(***************************************************************************)
(* However datagrams are repeated, reordered and answered from records of  *)
(* earlier ones, no machine is sent an ACK before it has heard an OFFER    *)
(* and asked for the file.                                                 *)
(***************************************************************************)
NoAckBeforeOffer ==
    \A a \in answers : a[2] = "ACK" => phase[a[1]] # "selecting"

(***************************************************************************)
(* A machine that keeps trying is acknowledged in the end, unless losses   *)
(* never end or the process dies.  An OFFER may arrive before the thread   *)
(* that made it erases its record, and the REQUEST be answered from that   *)
(* record with a second OFFER: no such record may last.                    *)
(***************************************************************************)
BootsUnlessObstructed ==
    \/ []<><<Loss>>_vars
    \/ <>(fault # "none")
    \/ <>(\A i \in Idents : phase[i] = "acked")
=============================================================================

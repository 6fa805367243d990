---------------------------- MODULE DhcpHandler ----------------------------
(***************************************************************************)
(* The DHCP and BOOTP half of Handle_Request, run by many detached threads *)
(* at once over Server::clients, the table the threads share without a     *)
(* lock.  A thread takes one datagram, files the client record it parsed   *)
(* under the hardware address, reads the record filed there back, works    *)
(* from what it read, sends one reply and erases the record.               *)
(*                                                                         *)
(* Every step below makes at most one access to shared state.  TFTP        *)
(* threads use the same std::map under IP addresses, keys that never equal *)
(* a hardware address, so their half of the table is a separate one here.  *)
(*                                                                         *)
(* A definition whose name ends in Bug is a wrong variant of the one after *)
(* it; the specification uses none of them.  They show which mistake in    *)
(* the code each property would report.                                    *)
(***************************************************************************)

CONSTANTS
    Threads,      \* the detached __Listen threads, one per datagram
    Idents,       \* hardware addresses, the keys createIdent makes
    Packets,      \* the datagrams the clients send
    NoRecord,     \* no client record
    StopAndWait   \* clients send nothing while an earlier datagram of
                  \* theirs is being handled

(***************************************************************************)
(* What the handler tells apart in a datagram.  class is option 60 as      *)
(* client::Init compares it; msg is option 53.                             *)
(***************************************************************************)
Classes == {"PXEClient", "PXEServer", "APPLEBSDP", "other", "none"}

Messages == {"DISCOVER", "REQUEST", "INFORM", "RELEASE", "unhandled", "none"}

Handled == {"DISCOVER", "REQUEST", "INFORM", "RELEASE"}

Packet == [ident : Idents, relayed : BOOLEAN, class : Classes, msg : Messages]

Vendors == {"UNKNOWNNO", "PXEClient", "PXEServer", "APPLEBSDP"}

PXEVendors == {"PXEClient", "PXEServer"}

\* A client object; src names the datagram it was parsed from.
Record == [src : Threads, ident : Idents, relayed : BOOLEAN,
           vendor : Vendors, msg : Messages]

ASSUME PacketAssumption == Packets \subseteq Packet

ASSUME NoRecordAssumption == NoRecord \notin Record

ASSUME StopAndWaitAssumption == StopAndWait \in BOOLEAN

VARIABLES
    pc,       \* pc[t]: where thread t is
    packet,   \* packet[t]: the client object t parsed, _client in the code
    clients,  \* clients[i]: the record filed under i, or NoRecord
    c,        \* c[t]: the record GetClient gave t
    sent,     \* the threads whose reply left the socket
    freed,    \* the threads whose copy was made from an erased record
    fault     \* what terminated the process, or "none"

vars == <<pc, packet, clients, c, sent, freed, fault>>

Stages == {"recv", "add", "lookup", "copy", "handle", "send", "remove",
           "done", "dropped"}

Faults == {"none", "out_of_range", "use_after_free", "no_message_type",
           "data_race"}

\* The types of the table, of the threads' copies and of the causes of death.
TypeOK ==
    /\ pc \in [Threads -> Stages]
    /\ packet \in [Threads -> Record \cup {NoRecord}]
    /\ clients \in [Idents -> Record \cup {NoRecord}]
    /\ c \in [Threads -> Record \cup {NoRecord}]
    /\ sent \in SUBSET Threads
    /\ freed \in SUBSET Threads
    /\ fault \in Faults

Init ==
    /\ pc = [t \in Threads |-> "recv"]
    /\ packet = [t \in Threads |-> NoRecord]
    /\ clients = [i \in Idents |-> NoRecord]
    /\ c = [t \in Threads |-> NoRecord]
    /\ sent = {}
    /\ freed = {}
    /\ fault = "none"

-----------------------------------------------------------------------------
(***************************************************************************)
(* Operators of the handler.                                               *)
(***************************************************************************)

Ended(t) == pc[t] \in {"done", "dropped"}

InFlight(t) == pc[t] # "recv" /\ ~Ended(t)

\* Bug: the text of option 60 is kept as it came.
ParsedVendorBug(class) == {class}

\* The vendors client::Init can leave in the record.  It never initialises
\* the member, so an option 60 it does not know leaves any value there.
ParsedVendor(class) ==
    {v \in Vendors :
        \/ class = "other"
        \/ class = "none" /\ v = "UNKNOWNNO"
        \/ v = class}

\* The client object made from datagram p, with v for its vendor.
NewClient(t, p, v) ==
    [src |-> t, ident |-> p.ident, relayed |-> p.relayed,
     vendor |-> v, msg |-> p.msg]

\* A record that Handle_Request takes as far as Server::Send.
Answerable(r) ==
    \/ r.relayed
    \/ r.vendor \in PXEVendors /\ r.msg \in Handled

\* A PXE record without option 53, which options.at(53) does not find.
LacksMessageType(r) ==
    ~r.relayed /\ r.vendor \in PXEVendors /\ r.msg = "none"

\* Bug: clear() in place of erase(ident).
RemoveClientBug(i) == clients' = [j \in Idents |-> NoRecord]

\* Server::RemoveClient: erasing an absent key changes nothing.
RemoveClient(i) == clients' = [clients EXCEPT ![i] = NoRecord]

Step(t, from, to) ==
    /\ fault = "none"
    /\ pc[t] = from
    /\ pc' = [pc EXCEPT ![t] = to]

\* The thread ends the process, by an uncaught exception or a bad access.
Terminate(cause) ==
    /\ fault' = cause
    /\ UNCHANGED <<pc, packet, clients, c, sent, freed>>

-----------------------------------------------------------------------------
(***************************************************************************)
(* Actions, in the order a thread performs them.                           *)
(***************************************************************************)

\* recvfrom returns, the client object is built and createIdent names it.
Receive(t) ==
    /\ Step(t, "recv", "add")
    /\ \E p \in Packets : \E v \in ParsedVendor(p.class) :
        /\ StopAndWait => \A e \in Threads :
                              InFlight(e) => packet[e].ident # p.ident
        /\ packet' = [packet EXCEPT ![t] = NewClient(t, p, v)]
    /\ UNCHANGED <<clients, c, sent, freed, fault>>

\* Server::AddClient keeps a record that is already filed.
AddClient(t) ==
    /\ Step(t, "add", "lookup")
    /\ clients' = [clients EXCEPT ![packet[t].ident] =
                       IF @ = NoRecord THEN packet[t] ELSE @]
    /\ UNCHANGED <<packet, c, sent, freed, fault>>

\* Server::GetClient returns a reference to the record.
GetClient(t) ==
    /\ Step(t, "lookup", "copy")
    /\ clients[packet[t].ident] # NoRecord
    /\ c' = [c EXCEPT ![t] = clients[packet[t].ident]]
    /\ UNCHANGED <<packet, clients, sent, freed, fault>>

\* std::map::at throws out of the thread's function.
GetClientThrows(t) ==
    /\ fault = "none"
    /\ pc[t] = "lookup"
    /\ clients[packet[t].ident] = NoRecord
    /\ Terminate("out_of_range")

\* The record is copied through the reference.
CopyClient(t) ==
    /\ Step(t, "copy", "handle")
    /\ clients[packet[t].ident] = c[t]
    /\ UNCHANGED <<packet, clients, c, sent, freed, fault>>

\* The record was erased in between: its memory still holds the old contents
\* or, once allocated again, those of any record filed since.
CopyFreed(t) ==
    /\ Step(t, "copy", "handle")
    /\ clients[packet[t].ident] # c[t]
    /\ \E r \in {c[t]} \cup {clients[i] : i \in Idents} :
        /\ r # NoRecord
        /\ c' = [c EXCEPT ![t] = r]
    /\ freed' = freed \cup {t}
    /\ UNCHANGED <<packet, clients, sent, fault>>

CopyFaults(t) ==
    /\ fault = "none"
    /\ pc[t] = "copy"
    /\ clients[packet[t].ident] # c[t]
    /\ Terminate("use_after_free")

\* Bug: the reply is built from any record of the table.
HandleBug(t) ==
    /\ Step(t, "handle", "send")
    /\ \E r \in {clients[i] : i \in Idents} :
        /\ r # NoRecord
        /\ c' = [c EXCEPT ![t] = r]
    /\ UNCHANGED <<packet, clients, sent, freed, fault>>

\* The switch over vendor and message type; a RELEASE erases the record
\* before the reply is built.
Handle(t) ==
    /\ Step(t, "handle", "send")
    /\ Answerable(c[t])
    /\ IF ~c[t].relayed /\ c[t].msg = "RELEASE"
       THEN RemoveClient(c[t].ident)
       ELSE UNCHANGED clients
    /\ UNCHANGED <<packet, c, sent, freed, fault>>

\* Bug: return in place of break after a RELEASE.
DropBug(t) ==
    /\ Step(t, "handle", "dropped")
    /\ ~Answerable(c[t]) \/ c[t].msg = "RELEASE"
    /\ UNCHANGED <<packet, clients, c, sent, freed, fault>>

\* The early returns of the two switches: the record stays in the table.
Drop(t) ==
    /\ Step(t, "handle", "dropped")
    /\ ~Answerable(c[t])
    /\ ~LacksMessageType(c[t])
    /\ UNCHANGED <<packet, clients, c, sent, freed, fault>>

\* std::map::at throws again, on the options this time.
MessageTypeThrows(t) ==
    /\ fault = "none"
    /\ pc[t] = "handle"
    /\ LacksMessageType(c[t])
    /\ Terminate("no_message_type")

\* Server::Send, whose result is ignored: the reply leaves or is lost.
Send(t) ==
    /\ Step(t, "send", "remove")
    /\ sent' \in {sent, sent \cup {t}}
    /\ UNCHANGED <<packet, clients, c, freed, fault>>

\* Bug: only the branch that is not relayed erases its record.
RemoveBug(t) ==
    /\ Step(t, "remove", "done")
    /\ IF c[t].relayed THEN UNCHANGED clients ELSE RemoveClient(c[t].ident)
    /\ UNCHANGED <<packet, c, sent, freed, fault>>

\* Bug: the record is never erased.
RemoveNothingBug(t) ==
    /\ Step(t, "remove", "done")
    /\ UNCHANGED <<packet, clients, c, sent, freed, fault>>

\* Bug: the thread waits for a reply that was lost.
RemoveWaitsBug(t) ==
    /\ Step(t, "remove", "done")
    /\ t \in sent
    /\ RemoveClient(c[t].ident)
    /\ UNCHANGED <<packet, c, sent, freed, fault>>

\* The record whose ident the thread copied is erased.
Remove(t) ==
    /\ Step(t, "remove", "done")
    /\ RemoveClient(c[t].ident)
    /\ UNCHANGED <<packet, c, sent, freed, fault>>

(***************************************************************************)
(* A thread is about to change the tree of the map, or to walk it.  Two    *)
(* such threads, one of them changing it, are a data race; of its outcomes *)
(* the model keeps the one in which the process dies of a broken tree.     *)
(***************************************************************************)
ChangesMap(t) ==
    \/ pc[t] = "add" /\ clients[packet[t].ident] = NoRecord
    \/ /\ pc[t] = "handle" /\ Answerable(c[t])
       /\ ~c[t].relayed /\ c[t].msg = "RELEASE"
       /\ clients[c[t].ident] # NoRecord
    \/ pc[t] = "remove" /\ clients[c[t].ident] # NoRecord

UsesMap(t) == pc[t] \in {"add", "lookup", "remove"} \/ ChangesMap(t)

MapRace ==
    /\ fault = "none"
    /\ \E t, e \in Threads : t # e /\ ChangesMap(t) /\ UsesMap(e)
    /\ Terminate("data_race")

ThreadStep(t) ==
    \/ AddClient(t)
    \/ GetClient(t) \/ GetClientThrows(t)
    \/ CopyClient(t) \/ CopyFreed(t) \/ CopyFaults(t)
    \/ Handle(t) \/ Drop(t) \/ MessageTypeThrows(t)
    \/ Send(t) \/ Remove(t)

\* The process is dead, or the bounded supply of datagrams is used up.
Stopped ==
    /\ fault # "none" \/ \A t \in Threads : Ended(t)
    /\ UNCHANGED vars

Next ==
    \/ \E t \in Threads : Receive(t) \/ ThreadStep(t)
    \/ MapRace
    \/ Stopped

\* The operating system keeps scheduling a thread; no client has to send.
Fairness == \A t \in Threads : WF_vars(ThreadStep(t))

SafeSpec == Init /\ [][Next]_vars

Spec == SafeSpec /\ Fairness

-----------------------------------------------------------------------------
(***************************************************************************)
(* Properties.                                                             *)
(***************************************************************************)

(***************************************************************************)
(* A request whose handling ran to the end has left nothing behind: the    *)
(* record parsed from it is not in the table any more, whatever other      *)
(* threads filed, read or erased meanwhile.  So only the early returns of  *)
(* Handle_Request leave records behind.                                    *)
(***************************************************************************)
NoRecordOutlivesReply ==
    \A t \in Threads, i \in Idents :
        pc[t] = "done" /\ clients[i] # NoRecord => clients[i].src # t

(***************************************************************************)
(* However the threads interleave, a reply goes to the client whose        *)
(* datagram the thread took, unless the thread copied a record that        *)
(* another thread had erased under it.                                     *)
(***************************************************************************)
ReplyStaysWithClient ==
    \A t \in sent \ freed : c[t].ident = packet[t].ident

(***************************************************************************)
(* Clients that wait for one datagram to be handled before they send the   *)
(* next never make GetClient throw and never have a record erased under a  *)
(* thread that copies it.                                                  *)
(***************************************************************************)
NoLookupFault ==
    StopAndWait => /\ fault \notin {"out_of_range", "use_after_free"}
                   /\ freed = {}

(***************************************************************************)
(* Under the same condition a reply that leaves the daemon was computed    *)
(* from the datagram it answers, never from a record some earlier datagram *)
(* left in the table.                                                      *)
(***************************************************************************)
RepliesAreFresh ==
    StopAndWait => \A t \in sent : c[t] = packet[t]

(***************************************************************************)
(* Under the same condition a datagram that deserves an answer is passed   *)
(* over only when an earlier datagram of the same client was itself passed *)
(* over by one of the early returns and is still in the table.             *)
(***************************************************************************)
IgnoredForCause ==
    StopAndWait =>
        \A t \in Threads :
            pc[t] = "dropped" /\ Answerable(packet[t]) =>
                \E e \in Threads \ {t} :
                    /\ pc[e] = "dropped"
                    /\ clients[packet[t].ident] = packet[e]
                    /\ ~Answerable(packet[e])

(***************************************************************************)
(* The daemon implements the promise of RequestReply.                      *)
(***************************************************************************)
StatusOf(t) ==
    CASE pc[t] = "recv" -> "unseen"
      [] pc[t] # "recv" /\ t \in sent -> "answered"
      [] t \notin sent /\ Ended(t) -> "silent"
      [] t \notin sent /\ InFlight(t) -> "open"

Promise ==
    INSTANCE RequestReply
        WITH Requests <- Threads,
             Fresh <- StopAndWait,
             status <- [t \in Threads |-> StatusOf(t)],
             basis <- [t \in Threads |-> IF t \in sent THEN {c[t].src} ELSE {}],
             alive <- fault = "none"

\* Each datagram is answered at most once, from a request that was accepted
\* (its own when the clients stop and wait), never after the process died,
\* and no accepted datagram stays open for ever.
KeepsPromise == Promise!Spec

(***************************************************************************)
(* What a network boot daemon is for: a request of a PXE client is never   *)
(* passed over.  The code breaks it: an early return leaves the record of  *)
(* a datagram that is not a PXE request in the table, and AddClient then   *)
(* keeps that record in place of every later request of the same client.   *)
(***************************************************************************)
PxeRequestIsNotIgnored ==
    \A t \in Threads : pc[t] = "dropped" => ~Answerable(packet[t])
=============================================================================

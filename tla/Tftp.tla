-------------------------------- MODULE Tftp --------------------------------
(***************************************************************************)
(* The TFTP half of Handle_Request with the file streams it opens, and the *)
(* DHCP threads that want a stream for GenerateBootMenue meanwhile.  All   *)
(* streams of the process come from one table of the C runtime.            *)
(*                                                                         *)
(* A TFTP thread files the record it parsed under the IP address of the    *)
(* sender, reads the record filed there back and works from that one, but  *)
(* looks for the transfer mode in its own datagram.  What it learns it     *)
(* writes to its copy, which ends with the thread.                         *)
(*                                                                         *)
(* The transfer itself is not written in the code: the cases for data,     *)
(* acknowledgements and errors are empty.  The window size a request asks  *)
(* for is parsed and never read.                                           *)
(*                                                                         *)
(* A definition whose name ends in Bug is a wrong variant of the one after *)
(* it; the specification uses none of them.                                *)
(***************************************************************************)
EXTENDS Naturals, FiniteSets

CONSTANTS
    Threads,     \* the detached __Listen threads of the TFTP endpoint
    Menus,       \* the threads of the DHCP endpoints that make a boot menu
    Hosts,       \* IP addresses
    Ports,       \* the senders' UDP ports
    FileNames,   \* the names a read request may ask for
    FileSize,    \* FileSize[f]: the length of f, if tftp_root has it to read
    Packets,     \* the datagrams that may reach the endpoint
    NoRecord,    \* no client record
    NoReply,     \* no OACK
    MaxOpen      \* streams the C runtime can have open at a time

Opcodes == {"TFTP_Read", "TFTP_Write", "TFTP_Data", "TFTP_Ack", "TFTP_Error",
            "TFTP_OACK", "unknown"}

\* An unsigned short.
Word == {n \in Nat : n < 65536}

\* The character codes of the digits.
Digit == 48..57

\* What is parsed out of a datagram.  blksize holds the first two characters
\* of that option's value, or is empty; octet says whether the word occurs in
\* the datagram, be it as the transfer mode or within another string.
Packet == [host : Hosts, port : Ports, opcode : Opcodes, file : FileNames,
           blksize : {<<>>} \cup Digit \X Digit, octet : BOOLEAN]

\* CLIENTSTATE, as far as TFTP goes.
States == {"TFTP_INIT", "TFTP_ERROR", "TFTP_DONE"}

\* A client object; src names the datagram it was parsed from.
Record == [src : Threads, ident : Hosts, port : Ports, opcode : Opcodes,
           filename : FileNames \cup {""}, blocksize : Word, state : States]

\* The option acknowledgement, the one kind of reply there is.
OACK == [to : Hosts, port : Ports, blksize : Word, tsize : Nat]

ASSUME ThreadsAssumption == IsFiniteSet(Threads) /\ IsFiniteSet(Menus)

ASSUME PacketAssumption == Packets \subseteq Packet

ASSUME FileAssumption ==
    /\ DOMAIN FileSize \subseteq FileNames
    /\ \A f \in DOMAIN FileSize : FileSize[f] \in Nat

ASSUME MaxOpenAssumption == MaxOpen \in Nat

ASSUME NoValueAssumption == NoRecord \notin Record /\ NoReply \notin OACK

VARIABLES
    pc,       \* pc[t]: where thread t is
    packet,   \* packet[t]: the client object t parsed
    octet,    \* octet[t]: the word "octet" occurs in t's datagram
    clients,  \* clients[h]: the record filed under h, or NoRecord
    c,        \* c[t]: the thread's copy of the record GetClient gave it
    opened,   \* the TFTP threads that opened a stream
    menu,     \* menu[m]: how far the boot menu of m has come
    reply,    \* reply[t]: the OACK that left the socket
    lost,     \* the threads whose OACK did not leave the socket
    fault     \* what terminated the process, or "none"

vars == <<pc, packet, octet, clients, c, opened, menu, reply, lost, fault>>

Stages == {"recv", "add", "lookup", "again", "serve", "send", "finish", "done"}

MenuStages == {"idle", "reading", "whole", "short"}

\* The types of the table, the threads' copies and the streams.
TypeOK ==
    /\ pc \in [Threads -> Stages]
    /\ packet \in [Threads -> Record \cup {NoRecord}]
    /\ octet \in [Threads -> BOOLEAN]
    /\ clients \in [Hosts -> Record \cup {NoRecord}]
    /\ c \in [Threads -> Record \cup {NoRecord}]
    /\ opened \in SUBSET Threads
    /\ menu \in [Menus -> MenuStages]
    /\ reply \in [Threads -> OACK \cup {NoReply}]
    /\ lost \in SUBSET Threads
    /\ fault \in {"none", "out_of_range", "data_race"}

Init ==
    /\ pc = [t \in Threads |-> "recv"]
    /\ packet = [t \in Threads |-> NoRecord]
    /\ octet = [t \in Threads |-> FALSE]
    /\ clients = [h \in Hosts |-> NoRecord]
    /\ c = [t \in Threads |-> NoRecord]
    /\ opened = {}
    /\ menu = [m \in Menus |-> "idle"]
    /\ reply = [t \in Threads |-> NoReply]
    /\ lost = {}
    /\ fault = "none"

-----------------------------------------------------------------------------
(***************************************************************************)
(* Operators of the handler.                                               *)
(***************************************************************************)

DefaultBlocksize == 1024

\* Bug: the bytes are swapped with the high one still in place.
ParsedBlocksizeBug(chars) ==
    IF chars = <<>> THEN DefaultBlocksize
    ELSE chars[2] + 256 * (chars[1] + 256 * chars[2])

\* client::Init copies two characters of the decimal number as they are.
ParsedBlocksize(chars) ==
    IF chars = <<>> THEN DefaultBlocksize ELSE chars[1] + 256 * chars[2]

\* The client object made from datagram p: only a read request has its file
\* name and its options looked at.
NewClient(t, p) ==
    LET read == p.opcode = "TFTP_Read"
    IN  [src |-> t, ident |-> p.host, port |-> p.port, opcode |-> p.opcode,
         filename |-> IF read THEN p.file ELSE "",
         blocksize |-> IF read THEN ParsedBlocksize(p.blksize)
                               ELSE DefaultBlocksize,
         state |-> "TFTP_INIT"]

Streams == Cardinality(opened) + Cardinality({m \in Menus : menu[m] = "reading"})

StreamLeft == Streams < MaxOpen

\* The bytes of the OACK, from the record the thread holds.
Acknowledgement(r) ==
    [to |-> r.ident, port |-> r.port, blksize |-> r.blocksize,
     tsize |-> FileSize[r.filename]]

Step(t, from, to) ==
    /\ fault = "none"
    /\ pc[t] = from
    /\ pc' = [pc EXCEPT ![t] = to]

\* The thread ends the process, by an uncaught exception or a broken map.
Terminate(cause) ==
    /\ fault' = cause
    /\ UNCHANGED <<pc, packet, octet, clients, c, opened, menu, reply, lost>>

\* Bug: the record filed last counts.
FiledBug(r) == [clients EXCEPT ![r.ident] = r]

\* The table after Server::AddClient, which keeps a record that is filed.
Filed(r) == [clients EXCEPT ![r.ident] = IF @ = NoRecord THEN r ELSE @]

-----------------------------------------------------------------------------
(***************************************************************************)
(* A TFTP thread, in the order of the code.                                *)
(***************************************************************************)

\* recvfrom returns, the client object is built and createIdent names it.
Receive(t) ==
    /\ Step(t, "recv", "add")
    /\ \E p \in Packets :
        /\ packet' = [packet EXCEPT ![t] = NewClient(t, p)]
        /\ octet' = [octet EXCEPT ![t] = p.octet]
    /\ UNCHANGED <<clients, c, opened, menu, reply, lost, fault>>

AddClient(t) ==
    /\ Step(t, "add", "lookup")
    /\ clients' = Filed(packet[t])
    /\ UNCHANGED <<packet, octet, c, opened, menu, reply, lost, fault>>

\* Server::GetClient throws when nothing is filed.
GetClient(t) ==
    /\ fault = "none"
    /\ pc[t] = "lookup"
    /\ IF clients[packet[t].ident] = NoRecord
       THEN Terminate("out_of_range")
       ELSE /\ Step(t, "lookup", "again")
            /\ c' = [c EXCEPT ![t] = clients[packet[t].ident]]
            /\ UNCHANGED <<packet, octet, clients, opened, menu, reply, lost, fault>>

\* The TFTP branch files and looks up the same record a second time.
FileAgain(t) ==
    /\ Step(t, "again", "serve")
    /\ clients' = Filed(packet[t])
    /\ c' = [c EXCEPT ![t] = clients'[packet[t].ident]]
    /\ UNCHANGED <<packet, octet, opened, menu, reply, lost, fault>>

\* The empty cases: writes, data, acknowledgements and errors.
PassOver(t) ==
    /\ Step(t, "serve", "finish")
    /\ c[t].opcode # "TFTP_Read"
    /\ UNCHANGED <<packet, octet, clients, c, opened, menu, reply, lost, fault>>

SetState(t, state) == c' = [c EXCEPT ![t].state = state]

\* Bug: fopen_s, which does not share a file, is called for fopen.
FileFailsBug(t) ==
    /\ Step(t, "serve", "finish")
    /\ c[t].opcode = "TFTP_Read"
    /\ \/ c[t].filename \in DOMAIN FileSize => ~StreamLeft
       \/ \E e \in opened : c[e].filename = c[t].filename
    /\ SetState(t, "TFTP_ERROR")
    /\ UNCHANGED <<packet, octet, clients, opened, menu, reply, lost, fault>>

\* A file that is not there, or no stream left to open it: nothing is sent.
FileFails(t) ==
    /\ Step(t, "serve", "finish")
    /\ c[t].opcode = "TFTP_Read"
    /\ c[t].filename \in DOMAIN FileSize => ~StreamLeft
    /\ SetState(t, "TFTP_ERROR")
    /\ UNCHANGED <<packet, octet, clients, opened, menu, reply, lost, fault>>

OpenFile(t) ==
    /\ c[t].opcode = "TFTP_Read"
    /\ c[t].filename \in DOMAIN FileSize
    /\ StreamLeft
    /\ opened' = opened \cup {t}

\* The datagram does not say octet: the stream is open, nothing is sent.
RefuseMode(t) ==
    /\ Step(t, "serve", "finish")
    /\ OpenFile(t)
    /\ ~octet[t]
    /\ SetState(t, "TFTP_ERROR")
    /\ UNCHANGED <<packet, octet, clients, menu, reply, lost, fault>>

AcceptRead(t) ==
    /\ Step(t, "serve", "send")
    /\ OpenFile(t)
    /\ octet[t]
    /\ SetState(t, "TFTP_INIT")
    /\ UNCHANGED <<packet, octet, clients, menu, reply, lost, fault>>

\* Server::Send, whose result is ignored.
Send(t) ==
    /\ Step(t, "send", "finish")
    /\ \/ /\ reply' = [reply EXCEPT ![t] = Acknowledgement(c[t])]
          /\ UNCHANGED lost
       \/ /\ lost' = lost \cup {t}
          /\ UNCHANGED reply
    /\ UNCHANGED <<packet, octet, clients, c, opened, menu, fault>>

\* Bug: a request that failed erases the record, too.
FinishBug(t) ==
    /\ Step(t, "finish", "done")
    /\ clients' = IF c[t].state \in {"TFTP_DONE", "TFTP_ERROR"}
                  THEN [clients EXCEPT ![c[t].ident] = NoRecord]
                  ELSE clients
    /\ UNCHANGED <<packet, octet, c, opened, menu, reply, lost, fault>>

\* Bug: the thread waits for an OACK that was lost.
FinishWaitsBug(t) ==
    /\ Step(t, "finish", "done")
    /\ t \notin lost
    /\ UNCHANGED <<packet, octet, clients, c, opened, menu, reply, lost, fault>>

\* Bug: the stream is closed with the thread, before the transfer has begun.
FinishClosesBug(t) ==
    /\ Step(t, "finish", "done")
    /\ opened' = opened \ {t}
    /\ UNCHANGED <<packet, octet, clients, c, menu, reply, lost, fault>>

\* The record is erased in a state that nothing sets.  The stream stays open.
Finish(t) ==
    /\ Step(t, "finish", "done")
    /\ clients' = IF c[t].state = "TFTP_DONE"
                  THEN [clients EXCEPT ![c[t].ident] = NoRecord]
                  ELSE clients
    /\ UNCHANGED <<packet, octet, c, opened, menu, reply, lost, fault>>

ThreadStep(t) ==
    \/ AddClient(t) \/ GetClient(t) \/ FileAgain(t)
    \/ PassOver(t) \/ FileFails(t) \/ RefuseMode(t) \/ AcceptRead(t)
    \/ Send(t) \/ Finish(t)

-----------------------------------------------------------------------------
(***************************************************************************)
(* The other threads of the process.                                       *)
(***************************************************************************)

MenuStep(m, from, to) ==
    /\ fault = "none"
    /\ menu[m] = from
    /\ menu' = [menu EXCEPT ![m] = to]
    /\ UNCHANGED <<pc, packet, octet, clients, c, opened, reply, lost, fault>>

\* GenerateBootMenue opens serverlist.txt, or goes on without its servers: the
\* list is not there, cannot be read, or no stream is left for it.
OpenServerList(m) ==
    \/ StreamLeft /\ MenuStep(m, "idle", "reading")
    \/ MenuStep(m, "idle", "short")

CloseServerList(m) == MenuStep(m, "reading", "whole")

\* Two threads are in the map, and one of them is about to change it.
MapRace ==
    /\ fault = "none"
    /\ \E t, e \in Threads :
        /\ t # e
        /\ pc[t] = "add" /\ clients[packet[t].ident] = NoRecord
        /\ pc[e] \in {"add", "lookup", "again"}
    /\ Terminate("data_race")

\* The process is dead, or the bounded supply of datagrams is used up.
Stopped ==
    /\ \/ fault # "none"
       \/ /\ \A t \in Threads : pc[t] = "done"
          /\ \A m \in Menus : menu[m] \in {"whole", "short"}
    /\ UNCHANGED vars

Next ==
    \/ \E t \in Threads : Receive(t) \/ ThreadStep(t)
    \/ \E m \in Menus : OpenServerList(m) \/ CloseServerList(m)
    \/ MapRace
    \/ Stopped

\* The operating system keeps scheduling a thread; no client has to send.
Fairness ==
    /\ \A t \in Threads : WF_vars(ThreadStep(t))
    /\ \A m \in Menus : WF_vars(CloseServerList(m))

Spec == Init /\ [][Next]_vars /\ Fairness

-----------------------------------------------------------------------------
(***************************************************************************)
(* Properties.                                                             *)
(***************************************************************************)

(***************************************************************************)
(* Every OACK a host receives is the answer to the first datagram of the   *)
(* host that was filed: it names that datagram's block size and the length *)
(* of that datagram's file, and goes to the port that one came from.       *)
(* Whatever a host asks for later, its threads agree on one answer.        *)
(***************************************************************************)
AnsweredFromFirst ==
    \A t \in Threads :
        reply[t] # NoReply =>
            LET first == clients[packet[t].ident]
            IN  first # NoRecord /\ reply[t] = Acknowledgement(packet[first.src])

(***************************************************************************)
(* An octet-mode read of an existing file stays unanswered only because    *)
(* the socket did not take the OACK, because the host's first datagram was *)
(* no read of an existing file, or because no stream was left, which the   *)
(* streams of earlier requests and of the menus that have read their list  *)
(* must account for.                                                       *)
(***************************************************************************)
Deserves(t) ==
    /\ packet[t].opcode = "TFTP_Read"
    /\ packet[t].filename \in DOMAIN FileSize
    /\ octet[t]

\* The menus that have had a stream.
Readers == {m \in Menus : menu[m] \in {"reading", "whole"}}

\* Requests and these menus are as many as there are streams.
Exhausted(menus) == Cardinality(opened) + Cardinality(menus) >= MaxOpen

UnansweredForCause ==
    \A t \in Threads :
        pc[t] = "done" /\ Deserves(t) /\ reply[t] = NoReply =>
            \/ t \in lost
            \/ LET first == clients[packet[t].ident]
               IN  /\ first.src # t
                   /\ first.opcode = "TFTP_Read" =>
                          first.filename \notin DOMAIN FileSize
            \/ Exhausted(Readers)

(***************************************************************************)
(* No thread looks up a record that is not there, although the code has a  *)
(* call that erases it and other threads of the host may be anywhere.      *)
(***************************************************************************)
NoLookupFault == fault # "out_of_range"

(***************************************************************************)
(* Streams that TFTP requests have used up do not come back, be a request  *)
(* answered, refused or its OACK lost: from then on no request is answered *)
(* that has not opened its file by then, and no further boot menu has the  *)
(* servers of serverlist.txt.                                              *)
(***************************************************************************)
ExhaustionIsFinal ==
    [][Exhausted({}) =>
           /\ Exhausted({})'
           /\ \A t \in Threads \ opened : reply'[t] = reply[t]
           /\ \A m \in Menus : menu'[m] = "whole" => menu[m] = "whole"]_vars

(***************************************************************************)
(* The handler implements RequestReply, with answers made from any request *)
(* that was accepted: a datagram is answered at most once, and an accepted *)
(* one does not stay open for ever unless the process has died.            *)
(***************************************************************************)
StatusOf(t) ==
    CASE pc[t] = "recv" -> "unseen"
      [] pc[t] # "recv" /\ reply[t] # NoReply -> "answered"
      [] pc[t] = "done" /\ reply[t] = NoReply -> "silent"
      [] pc[t] \notin {"recv", "done"} /\ reply[t] = NoReply -> "open"

Promise ==
    INSTANCE RequestReply
        WITH Requests <- Threads,
             Fresh <- FALSE,
             status <- [t \in Threads |-> StatusOf(t)],
             basis <- [t \in Threads |->
                          IF reply[t] = NoReply THEN {} ELSE {c[t].src}],
             alive <- fault = "none"

KeepsPromise == Promise!Spec
=============================================================================

-------------------------- MODULE DhcpHandlerProofs --------------------------
(***************************************************************************)
(* Proofs about DhcpHandler, for every set of threads, of addresses and of *)
(* datagrams.                                                              *)
(***************************************************************************)
EXTENDS DhcpHandler, TLAPS

-----------------------------------------------------------------------------
(***************************************************************************)
(* What holds under every interleaving.                                    *)
(***************************************************************************)

Copying == {"copy", "handle", "send", "remove", "done", "dropped"}

\* A thread that has received holds the record of its own datagram.
Parsed ==
    \A t \in Threads :
        pc[t] # "recv" => packet[t] \in Record /\ packet[t].src = t

\* A thread past GetClient holds some record, that of an accepted datagram.
Looked ==
    \A t \in Threads :
        pc[t] \in Copying => c[t] \in Record /\ pc[c[t].src] # "recv"

\* The table holds records as they were parsed, each under its own key, of
\* threads that have performed AddClient.
Filed ==
    \A i \in Idents :
        clients[i] # NoRecord =>
            /\ clients[i].ident = i
            /\ pc[clients[i].src] \notin {"recv", "add"}
            /\ clients[i] = packet[clients[i].src]

\* A thread whose own record is in the table found that one, or will.
Own ==
    \A t \in Threads :
        /\ pc[t] \in Copying
        /\ clients[packet[t].ident] # NoRecord
        /\ clients[packet[t].ident].src = t
        => c[t] = packet[t]

\* A record not copied from freed memory is one of the thread's own client.
Addressed ==
    \A t \in Threads :
        pc[t] \in Copying /\ t \notin freed => c[t].ident = packet[t].ident

\* A thread that took an early return had found nothing to answer.
Passed == \A t \in Threads : pc[t] = "dropped" => ~Answerable(c[t])

Replied == \A t \in sent : pc[t] \in {"remove", "done"}

Inv ==
    /\ TypeOK
    /\ Parsed
    /\ Looked
    /\ Filed
    /\ Own
    /\ Addressed
    /\ Passed
    /\ Replied
    /\ NoRecordOutlivesReply

-----------------------------------------------------------------------------
(***************************************************************************)
(* Typing.                                                                 *)
(***************************************************************************)

LEMMA NewClientType ==
    ASSUME NEW t \in Threads, NEW p \in Packets, NEW v \in Vendors
    PROVE  /\ NewClient(t, p, v) \in Record
           /\ NewClient(t, p, v).src = t
BY PacketAssumption DEF NewClient, Packet, Record

LEMMA ParsedVendorType ==
    ASSUME NEW class
    PROVE  ParsedVendor(class) \subseteq Vendors
BY DEF ParsedVendor

LEMMA ReceivedRecord ==
    ASSUME NEW t \in Threads, Receive(t)
    PROVE  \E r \in Record : packet' = [packet EXCEPT ![t] = r] /\ r.src = t
<1>1. PICK p \in Packets : \E v \in ParsedVendor(p.class) :
          packet' = [packet EXCEPT ![t] = NewClient(t, p, v)]
    BY DEF Receive
<1>2. PICK v \in ParsedVendor(p.class) :
          packet' = [packet EXCEPT ![t] = NewClient(t, p, v)]
    BY <1>1
<1>3. v \in Vendors
    BY ParsedVendorType
<1>4. NewClient(t, p, v) \in Record /\ NewClient(t, p, v).src = t
    BY <1>3, NewClientType
<1> QED
    BY <1>2, <1>4

LEMMA InitType == Init => TypeOK
BY DEF Init, TypeOK, Stages, Faults

LEMMA StepType ==
    ASSUME TypeOK, Parsed, [Next]_vars
    PROVE  TypeOK'
<1> USE DEF TypeOK
<1>1. ASSUME NEW t \in Threads, Receive(t)
      PROVE  TypeOK'
    <2>1. PICK r \in Record : packet' = [packet EXCEPT ![t] = r] /\ r.src = t
        BY <1>1, ReceivedRecord
    <2> QED
        BY <1>1, <2>1 DEF Receive, Step, Stages
<1>2. ASSUME NEW t \in Threads, AddClient(t)
      PROVE  TypeOK'
    BY <1>2 DEF AddClient, Step, Stages
<1>3. ASSUME NEW t \in Threads, GetClient(t)
      PROVE  TypeOK'
    <2>1. packet[t].ident \in Idents
        BY <1>3 DEF GetClient, Step, Parsed, Record
    <2> QED
        BY <1>3, <2>1 DEF GetClient, Step, Stages
<1>4. ASSUME NEW t \in Threads, CopyFreed(t)
      PROVE  TypeOK'
    BY <1>4 DEF CopyFreed, Step, Stages
<1>5. ASSUME NEW t \in Threads, Handle(t) \/ Remove(t)
      PROVE  TypeOK'
    BY <1>5 DEF Handle, Remove, RemoveClient, Step, Stages
<1>6. ASSUME NEW t \in Threads, CopyClient(t) \/ Drop(t) \/ Send(t)
      PROVE  TypeOK'
    BY <1>6 DEF CopyClient, Drop, Send, Step, Stages
<1>7. ASSUME NEW t \in Threads,
             GetClientThrows(t) \/ CopyFaults(t) \/ MessageTypeThrows(t)
      PROVE  TypeOK'
    BY <1>7 DEF GetClientThrows, CopyFaults, MessageTypeThrows, Terminate, Faults
<1>8. CASE MapRace
    BY <1>8 DEF MapRace, Terminate, Faults
<1>9. CASE UNCHANGED vars
    BY <1>9 DEF vars
<1> QED
    BY <1>1, <1>2, <1>3, <1>4, <1>5, <1>6, <1>7, <1>8, <1>9
    DEF Next, ThreadStep, Stopped

-----------------------------------------------------------------------------
(***************************************************************************)
(* The invariant of every interleaving.                                    *)
(***************************************************************************)

LEMMA InitInv == Init => Inv
<1> SUFFICES ASSUME Init
             PROVE  Inv
    OBVIOUS
<1>1. TypeOK
    BY InitType
<1> QED
    BY <1>1 DEF Init, Inv, Parsed, Looked, Filed, Own, Addressed, Passed,
                Replied, NoRecordOutlivesReply, Copying

LEMMA StepInv ==
    ASSUME Inv, [Next]_vars
    PROVE  Inv'
<1> USE DEF Copying
<1>0. TypeOK /\ TypeOK'
    BY StepType DEF Inv
<1>1. ASSUME NEW t \in Threads, Receive(t)
      PROVE  Inv'
    <2>1. PICK r \in Record : packet' = [packet EXCEPT ![t] = r] /\ r.src = t
        BY <1>1, ReceivedRecord
    <2>2. pc[t] = "recv" /\ pc' = [pc EXCEPT ![t] = "add"]
          /\ UNCHANGED <<clients, c, sent, freed>>
        BY <1>1 DEF Receive, Step
    <2>3. Parsed' /\ Looked' /\ Passed' /\ Replied' /\ Addressed'
        BY <1>0, <2>1, <2>2
        DEF Inv, TypeOK, Parsed, Looked, Passed, Replied, Addressed, Record
    <2>4. Filed' /\ Own' /\ NoRecordOutlivesReply'
        BY <1>0, <2>1, <2>2
        DEF Inv, TypeOK, Filed, Own, NoRecordOutlivesReply, Record
    <2> QED
        BY <1>0, <2>3, <2>4 DEF Inv
<1>2. ASSUME NEW t \in Threads, AddClient(t)
      PROVE  Inv'
    <2>1. packet[t] \in Record /\ packet[t].src = t /\ packet[t].ident \in Idents
        BY <1>2 DEF Inv, Parsed, AddClient, Step, Record
    <2>2. Parsed' /\ Looked' /\ Passed' /\ Replied' /\ Addressed'
        BY <1>0, <1>2
        DEF AddClient, Step, Inv, TypeOK, Parsed, Looked, Passed, Replied,
            Addressed, Record
    <2>3. Filed'
        BY <1>0, <1>2, <2>1 DEF AddClient, Step, Inv, TypeOK, Filed, Record
    <2>4. Own' /\ NoRecordOutlivesReply'
        BY <1>0, <1>2, <2>1
        DEF AddClient, Step, Inv, TypeOK, Own, NoRecordOutlivesReply, Parsed,
            Record
    <2> QED
        BY <1>0, <2>2, <2>3, <2>4 DEF Inv
<1>3. ASSUME NEW t \in Threads, GetClient(t)
      PROVE  Inv'
    <2>1. packet[t] \in Record /\ packet[t].ident \in Idents
        BY <1>3 DEF Inv, Parsed, GetClient, Step, Record
    <2> DEFINE r == clients[packet[t].ident]
    <2>2. r \in Record /\ r.ident = packet[t].ident
          /\ pc[r.src] \notin {"recv", "add"} /\ r = packet[r.src]
        BY <1>0, <1>3, <2>1 DEF GetClient, Step, Inv, TypeOK, Filed
    <2>3. c' = [c EXCEPT ![t] = r] /\ pc[t] = "lookup"
          /\ pc' = [pc EXCEPT ![t] = "copy"]
          /\ UNCHANGED <<packet, clients, sent, freed>>
        BY <1>3 DEF GetClient, Step
    <2> HIDE DEF r
    <2>4. Parsed' /\ Passed' /\ Replied'
        BY <1>0, <2>3 DEF Inv, TypeOK, Parsed, Passed, Replied
    <2>5. Looked' /\ Addressed'
        BY <1>0, <2>2, <2>3 DEF Inv, TypeOK, Looked, Addressed, Record
    <2>6. Filed' /\ Own' /\ NoRecordOutlivesReply'
        BY <1>0, <2>2, <2>3
        DEF r, Inv, TypeOK, Filed, Own, NoRecordOutlivesReply, Record
    <2> QED
        BY <1>0, <2>4, <2>5, <2>6 DEF Inv
<1>4. ASSUME NEW t \in Threads, CopyClient(t) \/ Drop(t) \/ Send(t)
      PROVE  Inv'
    <2>1. Parsed' /\ Looked' /\ Passed' /\ Replied' /\ Addressed'
        BY <1>0, <1>4
        DEF CopyClient, Drop, Send, Step, Inv, TypeOK, Parsed, Looked, Passed,
            Replied, Addressed, Record
    <2>2. Filed' /\ Own' /\ NoRecordOutlivesReply'
        BY <1>0, <1>4
        DEF CopyClient, Drop, Send, Step, Inv, TypeOK, Filed, Own,
            NoRecordOutlivesReply, Record
    <2> QED
        BY <1>0, <2>1, <2>2 DEF Inv
<1>5. ASSUME NEW t \in Threads, CopyFreed(t)
      PROVE  Inv'
    <2>1. PICK r \in {c[t]} \cup {clients[i] : i \in Idents} :
              r # NoRecord /\ c' = [c EXCEPT ![t] = r]
        BY <1>5 DEF CopyFreed
    <2>2. pc[t] = "copy" /\ pc' = [pc EXCEPT ![t] = "handle"]
          /\ clients[packet[t].ident] # c[t]
          /\ freed' = freed \cup {t} /\ UNCHANGED <<packet, clients, sent>>
        BY <1>5 DEF CopyFreed, Step
    <2>3. r \in Record /\ pc[r.src] # "recv"
        BY <1>0, <2>1, <2>2 DEF Inv, TypeOK, Looked, Filed
    <2>4. Parsed' /\ Passed' /\ Replied' /\ Addressed' /\ Looked'
        BY <1>0, <2>1, <2>2, <2>3
        DEF Inv, TypeOK, Parsed, Passed, Replied, Addressed, Looked, Record
    <2>5. Filed' /\ NoRecordOutlivesReply'
        BY <1>0, <2>2 DEF Inv, TypeOK, Filed, NoRecordOutlivesReply, Record
    <2>6. Own'
        BY <1>0, <2>1, <2>2
        DEF Inv, TypeOK, Own, Filed, Parsed, Record
    <2> QED
        BY <1>0, <2>4, <2>5, <2>6 DEF Inv
<1>6. ASSUME NEW t \in Threads, Handle(t)
      PROVE  Inv'
    <2>1. pc[t] = "handle" /\ pc' = [pc EXCEPT ![t] = "send"]
          /\ UNCHANGED <<packet, c, sent, freed>>
        BY <1>6 DEF Handle, Step
    <2>2. \A i \in Idents : clients'[i] \in {clients[i], NoRecord}
        BY <1>0, <1>6 DEF Handle, RemoveClient, TypeOK
    <2>3. Parsed' /\ Looked' /\ Passed' /\ Replied' /\ Addressed'
        BY <1>0, <2>1
        DEF Inv, TypeOK, Parsed, Looked, Passed, Replied, Addressed, Record
    <2>4. Filed' /\ NoRecordOutlivesReply'
        BY <1>0, <2>1, <2>2
        DEF Inv, TypeOK, Filed, NoRecordOutlivesReply, Record
    <2>5. Own'
        BY <1>0, <2>1, <2>2 DEF Inv, TypeOK, Own, Parsed, Record
    <2> QED
        BY <1>0, <2>3, <2>4, <2>5 DEF Inv
<1>7. ASSUME NEW t \in Threads, Remove(t)
      PROVE  Inv'
    <2>1. pc[t] = "remove" /\ pc' = [pc EXCEPT ![t] = "done"]
          /\ clients' = [clients EXCEPT ![c[t].ident] = NoRecord]
          /\ UNCHANGED <<packet, c, sent, freed>>
        BY <1>7 DEF Remove, RemoveClient, Step
    <2>2. Parsed' /\ Looked' /\ Passed' /\ Replied' /\ Addressed'
        BY <1>0, <2>1
        DEF Inv, TypeOK, Parsed, Looked, Passed, Replied, Addressed, Record
    <2>3. Filed'
        BY <1>0, <2>1 DEF Inv, TypeOK, Filed, Record
    <2>4. Own'
        BY <1>0, <2>1 DEF Inv, TypeOK, Own, Parsed, Record
    <2>5. ASSUME NEW i \in Idents, clients'[i] # NoRecord
          PROVE  clients'[i].src # t
        <3>1. i # c[t].ident /\ clients[i] # NoRecord
            BY <1>0, <2>1, <2>5 DEF TypeOK
        <3>2. ASSUME clients[i].src = t
              PROVE  FALSE
            <4>1. i = packet[t].ident
                BY <3>1, <3>2 DEF Inv, Filed
            <4> QED
                BY <2>1, <3>1, <3>2, <4>1 DEF Inv, Own
        <3> QED
            BY <1>0, <2>1, <3>1, <3>2 DEF TypeOK
    <2>6. NoRecordOutlivesReply'
        BY <1>0, <2>1, <2>5 DEF Inv, TypeOK, NoRecordOutlivesReply
    <2> QED
        BY <1>0, <2>2, <2>3, <2>4, <2>6 DEF Inv
<1>8. CASE UNCHANGED <<pc, packet, clients, c, sent, freed>>
    BY <1>0, <1>8
    DEF Inv, Parsed, Looked, Filed, Own, Addressed, Passed, Replied,
        NoRecordOutlivesReply
<1> QED
    BY <1>1, <1>2, <1>3, <1>4, <1>5, <1>6, <1>7, <1>8
    DEF Next, ThreadStep, Stopped, MapRace, GetClientThrows, CopyFaults,
        MessageTypeThrows, Terminate, vars

LEMMA SafeInv == SafeSpec => []Inv
BY InitInv, StepInv, PTL DEF SafeSpec

\* Every variable keeps its type, whatever the threads do.
THEOREM TypeCorrect == Spec => []TypeOK
<1>1. Inv => TypeOK
    BY DEF Inv
<1> QED
    BY <1>1, SafeInv, PTL DEF Spec

(***************************************************************************)
(* A thread whose reply was sent leaves no record of its own behind, for   *)
(* every number of threads and clients and under every interleaving.       *)
(***************************************************************************)
THEOREM RecordsAreErased == Spec => []NoRecordOutlivesReply
<1>1. Inv => NoRecordOutlivesReply
    BY DEF Inv
<1> QED
    BY <1>1, SafeInv, PTL DEF Spec

(***************************************************************************)
(* A reply built from memory that was not freed goes to the client whose   *)
(* datagram the thread took.                                               *)
(***************************************************************************)
THEOREM RepliesStayWithClients == Spec => []ReplyStaysWithClient
<1>1. Inv => ReplyStaysWithClient
    BY DEF Inv, TypeOK, Addressed, Replied, ReplyStaysWithClient, Copying
<1> QED
    BY <1>1, SafeInv, PTL DEF Spec

-----------------------------------------------------------------------------
(***************************************************************************)
(* What holds beside Inv when clients stop and wait.                       *)
(***************************************************************************)

\* No two threads handle datagrams of one client at once.
Serial ==
    \A t, e \in Threads :
        t # e /\ InFlight(t) /\ InFlight(e) => packet[t].ident # packet[e].ident

\* Between AddClient and the reply the client has a record in the table.
Held ==
    \A t \in Threads :
        pc[t] \in {"lookup", "copy", "handle"} => clients[packet[t].ident] # NoRecord

Copied ==
    \A t \in Threads :
        pc[t] \in {"copy", "handle"} => clients[packet[t].ident] = c[t]

\* A thread that replies works from its own datagram.
Answered ==
    \A t \in Threads : pc[t] \in {"send", "remove", "done"} => c[t] = packet[t]

\* Under a replying thread's address there is its own record or none.
Kept ==
    \A t \in Threads :
        pc[t] \in {"send", "remove"} =>
            clients[packet[t].ident] \in {NoRecord, packet[t]}

SerialInv ==
    /\ Serial
    /\ Held
    /\ Copied
    /\ Answered
    /\ Kept
    /\ NoLookupFault
    /\ IgnoredForCause

LEMMA ReceivedSerially ==
    ASSUME StopAndWait, NEW t \in Threads, Receive(t)
    PROVE  \E r \in Record :
               /\ packet' = [packet EXCEPT ![t] = r]
               /\ r.src = t
               /\ \A e \in Threads : InFlight(e) => packet[e].ident # r.ident
<1>1. PICK p \in Packets : \E v \in ParsedVendor(p.class) :
          /\ \A e \in Threads : InFlight(e) => packet[e].ident # p.ident
          /\ packet' = [packet EXCEPT ![t] = NewClient(t, p, v)]
    BY DEF Receive
<1>2. PICK v \in ParsedVendor(p.class) :
          /\ \A e \in Threads : InFlight(e) => packet[e].ident # p.ident
          /\ packet' = [packet EXCEPT ![t] = NewClient(t, p, v)]
    BY <1>1
<1>3. v \in Vendors
    BY ParsedVendorType
<1>4. /\ NewClient(t, p, v) \in Record
      /\ NewClient(t, p, v).src = t
      /\ NewClient(t, p, v).ident = p.ident
    BY <1>3, NewClientType DEF NewClient
<1> QED
    BY <1>2, <1>4

\* A record some other thread left in the table has nothing to answer.
LEMMA LeftRecord ==
    ASSUME Inv, Serial, NEW t \in Threads, InFlight(t),
           clients[packet[t].ident] # NoRecord,
           clients[packet[t].ident].src # t
    PROVE  LET e == clients[packet[t].ident].src
           IN  /\ e \in Threads \ {t}
               /\ pc[e] = "dropped"
               /\ clients[packet[t].ident] = packet[e]
               /\ ~Answerable(packet[e])
<1> DEFINE i == packet[t].ident
           e == clients[i].src
<1>1. i \in Idents
    BY DEF Inv, Parsed, InFlight, Record
<1>2. clients[i] \in Record /\ e \in Threads \ {t}
    BY <1>1 DEF Inv, TypeOK, Record
<1>3. clients[i].ident = i /\ pc[e] \notin {"recv", "add"} /\ clients[i] = packet[e]
    BY <1>1 DEF Inv, Filed
<1>4. ~InFlight(e)
    BY <1>2, <1>3 DEF Serial
<1>5. pc[e] # "done"
    BY <1>1, <1>2 DEF Inv, NoRecordOutlivesReply
<1>6. pc[e] = "dropped"
    BY <1>2, <1>3, <1>4, <1>5 DEF Inv, TypeOK, Stages, InFlight, Ended
<1>7. c[e] = packet[e]
    BY <1>2, <1>3, <1>6 DEF Inv, Own, Copying
<1> QED
    BY <1>2, <1>3, <1>6, <1>7 DEF Inv, Passed

\* Erasing the record of one client leaves those of the others.
LEMMA OwnKey ==
    ASSUME StopAndWait, Inv, NoLookupFault, NEW t \in Threads,
           pc[t] \in {"handle", "remove"}
    PROVE  c[t].ident = packet[t].ident /\ packet[t].ident \in Idents
BY DEF Inv, Addressed, Copying, NoLookupFault, Parsed, Record

LEMMA InitSerialInv == Init => SerialInv
BY DEF Init, SerialInv, Serial, Held, Copied, Answered, Kept, NoLookupFault,
       IgnoredForCause, InFlight, Ended

LEMMA StepSerialInv ==
    ASSUME StopAndWait, Inv, Inv', SerialInv, [Next]_vars
    PROVE  SerialInv'
<1> USE DEF InFlight, Ended
<1>0. TypeOK /\ TypeOK'
    BY DEF Inv
<1>1. ASSUME NEW t \in Threads, Receive(t)
      PROVE  SerialInv'
    <2>1. PICK r \in Record :
              /\ packet' = [packet EXCEPT ![t] = r]
              /\ r.src = t
              /\ \A e \in Threads : InFlight(e) => packet[e].ident # r.ident
        BY <1>1, ReceivedSerially
    <2>2. pc[t] = "recv" /\ pc' = [pc EXCEPT ![t] = "add"]
          /\ UNCHANGED <<clients, c, sent, freed, fault>>
        BY <1>1 DEF Receive, Step
    <2>3. Serial'
        BY <1>0, <2>1, <2>2 DEF TypeOK, SerialInv, Serial
    <2>4. Held' /\ Copied' /\ Answered' /\ Kept' /\ NoLookupFault'
        BY <1>0, <2>1, <2>2
        DEF TypeOK, SerialInv, Held, Copied, Answered, Kept, NoLookupFault
    <2>5. IgnoredForCause'
        BY <1>0, <2>1, <2>2 DEF TypeOK, SerialInv, IgnoredForCause
    <2> QED
        BY <2>3, <2>4, <2>5 DEF SerialInv
<1>2. ASSUME NEW t \in Threads, AddClient(t)
      PROVE  SerialInv'
    <2>1. packet[t] \in Record /\ packet[t].ident \in Idents
        BY <1>2 DEF Inv, Parsed, AddClient, Step, Record
    <2>2. pc[t] = "add" /\ pc' = [pc EXCEPT ![t] = "lookup"]
          /\ UNCHANGED <<packet, c, sent, freed, fault>>
        BY <1>2 DEF AddClient, Step
    <2>3. /\ clients'[packet[t].ident] # NoRecord
          /\ \A i \in Idents :
                 i # packet[t].ident \/ clients[i] # NoRecord =>
                     clients'[i] = clients[i]
        BY <1>0, <1>2, <2>1, NoRecordAssumption DEF AddClient, TypeOK
    <2>4. \A e \in Threads : InFlight(e) => packet[e].ident \in Idents
        BY DEF Inv, Parsed, Record
    <2>5. Serial'
        BY <1>0, <2>2 DEF TypeOK, SerialInv, Serial
    <2>6. Held'
        BY <1>0, <2>2, <2>3, <2>4 DEF TypeOK, SerialInv, Held
    <2>7. Copied' /\ Answered' /\ NoLookupFault'
        BY <1>0, <2>2, <2>3, <2>4
        DEF TypeOK, SerialInv, Held, Copied, Answered, NoLookupFault
    <2>8. Kept'
        BY <1>0, <2>2, <2>3, <2>4 DEF TypeOK, SerialInv, Serial, Kept
    <2>9. IgnoredForCause'
        <3>1. ASSUME NEW f \in Threads, pc'[f] = "dropped", Answerable(packet[f])
              PROVE  clients'[packet[f].ident] = clients[packet[f].ident]
            <4>1. pc[f] = "dropped" /\ packet[f].ident \in Idents
                BY <1>0, <2>2, <3>1 DEF Inv, TypeOK, Parsed, Record
            <4>2. PICK e \in Threads : pc[e] = "dropped"
                                      /\ clients[packet[f].ident] = packet[e]
                BY <3>1, <4>1 DEF SerialInv, IgnoredForCause
            <4>3. clients[packet[f].ident] # NoRecord
                BY <4>2, NoRecordAssumption DEF Inv, Parsed
            <4> QED
                BY <2>3, <4>1, <4>3
        <3> QED
            BY <1>0, <2>2, <3>1
            DEF TypeOK, SerialInv, IgnoredForCause, Answerable
    <2> QED
        BY <2>5, <2>6, <2>7, <2>8, <2>9 DEF SerialInv
<1>3. ASSUME NEW t \in Threads, GetClient(t)
      PROVE  SerialInv'
    BY <1>0, <1>3
    DEF GetClient, Step, TypeOK, SerialInv, Serial, Held, Copied, Answered,
        Kept, NoLookupFault, IgnoredForCause
<1>4. ASSUME NEW t \in Threads, CopyClient(t) \/ Send(t)
      PROVE  SerialInv'
    BY <1>0, <1>4
    DEF CopyClient, Send, Step, TypeOK, SerialInv, Serial, Held, Copied,
        Answered, Kept, NoLookupFault, IgnoredForCause
<1>5. ASSUME NEW t \in Threads, Drop(t)
      PROVE  SerialInv'
    <2>1. pc[t] = "handle" /\ pc' = [pc EXCEPT ![t] = "dropped"]
          /\ ~Answerable(c[t]) /\ UNCHANGED <<packet, clients, c, sent, freed, fault>>
        BY <1>5 DEF Drop, Step
    <2>2. Serial' /\ Held' /\ Copied' /\ Answered' /\ Kept' /\ NoLookupFault'
        BY <1>0, <2>1
        DEF TypeOK, SerialInv, Serial, Held, Copied, Answered, Kept,
            NoLookupFault
    <2>3. ASSUME Answerable(packet[t])
          PROVE  \E e \in Threads \ {t} :
                     /\ pc[e] = "dropped"
                     /\ clients[packet[t].ident] = packet[e]
                     /\ ~Answerable(packet[e])
        <3>1. clients[packet[t].ident] # NoRecord /\ clients[packet[t].ident] = c[t]
            BY <2>1 DEF SerialInv, Held, Copied
        <3>2. c[t] # packet[t]
            BY <2>1, <2>3
        <3>3. clients[packet[t].ident].src # t
            BY <2>1, <3>1, <3>2 DEF Inv, Own, Copying
        <3> QED
            BY <2>1, <3>1, <3>3, LeftRecord DEF SerialInv
    <2>4. IgnoredForCause'
        BY <1>0, <2>1, <2>3 DEF TypeOK, SerialInv, IgnoredForCause, Answerable
    <2> QED
        BY <2>2, <2>4 DEF SerialInv
<1>6. ASSUME NEW t \in Threads, Handle(t)
      PROVE  SerialInv'
    <2>1. pc[t] = "handle" /\ pc' = [pc EXCEPT ![t] = "send"]
          /\ Answerable(c[t]) /\ UNCHANGED <<packet, c, sent, freed, fault>>
        BY <1>6 DEF Handle, Step
    <2>2. c[t].ident = packet[t].ident /\ packet[t].ident \in Idents
        BY <2>1, OwnKey DEF SerialInv
    <2>3. /\ clients'[packet[t].ident] \in {clients[packet[t].ident], NoRecord}
          /\ \A i \in Idents : i # packet[t].ident => clients'[i] = clients[i]
        BY <1>0, <1>6, <2>2 DEF Handle, RemoveClient, TypeOK
    <2>4. clients[packet[t].ident] # NoRecord /\ clients[packet[t].ident] = c[t]
        BY <2>1 DEF SerialInv, Held, Copied
    <2>5. c[t] = packet[t]
        <3>1. clients[packet[t].ident].src = t
            BY <2>1, <2>4, LeftRecord DEF SerialInv
        <3> QED
            BY <2>1, <2>4, <3>1 DEF Inv, Own, Copying
    <2>6. \A e \in Threads : InFlight(e) => packet[e].ident \in Idents
        BY DEF Inv, Parsed, Record
    <2>7. Serial' /\ Answered' /\ NoLookupFault'
        BY <1>0, <2>1, <2>5 DEF TypeOK, SerialInv, Serial, Answered, NoLookupFault
    <2>8. Held' /\ Copied' /\ Kept'
        BY <1>0, <2>1, <2>3, <2>4, <2>5, <2>6
        DEF TypeOK, SerialInv, Serial, Held, Copied, Kept
    <2>9. IgnoredForCause'
        <3>1. ASSUME NEW f \in Threads, pc'[f] = "dropped", Answerable(packet[f])
              PROVE  clients'[packet[f].ident] = clients[packet[f].ident]
            <4>1. pc[f] = "dropped" /\ packet[f].ident \in Idents
                BY <1>0, <2>1, <3>1 DEF Inv, TypeOK, Parsed, Record
            <4>2. ~Answerable(clients[packet[f].ident])
                BY <3>1, <4>1 DEF SerialInv, IgnoredForCause
            <4>3. packet[f].ident # packet[t].ident
                BY <2>1, <2>4, <4>2
            <4> QED
                BY <2>3, <4>1, <4>3
        <3> QED
            BY <1>0, <2>1, <3>1
            DEF TypeOK, SerialInv, IgnoredForCause, Answerable
    <2> QED
        BY <2>7, <2>8, <2>9 DEF SerialInv
<1>7. ASSUME NEW t \in Threads, Remove(t)
      PROVE  SerialInv'
    <2>1. pc[t] = "remove" /\ pc' = [pc EXCEPT ![t] = "done"]
          /\ clients' = [clients EXCEPT ![c[t].ident] = NoRecord]
          /\ UNCHANGED <<packet, c, sent, freed, fault>>
        BY <1>7 DEF Remove, RemoveClient, Step
    <2>2. c[t].ident = packet[t].ident /\ packet[t].ident \in Idents
        BY <2>1, OwnKey DEF SerialInv
    <2>3. \A i \in Idents : i # packet[t].ident => clients'[i] = clients[i]
        BY <1>0, <2>1, <2>2 DEF TypeOK
    <2>4. \A e \in Threads : InFlight(e) => packet[e].ident \in Idents
        BY DEF Inv, Parsed, Record
    <2>5. Serial' /\ Answered' /\ NoLookupFault'
        BY <1>0, <2>1 DEF TypeOK, SerialInv, Serial, Answered, NoLookupFault
    <2>6. Held' /\ Copied' /\ Kept'
        BY <1>0, <2>1, <2>3, <2>4
        DEF TypeOK, SerialInv, Serial, Held, Copied, Kept
    <2>7. IgnoredForCause'
        <3>1. ASSUME NEW f \in Threads, pc'[f] = "dropped", Answerable(packet[f])
              PROVE  clients'[packet[f].ident] = clients[packet[f].ident]
            <4>1. pc[f] = "dropped" /\ packet[f].ident \in Idents
                BY <1>0, <2>1, <3>1 DEF Inv, TypeOK, Parsed, Record
            <4>2. PICK e \in Threads : pc[e] = "dropped"
                                      /\ clients[packet[f].ident] = packet[e]
                BY <3>1, <4>1 DEF SerialInv, IgnoredForCause
            <4>3. packet[e] \in Record /\ packet[e].src = e
                  /\ packet[t] \in Record /\ packet[t].src = t
                BY <2>1, <4>2 DEF Inv, Parsed
            <4>4. clients[packet[t].ident] \in {NoRecord, packet[t]}
                BY <2>1 DEF SerialInv, Kept
            <4>5. packet[f].ident # packet[t].ident
                BY <2>1, <4>2, <4>3, <4>4, NoRecordAssumption
            <4> QED
                BY <2>3, <4>1, <4>5
        <3> QED
            BY <1>0, <2>1, <3>1
            DEF TypeOK, SerialInv, IgnoredForCause, Answerable
    <2> QED
        BY <2>5, <2>6, <2>7 DEF SerialInv
<1>8. ASSUME NEW t \in Threads, CopyFreed(t) \/ GetClientThrows(t) \/ CopyFaults(t)
      PROVE  FALSE
    BY <1>8 DEF CopyFreed, GetClientThrows, CopyFaults, Step, SerialInv, Held, Copied
<1>9. CASE /\ fault' = fault \/ fault' \in {"no_message_type", "data_race"}
           /\ UNCHANGED <<pc, packet, clients, c, sent, freed>>
    BY <1>9
    DEF SerialInv, Serial, Held, Copied, Answered, Kept, NoLookupFault,
        IgnoredForCause
<1> QED
    BY <1>1, <1>2, <1>3, <1>4, <1>5, <1>6, <1>7, <1>8, <1>9
    DEF Next, ThreadStep, Stopped, MapRace, MessageTypeThrows, Terminate, vars

LEMMA SafeSerialInv == StopAndWait /\ SafeSpec => []SerialInv
<1>1. ASSUME StopAndWait
      PROVE  SafeSpec => []SerialInv
    <2>1. Inv /\ Inv' /\ SerialInv /\ [Next]_vars => SerialInv'
        BY <1>1, StepSerialInv
    <2> QED
        BY InitSerialInv, SafeInv, <2>1, PTL DEF SafeSpec
<1> QED
    BY <1>1

(***************************************************************************)
(* When clients stop and wait no thread misses its record or copies one    *)
(* that was erased.                                                        *)
(***************************************************************************)
THEOREM NoLookupFaults == Spec => []NoLookupFault
<1>1. SerialInv => NoLookupFault
    BY DEF SerialInv
<1>2. CASE StopAndWait
    BY <1>1, <1>2, SafeSerialInv, PTL DEF Spec
<1>3. CASE ~StopAndWait
    <2>1. NoLookupFault
        BY <1>3 DEF NoLookupFault
    <2> QED
        BY <2>1, PTL
<1> QED
    BY <1>2, <1>3

(***************************************************************************)
(* When clients stop and wait every reply was computed from the datagram   *)
(* it answers: AddClient never finds a record of an earlier one that would *)
(* be answered.                                                            *)
(***************************************************************************)
THEOREM FreshReplies == Spec => []RepliesAreFresh
<1>1. Inv /\ SerialInv => RepliesAreFresh
    BY DEF Inv, TypeOK, Replied, SerialInv, Answered, RepliesAreFresh
<1>2. CASE StopAndWait
    BY <1>1, <1>2, SafeInv, SafeSerialInv, PTL DEF Spec
<1>3. CASE ~StopAndWait
    <2>1. RepliesAreFresh
        BY <1>3 DEF RepliesAreFresh
    <2> QED
        BY <2>1, PTL
<1> QED
    BY <1>2, <1>3

(***************************************************************************)
(* When clients stop and wait, a request that deserves an answer gets none *)
(* only behind a datagram of the same client that an early return left in  *)
(* the table.                                                              *)
(***************************************************************************)
THEOREM IgnoredOnlyForCause == Spec => []IgnoredForCause
<1>1. SerialInv => IgnoredForCause
    BY DEF SerialInv
<1>2. CASE StopAndWait
    BY <1>1, <1>2, SafeSerialInv, PTL DEF Spec
<1>3. CASE ~StopAndWait
    <2>1. IgnoredForCause
        BY <1>3 DEF IgnoredForCause
    <2> QED
        BY <2>1, PTL
<1> QED
    BY <1>2, <1>3

-----------------------------------------------------------------------------
(***************************************************************************)
(* The handler implements RequestReply.  In the terms of the abstract      *)
(* specification AddClient, GetClient and the copy change nothing; the     *)
(* reply that leaves is Answer, an early return or a lost reply Ignore.    *)
(***************************************************************************)

LEMMA InitPromise == Init => Promise!Init
<1> SUFFICES ASSUME Init
             PROVE  Promise!Init
    OBVIOUS
<1>1. \A t \in Threads : StatusOf(t) = "unseen" /\ t \notin sent
    BY DEF Init, StatusOf, InFlight, Ended
<1>2. [t \in Threads |-> StatusOf(t)] = [t \in Threads |-> "unseen"]
    BY <1>1
<1>3. [t \in Threads |-> IF t \in sent THEN {c[t].src} ELSE {}]
          = [t \in Threads |-> {}]
    BY <1>1
<1>4. (fault = "none") = TRUE
    BY DEF Init
<1> QED
    BY <1>2, <1>3, <1>4, Zenon DEF Promise!Init

\* A step of thread t leaves the status and the basis of the others alone.
LEMMA OthersKeep ==
    ASSUME TypeOK, TypeOK', NEW t \in Threads,
           \A e \in Threads \ {t} :
               /\ pc'[e] = pc[e]
               /\ e \in sent' <=> e \in sent
               /\ c'[e] = c[e]
    PROVE  /\ [e \in Threads |-> StatusOf(e)]' =
                  [[e \in Threads |-> StatusOf(e)] EXCEPT ![t] = StatusOf(t)']
           /\ [e \in Threads |-> IF e \in sent THEN {c[e].src} ELSE {}]' =
                  [[e \in Threads |-> IF e \in sent THEN {c[e].src} ELSE {}]
                      EXCEPT ![t] = IF t \in sent' THEN {c'[t].src} ELSE {}]
<1>1. \A e \in Threads \ {t} : StatusOf(e)' = StatusOf(e)
    BY DEF StatusOf, InFlight, Ended
<1> QED
    BY <1>1

LEMMA StepPromise ==
    ASSUME Inv, Inv', StopAndWait => SerialInv', [Next]_vars
    PROVE  [Promise!Next]_(Promise!vars)
<1> DEFINE status == [t \in Threads |-> StatusOf(t)]
           basis == [t \in Threads |-> IF t \in sent THEN {c[t].src} ELSE {}]
<1>0. TypeOK /\ TypeOK'
    BY DEF Inv
<1>1. ASSUME NEW t \in Threads, Receive(t)
      PROVE  Promise!Accept(t)
    <2>1. pc[t] = "recv" /\ pc' = [pc EXCEPT ![t] = "add"]
          /\ fault = "none" /\ UNCHANGED <<c, sent, fault>>
        BY <1>1 DEF Receive, Step
    <2>2. t \notin sent
        BY <2>1 DEF Inv, Replied
    <2>3. status[t] = "unseen" /\ StatusOf(t)' = "open"
        BY <1>0, <2>1, <2>2 DEF StatusOf, InFlight, Ended, TypeOK
    <2>4. status' = [status EXCEPT ![t] = "open"] /\ basis' = basis
        BY <1>0, <2>1, <2>2, <2>3, OthersKeep DEF TypeOK
    <2> QED
        BY <2>1, <2>3, <2>4 DEF Promise!Accept, Promise!Become
<1>2. ASSUME NEW t \in Threads,
             \/ AddClient(t) \/ GetClient(t) \/ CopyClient(t)
             \/ CopyFreed(t) \/ Handle(t)
      PROVE  UNCHANGED Promise!vars
    <2>1. /\ pc[t] \in {"add", "lookup", "copy", "handle"}
          /\ pc'[t] \in {"lookup", "copy", "handle", "send"}
          /\ \A e \in Threads \ {t} : pc'[e] = pc[e] /\ c'[e] = c[e]
          /\ UNCHANGED <<sent, fault>>
        <3>1. CASE AddClient(t) \/ GetClient(t)
            BY <1>0, <3>1 DEF AddClient, GetClient, Step, TypeOK
        <3>2. CASE CopyClient(t) \/ CopyFreed(t)
            BY <1>0, <3>2 DEF CopyClient, CopyFreed, Step, TypeOK
        <3>3. CASE Handle(t)
            BY <1>0, <3>3 DEF Handle, Step, TypeOK
        <3> QED
            BY <1>2, <3>1, <3>2, <3>3
    <2>2. t \notin sent
        BY <2>1 DEF Inv, Replied
    <2>3. status[t] = "open" /\ StatusOf(t)' = "open"
        BY <1>0, <2>1, <2>2 DEF StatusOf, InFlight, Ended, TypeOK
    <2>4. status' = status /\ basis' = basis
        <3>1. /\ status' = [status EXCEPT ![t] = StatusOf(t)']
              /\ basis' = [basis EXCEPT ![t] = IF t \in sent' THEN {c'[t].src}
                                              ELSE {}]
            BY <1>0, <2>1, OthersKeep
        <3>2. t \notin sent'
            BY <2>1, <2>2
        <3> QED
            BY <2>2, <2>3, <3>1, <3>2
    <2> QED
        BY <2>1, <2>4 DEF Promise!vars
<1>3. ASSUME NEW t \in Threads, Drop(t) \/ Remove(t), t \notin sent
      PROVE  Promise!Ignore(t)
    <2>1. /\ pc[t] \in {"handle", "remove"}
          /\ pc'[t] \in {"dropped", "done"}
          /\ \A e \in Threads \ {t} : pc'[e] = pc[e]
          /\ fault = "none" /\ UNCHANGED <<c, sent, fault>>
        BY <1>0, <1>3 DEF Drop, Remove, Step, TypeOK
    <2>2. status[t] = "open" /\ StatusOf(t)' = "silent"
        BY <1>0, <1>3, <2>1 DEF StatusOf, InFlight, Ended, TypeOK
    <2>3. status' = [status EXCEPT ![t] = "silent"] /\ basis' = basis
        BY <1>0, <1>3, <2>1, <2>2, OthersKeep
    <2> QED
        BY <2>1, <2>2, <2>3 DEF Promise!Ignore, Promise!Become
<1>4. ASSUME NEW t \in Threads, Drop(t) \/ Remove(t), t \in sent
      PROVE  UNCHANGED Promise!vars
    <2>1. /\ pc[t] # "recv" /\ pc'[t] # "recv"
          /\ \A e \in Threads \ {t} : pc'[e] = pc[e]
          /\ UNCHANGED <<c, sent, fault>>
        BY <1>0, <1>4 DEF Drop, Remove, Step, TypeOK
    <2>2. status[t] = "answered" /\ StatusOf(t)' = "answered"
        BY <1>0, <1>4, <2>1 DEF StatusOf, InFlight, Ended, TypeOK
    <2>3. status' = status /\ basis' = basis
        BY <1>0, <1>4, <2>1, <2>2, OthersKeep
    <2> QED
        BY <2>1, <2>3 DEF Promise!vars
<1>5. ASSUME NEW t \in Threads, Send(t)
      PROVE  [Promise!Next]_(Promise!vars)
    <2>1. /\ pc[t] = "send" /\ pc' = [pc EXCEPT ![t] = "remove"]
          /\ sent' = sent \/ sent' = sent \cup {t}
          /\ fault = "none" /\ UNCHANGED <<c, fault>>
        BY <1>5 DEF Send, Step
    <2>2. t \notin sent
        BY <2>1 DEF Inv, Replied
    <2>3. status[t] = "open"
        BY <1>0, <2>1, <2>2 DEF StatusOf, InFlight, Ended, TypeOK
    <2>4. CASE sent' = sent
        <3>1. StatusOf(t)' = "open"
            BY <1>0, <2>1, <2>2, <2>4 DEF StatusOf, InFlight, Ended, TypeOK
        <3>2. basis' = basis
            BY <2>1, <2>4
        <3>3. status' = [status EXCEPT ![t] = "open"]
            BY <1>0, <2>1, <2>4, <3>1, OthersKeep DEF TypeOK
        <3>4. status' = status
            BY <2>3, <3>3
        <3> QED
            BY <2>1, <3>2, <3>4 DEF Promise!vars
    <2>5. CASE sent' = sent \cup {t}
        <3>1. StatusOf(t)' = "answered"
            BY <1>0, <2>1, <2>5 DEF StatusOf, TypeOK
        <3>2. /\ status' = [status EXCEPT ![t] = "answered"]
              /\ basis' = [basis EXCEPT ![t] = {c[t].src}]
            BY <1>0, <2>1, <2>5, <3>1, OthersKeep DEF TypeOK
        <3>3. c[t].src \in Promise!Eligible(t)
            <4>1. CASE StopAndWait
                <5>1. c[t] = packet'[t]
                    BY <1>0, <2>1, <4>1 DEF SerialInv, Answered, TypeOK
                <5>2. packet'[t].src = t
                    BY <1>0, <2>1 DEF Inv, Parsed, TypeOK
                <5> QED
                    BY <4>1, <5>1, <5>2 DEF Promise!Eligible
            <4>2. CASE ~StopAndWait
                <5>1. c[t].src \in Threads /\ pc[c[t].src] # "recv"
                    BY <2>1 DEF Inv, Looked, Copying, Record
                <5>2. status[c[t].src] # "unseen"
                    BY <1>0, <5>1 DEF StatusOf, InFlight, Ended, TypeOK
                <5> QED
                    BY <4>2, <5>1, <5>2 DEF Promise!Eligible, Promise!Accepted
            <4> QED
                BY <4>1, <4>2
        <3>4. Promise!Answer(t)
            BY <2>1, <2>3, <3>2, <3>3 DEF Promise!Answer, Promise!Become
        <3> QED
            BY <3>4 DEF Promise!Next
    <2> QED
        BY <2>1, <2>4, <2>5
<1>6. ASSUME fault = "none", NEW cause \in Faults \ {"none"}, Terminate(cause)
      PROVE  Promise!Die
    BY <1>6 DEF Promise!Die, Terminate, StatusOf, InFlight, Ended
<1>7. CASE UNCHANGED vars
    BY <1>7 DEF vars, Promise!vars, StatusOf, InFlight, Ended
<1>8. ASSUME NEW t \in Threads,
             GetClientThrows(t) \/ CopyFaults(t) \/ MessageTypeThrows(t)
      PROVE  Promise!Die
    BY <1>6, <1>8 DEF GetClientThrows, CopyFaults, MessageTypeThrows, Faults
<1>9. CASE MapRace
    BY <1>6, <1>9 DEF MapRace, Faults, Promise!Next
<1>10. ASSUME NEW t \in Threads, Receive(t) \/ ThreadStep(t)
       PROVE  [Promise!Next]_(Promise!vars)
    BY <1>1, <1>2, <1>3, <1>4, <1>5, <1>8, <1>10 DEF ThreadStep, Promise!Next
<1> QED
    BY <1>7, <1>9, <1>10 DEF Next, Stopped

(***************************************************************************)
(* The handler keeps the safety part of the promise: no datagram is        *)
(* answered twice, none before it is accepted, none from a request that    *)
(* was not accepted, none after the process died.                          *)
(***************************************************************************)
THEOREM PromiseIsKept == Spec => Promise!SafeSpec
<1>1. Inv /\ Inv' /\ (StopAndWait => SerialInv') /\ [Next]_vars
      => [Promise!Next]_(Promise!vars)
    BY StepPromise
<1>2. CASE StopAndWait
    BY <1>1, <1>2, InitPromise, SafeInv, SafeSerialInv, PTL
    DEF Spec, SafeSpec, Promise!SafeSpec
<1>3. CASE ~StopAndWait
    <2>1. Inv /\ Inv' /\ [Next]_vars => [Promise!Next]_(Promise!vars)
        BY <1>1, <1>3
    <2> QED
        BY <2>1, InitPromise, SafeInv, PTL DEF Spec, SafeSpec, Promise!SafeSpec
<1> QED
    BY <1>2, <1>3
=============================================================================

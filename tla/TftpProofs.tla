----------------------------- MODULE TftpProofs -----------------------------
(***************************************************************************)
(* Proofs about Tftp, for every finite set of threads and of menus, every  *)
(* set of hosts, files and datagrams and every number of streams.          *)
(***************************************************************************)
EXTENDS Tftp, Integers, FiniteSetTheorems, TLAPS

Unfiled == {"recv", "add"}

Uncopied == {"recv", "add", "lookup"}

\* A thread that has received holds the record of its own datagram.
Parsed ==
    \A t \in Threads :
        pc[t] # "recv" =>
            /\ packet[t] \in Record
            /\ packet[t].src = t
            /\ packet[t].state = "TFTP_INIT"

\* The table holds records as they were parsed, each under its own key.
FiledParsed ==
    \A h \in Hosts :
        clients[h] # NoRecord =>
            /\ clients[h] \in Record
            /\ clients[h].ident = h
            /\ clients[h].state = "TFTP_INIT"
            /\ pc[clients[h].src] \notin Unfiled
            /\ clients[h] = packet[clients[h].src]

\* The host of a thread past AddClient has a record.
Held ==
    \A t \in Threads :
        pc[t] \notin Unfiled => clients[packet[t].ident] # NoRecord

\* Two client objects that differ at most in their state.
Alike(r, s) ==
    /\ r.src = s.src
    /\ r.ident = s.ident
    /\ r.port = s.port
    /\ r.opcode = s.opcode
    /\ r.filename = s.filename
    /\ r.blocksize = s.blocksize

\* A thread past GetClient holds its host's record, in a state that does not
\* make Handle_Request erase it.
Copied ==
    \A t \in Threads :
        pc[t] \notin Uncopied =>
            /\ c[t] \in Record
            /\ c[t].state # "TFTP_DONE"
            /\ Alike(c[t], clients[packet[t].ident])

\* Only a read of a file that is there gets as far as Server::Send, with the
\* file open.
Sendable(t) ==
    pc[t] = "send" =>
        /\ c[t].opcode = "TFTP_Read" /\ c[t].filename \in DOMAIN FileSize
        /\ t \in opened

\* What left the socket is made from the record of the table.
Replied(t) ==
    reply[t] # NoReply =>
        /\ pc[t] \in {"finish", "done"}
        /\ reply[t] = Acknowledgement(clients[packet[t].ident])

\* What a thread that sent nothing can give as its reason.
Cause(t) ==
    \/ t \in lost
    \/ LET first == clients[packet[t].ident]
       IN  /\ first.src # t
           /\ first.opcode = "TFTP_Read" => first.filename \notin DOMAIN FileSize
    \/ Exhausted(Readers)

Excused(t) ==
    pc[t] \in {"finish", "done"} /\ Deserves(t) /\ reply[t] = NoReply => Cause(t)

Answers(t) == Sendable(t) /\ Replied(t) /\ Excused(t)

\* The C runtime gives out no more streams than it has.
StreamsBounded == Streams <= MaxOpen

TableInv == Parsed /\ FiledParsed /\ Held /\ Copied

Inv ==
    /\ TypeOK
    /\ TableInv
    /\ \A t \in Threads : Answers(t)
    /\ StreamsBounded
    /\ NoLookupFault

-----------------------------------------------------------------------------
(***************************************************************************)
(* Typing.                                                                 *)
(***************************************************************************)

(***************************************************************************)
(* Two characters, the first of them low, are a number of 16 bits.         *)
(***************************************************************************)
LEMMA TwoDigitsType ==
    ASSUME NEW low \in Digit, NEW high \in Digit
    PROVE  low + 256 * high \in Word
BY DEF Digit, Word

(***************************************************************************)
(* client::Init reads a block size of 16 bits, whatever the option says.   *)
(***************************************************************************)
LEMMA ParsedBlocksizeType ==
    ASSUME NEW chars \in {<<>>} \cup Digit \X Digit
    PROVE  ParsedBlocksize(chars) \in Word
<1>1. CASE chars = <<>>
    BY <1>1 DEF ParsedBlocksize, DefaultBlocksize, Word
<1>2. CASE chars # <<>>
    <2>1. chars \in Digit \X Digit
        BY <1>2
    <2>2. chars[1] \in Digit /\ chars[2] \in Digit
        BY <2>1
    <2>3. ParsedBlocksize(chars) = chars[1] + 256 * chars[2]
        BY <1>2 DEF ParsedBlocksize
    <2> QED
        BY <2>2, <2>3, TwoDigitsType
<1> QED
    BY <1>1, <1>2

LEMMA NewClientType ==
    ASSUME NEW t \in Threads, NEW p \in Packets
    PROVE  /\ NewClient(t, p) \in Record
           /\ NewClient(t, p).src = t
           /\ NewClient(t, p).state = "TFTP_INIT"
<1>1. p \in Packet
    BY PacketAssumption
<1>2. ParsedBlocksize(p.blksize) \in Word
    BY <1>1, ParsedBlocksizeType DEF Packet
<1>3. DefaultBlocksize \in Word
    BY DEF DefaultBlocksize, Word
<1>4. /\ p.host \in Hosts /\ p.port \in Ports
      /\ p.opcode \in Opcodes /\ p.file \in FileNames
    BY <1>1 DEF Packet
<1>5. CASE p.opcode = "TFTP_Read"
    BY <1>2, <1>4, <1>5 DEF NewClient, Record, States
<1>6. CASE p.opcode # "TFTP_Read"
    BY <1>3, <1>4, <1>6 DEF NewClient, Record, States
<1> QED
    BY <1>5, <1>6

LEMMA AcknowledgementType ==
    ASSUME NEW r \in Record, r.filename \in DOMAIN FileSize
    PROVE  Acknowledgement(r) \in OACK /\ Acknowledgement(r) # NoReply
<1>1. Acknowledgement(r) \in OACK
    BY FileAssumption DEF Acknowledgement, Record, OACK
<1> QED
    BY <1>1, NoValueAssumption

(***************************************************************************)
(* A record of the table that is alike the thread's makes the same OACK.   *)
(***************************************************************************)
LEMMA AlikeAcknowledged ==
    ASSUME NEW r, NEW s, Alike(r, s)
    PROVE  Acknowledgement(r) = Acknowledgement(s)
BY DEF Alike, Acknowledgement

(***************************************************************************)
(* A thread whose host has a record does not change the table.             *)
(***************************************************************************)
LEMMA FiledAgain ==
    ASSUME TypeOK, NEW r \in Record, clients[r.ident] # NoRecord
    PROVE  Filed(r) = clients
<1>1. r.ident \in Hosts /\ clients \in [Hosts -> Record \cup {NoRecord}]
    BY DEF TypeOK, Record
<1>2. Filed(r) = [clients EXCEPT ![r.ident] = clients[r.ident]]
    BY DEF Filed
<1> QED
    BY <1>1, <1>2

-----------------------------------------------------------------------------
(***************************************************************************)
(* The streams.                                                            *)
(***************************************************************************)

Reading == {m \in Menus : menu[m] = "reading"}

LEMMA Finite ==
    ASSUME TypeOK
    PROVE  /\ IsFiniteSet(opened) /\ Cardinality(opened) \in Nat
           /\ IsFiniteSet(Reading) /\ Cardinality(Reading) \in Nat
           /\ Cardinality(Menus) \in Nat
           /\ Cardinality(Reading) <= Cardinality(Menus)
           /\ Streams = Cardinality(opened) + Cardinality(Reading)
           /\ MaxOpen \in Nat
<1>1. IsFiniteSet(opened)
    BY ThreadsAssumption, FS_Subset DEF TypeOK
<1>2. IsFiniteSet(Reading) /\ Cardinality(Reading) <= Cardinality(Menus)
    <2>1. Reading \subseteq Menus
        BY DEF Reading
    <2> QED
        BY <2>1, ThreadsAssumption, FS_Subset
<1> QED
    BY <1>1, <1>2, ThreadsAssumption, MaxOpenAssumption, FS_CardinalityType
    DEF Streams, Reading

(***************************************************************************)
(* Without a stream left TFTP requests and the menus that read hold all of *)
(* them.                                                                   *)
(***************************************************************************)
LEMMA NoneLeft ==
    ASSUME TypeOK, ~StreamLeft
    PROVE  Exhausted(Readers)
<1>1. Cardinality(opened) + Cardinality(Reading) >= MaxOpen
    BY Finite DEF StreamLeft
<1>2. Reading \subseteq Readers /\ Readers \subseteq Menus
    BY DEF Reading, Readers
<1>3. IsFiniteSet(Readers)
    BY <1>2, ThreadsAssumption, FS_Subset
<1>4. /\ Cardinality(Reading) <= Cardinality(Readers)
      /\ Cardinality(Readers) \in Nat
    BY <1>2, <1>3, FS_Subset, FS_CardinalityType
<1> QED
    BY <1>1, <1>4, Finite DEF Exhausted

(***************************************************************************)
(* Streams that are not closed never become fewer.                         *)
(***************************************************************************)
LEMMA ExhaustedStays ==
    ASSUME TypeOK, TypeOK', opened \subseteq opened',
           NEW T, T \subseteq Menus, NEW S, S \subseteq T, Exhausted(S)
    PROVE  Cardinality(opened') + Cardinality(T) >= MaxOpen
<1>1. IsFiniteSet(opened')
    BY ThreadsAssumption, FS_Subset DEF TypeOK
<1>2. /\ Cardinality(opened) <= Cardinality(opened')
      /\ Cardinality(opened') \in Nat
    BY <1>1, FS_Subset, FS_CardinalityType
<1>3. IsFiniteSet(T)
    BY ThreadsAssumption, FS_Subset
<1>4. /\ Cardinality(S) <= Cardinality(T)
      /\ Cardinality(S) \in Nat /\ Cardinality(T) \in Nat
    BY <1>3, FS_Subset, FS_CardinalityType
<1> QED
    BY <1>2, <1>4, Finite DEF Exhausted

(***************************************************************************)
(* What a step may do to the streams: one more is opened while there is    *)
(* one, by a request or by a menu, or a menu closes its own.               *)
(***************************************************************************)
LEMMA StreamSteps ==
    ASSUME [Next]_vars
    PROVE  \/ opened' = opened /\ menu' = menu
           \/ /\ StreamLeft /\ menu' = menu
              /\ \E t \in Threads : opened' = opened \cup {t}
           \/ /\ opened' = opened
              /\ \E m \in Menus : OpenServerList(m) \/ CloseServerList(m)
<1>1. ASSUME NEW t \in Threads, Receive(t) \/ ThreadStep(t)
      PROVE  \/ opened' = opened /\ menu' = menu
             \/ StreamLeft /\ menu' = menu /\ opened' = opened \cup {t}
    BY <1>1 DEF Receive, ThreadStep, AddClient, GetClient, Terminate, FileAgain,
                PassOver, FileFails, RefuseMode, AcceptRead, OpenFile, Send,
                Finish
<1>2. ASSUME NEW m \in Menus, OpenServerList(m) \/ CloseServerList(m)
      PROVE  opened' = opened
    BY <1>2 DEF OpenServerList, CloseServerList, MenuStep
<1>3. CASE MapRace \/ Stopped \/ UNCHANGED vars
    BY <1>3 DEF MapRace, Terminate, Stopped, vars
<1> QED
    BY <1>1, <1>2, <1>3 DEF Next

(***************************************************************************)
(* A menu that has had a stream stays one that has.                        *)
(***************************************************************************)
LEMMA ReadersStay ==
    ASSUME TypeOK, [Next]_vars
    PROVE  Readers \subseteq Readers'
<1>1. CASE menu' = menu
    BY <1>1 DEF Readers
<1>2. ASSUME NEW m \in Menus, OpenServerList(m) \/ CloseServerList(m)
      PROVE  Readers \subseteq Readers'
    BY <1>2 DEF OpenServerList, CloseServerList, MenuStep, Readers, TypeOK
<1> QED
    BY <1>1, <1>2, StreamSteps

-----------------------------------------------------------------------------
(***************************************************************************)
(* The invariant.                                                          *)
(***************************************************************************)

LEMMA InitInv == Init => Inv
<1> SUFFICES ASSUME Init
             PROVE  Inv
    OBVIOUS
<1>1. TypeOK
    BY DEF Init, TypeOK, Stages, MenuStages
<1>2. TableInv
    BY DEF Init, TableInv, Parsed, FiledParsed, Held, Copied, Unfiled, Uncopied
<1>3. /\ \A t \in Threads : Answers(t)
      /\ NoLookupFault
    BY DEF Init, Answers, Sendable, Replied, Excused, NoLookupFault
<1>4. StreamsBounded
    <2>1. opened = {} /\ Reading = {}
        BY DEF Init, Reading
    <2>2. Streams = 0
        BY <1>1, <2>1, Finite, FS_EmptySet
    <2> QED
        BY <2>2, MaxOpenAssumption DEF StreamsBounded
<1> QED
    BY <1>1, <1>2, <1>3, <1>4 DEF Inv

(***************************************************************************)
(* A step of a thread leaves the table as it is but for the record that    *)
(* AddClient files under a host that had none; nothing is ever erased.     *)
(***************************************************************************)
LEMMA TableGrows ==
    ASSUME Inv, [Next]_vars, NEW h \in Hosts
    PROVE  \/ clients'[h] = clients[h]
           \/ \E t \in Threads :
                  /\ AddClient(t) /\ packet[t].ident = h
                  /\ clients[h] = NoRecord
                  /\ clients'[h] = packet[t]
<1> USE DEF Inv, TableInv
<1>1. ASSUME NEW t \in Threads, AddClient(t)
      PROVE  \/ clients'[h] = clients[h]
             \/ /\ packet[t].ident = h
                /\ clients[h] = NoRecord
                /\ clients'[h] = packet[t]
    BY <1>1 DEF AddClient, Filed, TypeOK
<1>2. ASSUME NEW t \in Threads, FileAgain(t)
      PROVE  clients' = clients
    <2>1. packet[t] \in Record /\ clients[packet[t].ident] # NoRecord
        BY <1>2 DEF FileAgain, Step, Parsed, Held, Unfiled
    <2> QED
        BY <1>2, <2>1, FiledAgain DEF FileAgain
<1>3. ASSUME NEW t \in Threads, Finish(t)
      PROVE  clients' = clients
    BY <1>3 DEF Finish, Step, Copied, Uncopied
<1>4. ASSUME NEW t \in Threads, Receive(t) \/ ThreadStep(t)
      PROVE  clients' = clients \/ AddClient(t)
    BY <1>2, <1>3, <1>4
    DEF ThreadStep, Receive, GetClient, Terminate, PassOver, FileFails,
        RefuseMode, AcceptRead, Send
<1>5. ASSUME NEW m \in Menus, OpenServerList(m) \/ CloseServerList(m)
      PROVE  clients' = clients
    BY <1>5 DEF OpenServerList, CloseServerList, MenuStep
<1>6. CASE MapRace \/ Stopped \/ UNCHANGED vars
    BY <1>6 DEF MapRace, Terminate, Stopped, vars
<1> QED
    BY <1>1, <1>4, <1>5, <1>6 DEF Next

(***************************************************************************)
(* Receiving gives a thread a record of its own and leaves the table.      *)
(***************************************************************************)
LEMMA ReceiveKeepsTable ==
    ASSUME Inv, NEW t \in Threads, Receive(t)
    PROVE  TypeOK' /\ TableInv'
<1>1. PICK p \in Packets :
          /\ packet' = [packet EXCEPT ![t] = NewClient(t, p)]
          /\ octet' = [octet EXCEPT ![t] = p.octet]
    BY DEF Receive
<1>2. /\ NewClient(t, p) \in Record /\ NewClient(t, p).src = t
      /\ NewClient(t, p).state = "TFTP_INIT"
      /\ p.octet \in BOOLEAN
    BY NewClientType, PacketAssumption DEF Packet
<1>3. /\ pc[t] = "recv" /\ pc' = [pc EXCEPT ![t] = "add"]
      /\ UNCHANGED <<clients, c, opened, menu, reply, lost, fault>>
    BY DEF Receive, Step
<1>4. TypeOK
    BY DEF Inv
<1>5. TypeOK'
    <2>1. /\ pc' \in [Threads -> Stages]
          /\ packet' \in [Threads -> Record \cup {NoRecord}]
          /\ octet' \in [Threads -> BOOLEAN]
        BY <1>1, <1>2, <1>3, <1>4 DEF TypeOK, Stages
    <2> QED
        BY <1>3, <1>4, <2>1 DEF TypeOK
<1>6. /\ pc'[t] = "add" /\ packet'[t] = NewClient(t, p)
      /\ \A e \in Threads \ {t} : pc'[e] = pc[e] /\ packet'[e] = packet[e]
    BY <1>1, <1>3, <1>4 DEF TypeOK
<1>7. Parsed'
    BY <1>2, <1>3, <1>6 DEF Inv, TableInv, Parsed
<1>8. FiledParsed'
    <2> SUFFICES ASSUME NEW h \in Hosts, clients[h] # NoRecord
                 PROVE  /\ clients[h] \in Record
                        /\ clients[h].ident = h
                        /\ clients[h].state = "TFTP_INIT"
                        /\ pc'[clients[h].src] \notin Unfiled
                        /\ clients[h] = packet'[clients[h].src]
        BY <1>3 DEF FiledParsed
    <2>1. /\ clients[h] \in Record
          /\ clients[h].ident = h
          /\ clients[h].state = "TFTP_INIT"
          /\ pc[clients[h].src] \notin Unfiled
          /\ clients[h] = packet[clients[h].src]
        BY DEF Inv, TableInv, FiledParsed
    <2>2. clients[h].src \in Threads \ {t}
        BY <1>3, <2>1 DEF Record, Unfiled
    <2> QED
        BY <1>6, <2>1, <2>2
<1>9. Held' /\ Copied'
    BY <1>3, <1>6 DEF Inv, TableInv, Held, Copied, Unfiled, Uncopied
<1> QED
    BY <1>5, <1>7, <1>8, <1>9 DEF TableInv

(***************************************************************************)
(* AddClient files the record of a thread that has just parsed it, or has  *)
(* found one of its host's.                                                *)
(***************************************************************************)
LEMMA AddClientKeepsTable ==
    ASSUME Inv, NEW t \in Threads, AddClient(t)
    PROVE  TypeOK' /\ TableInv'
<1>1. /\ pc[t] = "add" /\ pc' = [pc EXCEPT ![t] = "lookup"]
      /\ clients' = Filed(packet[t])
      /\ UNCHANGED <<packet, octet, c, opened, menu, reply, lost, fault>>
    BY DEF AddClient, Step
<1>2. /\ TypeOK /\ packet[t] \in Record /\ packet[t].src = t
      /\ packet[t].state = "TFTP_INIT"
    BY <1>1 DEF Inv, TableInv, Parsed
<1>3. packet[t].ident \in Hosts
    BY <1>2 DEF Record
<1>4. \A h \in Hosts :
          \/ clients'[h] = clients[h]
          \/ /\ h = packet[t].ident /\ clients[h] = NoRecord
             /\ clients'[h] = packet[t]
    BY <1>1, <1>2, <1>3 DEF Filed, TypeOK
<1>5. clients'[packet[t].ident] # NoRecord
    BY <1>1, <1>2, <1>3, NoValueAssumption DEF Filed, TypeOK
<1>6. TypeOK'
    <2>1. /\ pc' \in [Threads -> Stages]
          /\ clients' \in [Hosts -> Record \cup {NoRecord}]
        BY <1>1, <1>2, <1>3 DEF TypeOK, Stages, Filed
    <2> QED
        BY <1>1, <1>2, <2>1 DEF TypeOK
<1>7. pc'[t] = "lookup" /\ \A e \in Threads \ {t} : pc'[e] = pc[e]
    BY <1>1, <1>2 DEF TypeOK
<1>8. Parsed'
    BY <1>1, <1>7 DEF Inv, TableInv, Parsed
<1>9. FiledParsed'
    <2> SUFFICES ASSUME NEW h \in Hosts, clients'[h] # NoRecord
                 PROVE  /\ clients'[h] \in Record
                        /\ clients'[h].ident = h
                        /\ clients'[h].state = "TFTP_INIT"
                        /\ pc'[clients'[h].src] \notin Unfiled
                        /\ clients'[h] = packet[clients'[h].src]
        BY <1>1 DEF FiledParsed
    <2>1. CASE clients'[h] = packet[t] /\ h = packet[t].ident
        BY <1>2, <1>7, <2>1 DEF Unfiled
    <2>2. CASE clients'[h] = clients[h]
        <3>1. /\ clients[h] \in Record
              /\ clients[h].ident = h
              /\ clients[h].state = "TFTP_INIT"
              /\ pc[clients[h].src] \notin Unfiled
              /\ clients[h] = packet[clients[h].src]
            BY <2>2 DEF Inv, TableInv, FiledParsed
        <3>2. clients[h].src \in Threads \ {t}
            BY <1>1, <3>1 DEF Record, Unfiled
        <3> QED
            BY <1>7, <2>2, <3>1, <3>2
    <2> QED
        BY <1>4, <2>1, <2>2
<1>10. Held'
    <2> SUFFICES ASSUME NEW e \in Threads, pc'[e] \notin Unfiled
                 PROVE  clients'[packet[e].ident] # NoRecord
        BY <1>1 DEF Held
    <2>1. CASE e = t
        BY <1>5, <2>1
    <2>2. CASE e # t
        <3>1. packet[e].ident \in Hosts /\ clients[packet[e].ident] # NoRecord
            BY <1>7, <2>2 DEF Inv, TableInv, Parsed, Held, Unfiled, Record
        <3> QED
            BY <1>4, <3>1
    <2> QED
        BY <2>1, <2>2
<1>11. Copied'
    <2> SUFFICES ASSUME NEW e \in Threads, pc'[e] \notin Uncopied
                 PROVE  /\ c[e] \in Record
                        /\ c[e].state # "TFTP_DONE"
                        /\ Alike(c[e], clients'[packet[e].ident])
        BY <1>1 DEF Copied, Alike
    <2>1. e # t /\ pc[e] \notin Uncopied /\ pc[e] \notin Unfiled
        BY <1>7 DEF Uncopied, Unfiled
    <2>2. packet[e].ident \in Hosts /\ clients[packet[e].ident] # NoRecord
        BY <2>1 DEF Inv, TableInv, Parsed, Held, Unfiled, Record
    <2> QED
        BY <1>4, <2>1, <2>2 DEF Inv, TableInv, Copied
<1> QED
    BY <1>6, <1>8, <1>9, <1>10, <1>11 DEF TableInv

(***************************************************************************)
(* A thread past AddClient keeps the table if it leaves it alone and holds *)
(* its host's record.                                                      *)
(***************************************************************************)
LEMMA LaterKeepsTable ==
    ASSUME Inv, NEW t \in Threads, NEW to \in Stages \ Unfiled,
           pc[t] \notin Unfiled, pc' = [pc EXCEPT ![t] = to],
           UNCHANGED <<clients, packet>>,
           \A e \in Threads \ {t} : c'[e] = c[e],
           to \notin Uncopied =>
               /\ c'[t] \in Record
               /\ c'[t].state # "TFTP_DONE"
               /\ Alike(c'[t], clients[packet[t].ident])
    PROVE  TableInv'
<1>1. TypeOK
    BY DEF Inv
<1>2. pc'[t] = to /\ \A e \in Threads \ {t} : pc'[e] = pc[e]
    BY <1>1 DEF TypeOK
<1>3. Parsed' /\ Held'
    BY <1>2 DEF Inv, TableInv, Parsed, Held, Unfiled
<1>4. FiledParsed'
    BY <1>2 DEF Inv, TableInv, FiledParsed
<1>5. Copied'
    <2> SUFFICES ASSUME NEW e \in Threads, pc'[e] \notin Uncopied
                 PROVE  /\ c'[e] \in Record
                        /\ c'[e].state # "TFTP_DONE"
                        /\ Alike(c'[e], clients[packet[e].ident])
        BY DEF Copied, Alike
    <2> QED
        BY <1>2 DEF Inv, TableInv, Copied
<1> QED
    BY <1>3, <1>4, <1>5 DEF TableInv

(***************************************************************************)
(* The host of a thread that has received has its record under its key.    *)
(***************************************************************************)
LEMMA OwnHost ==
    ASSUME Inv, NEW t \in Threads, pc[t] \notin Unfiled
    PROVE  /\ packet[t] \in Record /\ packet[t].ident \in Hosts
           /\ clients[packet[t].ident] \in Record
           /\ clients[packet[t].ident] # NoRecord
           /\ clients[packet[t].ident].state = "TFTP_INIT"
<1>1. packet[t] \in Record /\ packet[t].ident \in Hosts
    BY DEF Inv, TableInv, Parsed, Unfiled, Record
<1>2. clients[packet[t].ident] # NoRecord
    BY DEF Inv, TableInv, Held
<1>3. /\ clients[packet[t].ident] \in Record
      /\ clients[packet[t].ident].state = "TFTP_INIT"
    BY <1>1, <1>2 DEF Inv, TableInv, FiledParsed
<1> QED
    BY <1>1, <1>2, <1>3

(***************************************************************************)
(* What is true of a thread's answer stays true while another one steps.   *)
(***************************************************************************)
LEMMA OthersAnswers ==
    ASSUME Inv, TypeOK', [Next]_vars, NEW t, NEW e \in Threads \ {t},
           /\ pc'[e] = pc[e] /\ packet'[e] = packet[e] /\ octet'[e] = octet[e]
           /\ c'[e] = c[e] /\ reply'[e] = reply[e],
           opened \subseteq opened', lost \subseteq lost'
    PROVE  Answers(e)'
<1>0. TypeOK /\ Sendable(e) /\ Replied(e) /\ Excused(e)
    BY DEF Inv, Answers
<1>1. Sendable(e)'
    BY <1>0 DEF Sendable
<1>2. CASE pc[e] \in Unfiled
    BY <1>0, <1>1, <1>2 DEF Answers, Sendable, Replied, Excused, Unfiled
<1>3. CASE pc[e] \notin Unfiled
    <2>1. clients'[packet[e].ident] = clients[packet[e].ident]
        BY <1>3, OwnHost, TableGrows
    <2>2. Replied(e)'
        BY <1>0, <2>1 DEF Replied, Acknowledgement
    <2>3. Exhausted(Readers) => Exhausted(Readers)'
        <3>1. Readers \subseteq Readers' /\ Readers' \subseteq Menus
            BY <1>0, ReadersStay DEF Readers
        <3>2. ASSUME Exhausted(Readers)
              PROVE  Cardinality(opened') + Cardinality(Readers') >= MaxOpen
            BY <1>0, <3>1, <3>2, ExhaustedStays
        <3> QED
            BY <3>2 DEF Exhausted
    <2>4. Cause(e) => Cause(e)'
        BY <2>1, <2>3 DEF Cause
    <2>5. Excused(e)'
        BY <1>0, <2>4 DEF Excused, Deserves
    <2> QED
        BY <1>1, <2>2, <2>5 DEF Answers
<1> QED
    BY <1>2, <1>3

(***************************************************************************)
(* A thread that is not at its end has sent nothing.                       *)
(***************************************************************************)
LEMMA NothingSent ==
    ASSUME Inv, NEW t \in Threads, pc[t] \notin {"finish", "done"}
    PROVE  reply[t] = NoReply
BY DEF Inv, Answers, Replied

-----------------------------------------------------------------------------
(***************************************************************************)
(* Each action keeps the types, the table and the answers.                 *)
(***************************************************************************)

Core == TypeOK /\ TableInv /\ \A t \in Threads : Answers(t)

LEMMA EarlyKeepsCore ==
    ASSUME Inv, NEW t \in Threads, Receive(t) \/ AddClient(t)
    PROVE  Core'
<1>1. TypeOK' /\ TableInv'
    BY ReceiveKeepsTable, AddClientKeepsTable
<1>2. /\ pc[t] \in Unfiled /\ pc'[t] \in {"add", "lookup"}
      /\ reply'[t] = reply[t]
      /\ \A e \in Threads \ {t} :
             /\ pc'[e] = pc[e] /\ packet'[e] = packet[e]
             /\ octet'[e] = octet[e] /\ c'[e] = c[e] /\ reply'[e] = reply[e]
      /\ opened' = opened /\ lost' = lost
    BY DEF Inv, TypeOK, Receive, AddClient, Step, Unfiled
<1>3. Next
    BY DEF Next, ThreadStep
<1>4. reply'[t] = NoReply
    BY <1>2, NothingSent DEF Unfiled
<1>5. Answers(t)'
    BY <1>2, <1>4 DEF Answers, Sendable, Replied, Excused
<1>6. ASSUME NEW e \in Threads \ {t}
      PROVE  Answers(e)'
    BY <1>1, <1>2, <1>3, OthersAnswers
<1> QED
    BY <1>1, <1>5, <1>6 DEF Core

(***************************************************************************)
(* GetClient finds a record, and finds the same one again.                 *)
(***************************************************************************)
LEMMA LookupKeepsCore ==
    ASSUME Inv, NEW t \in Threads, GetClient(t) \/ FileAgain(t)
    PROVE  Core' /\ UNCHANGED <<opened, menu, fault>>
<1>0. TypeOK
    BY DEF Inv
<1>1. pc[t] \in {"lookup", "again"} /\ pc[t] \notin Unfiled
    BY DEF GetClient, FileAgain, Step, Unfiled
<1>2. /\ packet[t] \in Record /\ packet[t].ident \in Hosts
      /\ clients[packet[t].ident] \in Record
      /\ clients[packet[t].ident] # NoRecord
      /\ clients[packet[t].ident].state = "TFTP_INIT"
    BY <1>1, OwnHost
<1>3. Filed(packet[t]) = clients
    BY <1>0, <1>2, FiledAgain
<1>4. /\ c' = [c EXCEPT ![t] = clients[packet[t].ident]]
      /\ UNCHANGED <<packet, octet, clients, opened, menu, reply, lost, fault>>
    BY <1>2, <1>3 DEF GetClient, FileAgain
<1>5. PICK to \in {"again", "serve"} : pc' = [pc EXCEPT ![t] = to]
    BY <1>2 DEF GetClient, FileAgain, Step
<1>6. /\ pc'[t] = to /\ c'[t] = clients[packet[t].ident]
      /\ \A e \in Threads \ {t} : pc'[e] = pc[e] /\ c'[e] = c[e]
    BY <1>0, <1>4, <1>5 DEF TypeOK
<1>7. TypeOK'
    <2>1. /\ pc' \in [Threads -> Stages]
          /\ c' \in [Threads -> Record \cup {NoRecord}]
        BY <1>0, <1>2, <1>4, <1>5 DEF TypeOK, Stages
    <2> QED
        BY <1>0, <1>4, <2>1 DEF TypeOK
<1>8. TableInv'
    <2>1. to \in Stages \ Unfiled
        BY DEF Stages, Unfiled
    <2>2. Alike(c'[t], clients[packet[t].ident])
        BY <1>6 DEF Alike
    <2> QED
        BY <1>1, <1>2, <1>4, <1>5, <1>6, <2>1, <2>2, LaterKeepsTable
<1>9. Next
    BY DEF Next, ThreadStep
<1>10. Answers(t)'
    <2>1. reply'[t] = NoReply
        BY <1>1, <1>4, NothingSent
    <2> QED
        BY <1>6, <2>1 DEF Answers, Sendable, Replied, Excused
<1>11. ASSUME NEW e \in Threads \ {t}
       PROVE  Answers(e)'
    BY <1>4, <1>6, <1>7, <1>9, OthersAnswers
<1> QED
    BY <1>4, <1>7, <1>8, <1>10, <1>11 DEF Core

(***************************************************************************)
(* What the actions after the lookup have in common.                       *)
(***************************************************************************)
LEMMA LaterKeepsCore ==
    ASSUME Inv, Next, NEW t \in Threads, NEW to \in {"send", "finish", "done"},
           pc[t] \in {"serve", "send", "finish"}, pc' = [pc EXCEPT ![t] = to],
           UNCHANGED <<packet, octet, clients, fault>>,
           NEW state \in {c[t].state, "TFTP_INIT", "TFTP_ERROR"},
           c' = [c EXCEPT ![t].state = state],
           NEW r \in OACK \cup {NoReply}, reply' = [reply EXCEPT ![t] = r],
           opened' \in SUBSET Threads, opened \subseteq opened',
           lost' \in SUBSET Threads, lost \subseteq lost',
           menu' = menu,
           Sendable(t)', Replied(t)', Excused(t)'
    PROVE  Core'
<1>0. TypeOK /\ pc[t] \notin Unfiled /\ pc[t] \notin Uncopied
    BY DEF Inv, Unfiled, Uncopied
<1>1. /\ c[t] \in Record /\ c[t].state # "TFTP_DONE"
      /\ Alike(c[t], clients[packet[t].ident])
    BY <1>0 DEF Inv, TableInv, Copied
<1>2. /\ c'[t] = [c[t] EXCEPT !.state = state]
      /\ \A e \in Threads \ {t} :
             pc'[e] = pc[e] /\ c'[e] = c[e] /\ reply'[e] = reply[e]
    BY <1>0 DEF TypeOK
<1>3. /\ c'[t] \in Record /\ c'[t].state # "TFTP_DONE"
      /\ Alike(c'[t], clients[packet[t].ident])
    <2>1. state \in States /\ state # "TFTP_DONE"
        BY <1>1 DEF Record, States
    <2>2. c'[t] \in Record /\ c'[t].state = state /\ Alike(c'[t], c[t])
        <3>1. [c[t] EXCEPT !.state = state] \in Record
            BY <1>1, <2>1 DEF Record
        <3>2. [c[t] EXCEPT !.state = state].state = state
            BY <1>1 DEF Record
        <3>3. Alike([c[t] EXCEPT !.state = state], c[t])
            BY <1>1 DEF Record, Alike
        <3> QED
            BY <1>2, <3>1, <3>2, <3>3
    <2> QED
        BY <1>1, <2>1, <2>2 DEF Alike
<1>4. TypeOK'
    <2>1. /\ pc' \in [Threads -> Stages]
          /\ c' \in [Threads -> Record \cup {NoRecord}]
          /\ reply' \in [Threads -> OACK \cup {NoReply}]
        BY <1>0, <1>2, <1>3 DEF TypeOK, Stages
    <2> QED
        BY <1>0, <2>1 DEF TypeOK
<1>5. TableInv'
    <2>1. to \in Stages \ Unfiled
        BY DEF Stages, Unfiled
    <2> QED
        BY <1>0, <1>2, <1>3, <2>1, LaterKeepsTable
<1>6. Answers(t)'
    BY DEF Answers
<1>7. ASSUME NEW e \in Threads \ {t}
      PROVE  Answers(e)'
    BY <1>2, <1>4, OthersAnswers
<1> QED
    BY <1>4, <1>5, <1>6, <1>7 DEF Core

(***************************************************************************)
(* The switch over the opcode and Handle_TFTP_RRQ_Request up to its send.  *)
(***************************************************************************)
LEMMA ServeKeepsCore ==
    ASSUME Inv, NEW t \in Threads,
           \/ PassOver(t) \/ FileFails(t) \/ RefuseMode(t) \/ AcceptRead(t)
    PROVE  Core'
<1>0. /\ TypeOK /\ Next /\ pc[t] = "serve"
      /\ UNCHANGED <<packet, octet, clients, menu, reply, lost, fault>>
    BY DEF Inv, Next, ThreadStep, PassOver, FileFails, RefuseMode, AcceptRead,
           Step
<1>1. /\ reply[t] = NoReply /\ reply' = [reply EXCEPT ![t] = NoReply]
      /\ NoReply \in OACK \cup {NoReply}
    BY <1>0, NothingSent DEF TypeOK
<1>2. /\ c[t] \in Record /\ Alike(c[t], clients[packet[t].ident])
    BY <1>0 DEF Inv, TableInv, Copied, Uncopied
<1>3. c = [c EXCEPT ![t].state = c[t].state]
    BY <1>0, <1>2 DEF TypeOK, Record
<1>4. packet[t].src = t
    BY <1>0 DEF Inv, TableInv, Parsed
<1>5. clients[packet[t].ident].src = t => clients[packet[t].ident] = packet[t]
    BY <1>0, OwnHost DEF Inv, TableInv, FiledParsed, Unfiled
<1>6. Replied(t)'
    BY <1>0, <1>1 DEF Replied
<1>7. ASSUME \/ c[t].opcode # "TFTP_Read"
             \/ c[t].filename \notin DOMAIN FileSize
             \/ ~StreamLeft /\ opened' = opened
             \/ ~octet[t]
      PROVE  Excused(t)'
    <2>1. CASE ~StreamLeft /\ opened' = opened
        <3>1. Exhausted(Readers)
            BY <1>0, <2>1, NoneLeft
        <3>2. Exhausted(Readers)'
            BY <1>0, <2>1, <3>1 DEF Exhausted, Readers
        <3> QED
            BY <3>2 DEF Excused, Cause
    <2>2. CASE ~octet[t]
        BY <1>0, <2>2 DEF Excused, Deserves
    <2>3. CASE \/ c[t].opcode # "TFTP_Read"
               \/ c[t].filename \notin DOMAIN FileSize
        <3>1. clients[packet[t].ident].opcode = "TFTP_Read" =>
                  clients[packet[t].ident].filename \notin DOMAIN FileSize
            BY <1>2, <2>3 DEF Alike
        <3>2. Deserves(t) => clients[packet[t].ident].src # t
            BY <1>5, <3>1 DEF Deserves
        <3> QED
            BY <1>0, <3>1, <3>2 DEF Excused, Cause, Deserves
    <2> QED
        BY <1>7, <2>1, <2>2, <2>3
<1>8. CASE PassOver(t)
    <2>1. /\ pc' = [pc EXCEPT ![t] = "finish"] /\ pc'[t] = "finish"
          /\ c' = [c EXCEPT ![t].state = c[t].state] /\ opened' = opened
        BY <1>0, <1>3, <1>8 DEF PassOver, Step, TypeOK
    <2>2. Sendable(t)' /\ Excused(t)'
        BY <1>7, <1>8, <2>1 DEF PassOver, Sendable
    <2> QED
        BY <1>0, <1>1, <1>6, <2>1, <2>2, LaterKeepsCore DEF TypeOK
<1>9. CASE FileFails(t)
    <2>1. /\ pc' = [pc EXCEPT ![t] = "finish"] /\ pc'[t] = "finish"
          /\ c' = [c EXCEPT ![t].state = "TFTP_ERROR"] /\ opened' = opened
        BY <1>0, <1>9 DEF FileFails, Step, SetState, TypeOK
    <2>2. Sendable(t)' /\ Excused(t)'
        BY <1>7, <1>9, <2>1 DEF FileFails, Sendable
    <2> QED
        BY <1>0, <1>1, <1>6, <2>1, <2>2, LaterKeepsCore DEF TypeOK
<1>10. CASE RefuseMode(t)
    <2>1. /\ pc' = [pc EXCEPT ![t] = "finish"] /\ pc'[t] = "finish"
          /\ c' = [c EXCEPT ![t].state = "TFTP_ERROR"]
          /\ opened' = opened \cup {t}
        BY <1>0, <1>10 DEF RefuseMode, OpenFile, Step, SetState, TypeOK
    <2>2. Sendable(t)' /\ Excused(t)'
        BY <1>7, <1>10, <2>1 DEF RefuseMode, Sendable
    <2>3. opened' \in SUBSET Threads /\ opened \subseteq opened'
        BY <1>0, <2>1 DEF TypeOK
    <2>4. "TFTP_ERROR" \in {c[t].state, "TFTP_INIT", "TFTP_ERROR"}
        OBVIOUS
    <2>5. lost' \in SUBSET Threads /\ lost \subseteq lost'
        BY <1>0 DEF TypeOK
    <2> QED
        BY <1>0, <1>1, <1>6, <2>1, <2>2, <2>3, <2>4, <2>5, LaterKeepsCore
<1>11. CASE AcceptRead(t)
    <2>1. /\ pc' = [pc EXCEPT ![t] = "send"] /\ pc'[t] = "send"
          /\ c' = [c EXCEPT ![t].state = "TFTP_INIT"]
          /\ opened' = opened \cup {t}
          /\ c[t].opcode = "TFTP_Read" /\ c[t].filename \in DOMAIN FileSize
        BY <1>0, <1>11 DEF AcceptRead, OpenFile, Step, SetState, TypeOK
    <2>2. c'[t].opcode = c[t].opcode /\ c'[t].filename = c[t].filename
        BY <1>0, <1>2, <2>1 DEF TypeOK, Record
    <2>3. Sendable(t)' /\ Excused(t)'
        BY <2>1, <2>2 DEF Sendable, Excused
    <2>4. opened' \in SUBSET Threads /\ opened \subseteq opened'
        BY <1>0, <2>1 DEF TypeOK
    <2>5. lost' \in SUBSET Threads /\ lost \subseteq lost'
        BY <1>0 DEF TypeOK
    <2>6. "TFTP_INIT" \in {c[t].state, "TFTP_INIT", "TFTP_ERROR"}
        OBVIOUS
    <2> QED
        BY <1>0, <1>1, <1>6, <2>1, <2>3, <2>4, <2>5, <2>6, LaterKeepsCore
<1> QED
    BY <1>8, <1>9, <1>10, <1>11

(***************************************************************************)
(* Server::Send and the end of the TFTP branch, which erases nothing.      *)
(***************************************************************************)
LEMMA EndKeepsCore ==
    ASSUME Inv, NEW t \in Threads, Send(t) \/ Finish(t)
    PROVE  Core'
<1>0. TypeOK /\ Next
    BY DEF Inv, Next, ThreadStep
<1>1. pc[t] \in {"send", "finish"} /\ pc[t] \notin Unfiled
    BY DEF Send, Finish, Step, Unfiled
<1>2. /\ c[t] \in Record /\ c[t].state # "TFTP_DONE"
      /\ Alike(c[t], clients[packet[t].ident])
    BY <1>1 DEF Inv, TableInv, Copied, Uncopied
<1>3. c = [c EXCEPT ![t].state = c[t].state]
    BY <1>0, <1>2 DEF TypeOK, Record
<1>4. CASE Send(t)
    <2>0. /\ pc[t] = "send" /\ pc' = [pc EXCEPT ![t] = "finish"]
          /\ pc'[t] = "finish"
          /\ UNCHANGED <<packet, octet, clients, c, opened, menu, fault>>
        BY <1>0, <1>4 DEF Send, Step, TypeOK
    <2>1. /\ Acknowledgement(c[t]) \in OACK
          /\ Acknowledgement(c[t]) # NoReply
          /\ Acknowledgement(c[t]) = Acknowledgement(clients[packet[t].ident])
        BY <1>2, <2>0, AcknowledgementType, AlikeAcknowledged
        DEF Inv, Answers, Sendable
    <2>2. Sendable(t)'
        BY <2>0 DEF Sendable
    <2>3. CASE /\ reply' = [reply EXCEPT ![t] = Acknowledgement(c[t])]
               /\ lost' = lost
        <3>1. reply'[t] = Acknowledgement(c[t])
            BY <1>0, <2>3 DEF TypeOK
        <3>2. Replied(t)'
            BY <2>0, <2>1, <3>1 DEF Replied, Acknowledgement
        <3>3. Excused(t)'
            BY <2>1, <3>1 DEF Excused
        <3>4. /\ opened' \in SUBSET Threads /\ opened \subseteq opened'
              /\ lost' \in SUBSET Threads /\ lost \subseteq lost'
            BY <1>0, <2>0, <2>3 DEF TypeOK
        <3> QED
            BY <1>0, <1>3, <2>0, <2>1, <2>2, <2>3, <3>2, <3>3, <3>4,
               LaterKeepsCore
    <2>4. CASE reply' = reply /\ lost' = lost \cup {t}
        <3>1. reply[t] = NoReply /\ reply' = [reply EXCEPT ![t] = NoReply]
            BY <1>0, <2>0, <2>4, NothingSent DEF TypeOK
        <3>2. Replied(t)' /\ Excused(t)'
            BY <2>4, <3>1 DEF Replied, Excused, Cause
        <3>3. /\ opened' \in SUBSET Threads /\ opened \subseteq opened'
              /\ lost' \in SUBSET Threads /\ lost \subseteq lost'
            BY <1>0, <2>0, <2>4 DEF TypeOK
        <3>4. NoReply \in OACK \cup {NoReply}
            OBVIOUS
        <3> QED
            BY <1>0, <1>3, <2>0, <2>2, <2>4, <3>1, <3>2, <3>3, <3>4,
               LaterKeepsCore
    <2> QED
        BY <1>4, <2>3, <2>4 DEF Send
<1>5. CASE Finish(t)
    <2>0. /\ pc[t] = "finish" /\ pc' = [pc EXCEPT ![t] = "done"]
          /\ pc'[t] = "done" /\ clients' = clients
          /\ UNCHANGED <<packet, octet, c, opened, menu, reply, lost, fault>>
        BY <1>0, <1>2, <1>5 DEF Finish, Step, TypeOK
    <2>1. /\ reply[t] \in OACK \cup {NoReply}
          /\ reply' = [reply EXCEPT ![t] = reply[t]]
        BY <1>0, <2>0 DEF TypeOK
    <2>2. Replied(t) /\ Excused(t)
        BY DEF Inv, Answers
    <2>3. Sendable(t)' /\ Replied(t)'
        BY <2>0, <2>2 DEF Sendable, Replied, Acknowledgement
    <2>4. Excused(t)'
        BY <2>0, <2>2 DEF Excused, Deserves, Cause, Exhausted, Readers
    <2> QED
        BY <1>0, <1>3, <2>0, <2>1, <2>3, <2>4, LaterKeepsCore DEF TypeOK
<1> QED
    BY <1>4, <1>5

(***************************************************************************)
(* A step that is none of a TFTP thread leaves all of it alone.            *)
(***************************************************************************)
LEMMA RestKeepsCore ==
    ASSUME Inv,
           \/ \E m \in Menus : OpenServerList(m) \/ CloseServerList(m)
           \/ MapRace \/ Stopped \/ UNCHANGED vars
    PROVE  Core'
<1>0. TypeOK /\ TableInv /\ \A t \in Threads : Answers(t)
    BY DEF Inv
<1>1. /\ UNCHANGED <<pc, packet, octet, clients, c, opened, reply, lost>>
      /\ menu' \in [Menus -> MenuStages]
      /\ fault' \in {"none", "out_of_range", "data_race"}
    BY <1>0 DEF OpenServerList, CloseServerList, MenuStep, MapRace, Terminate,
                Stopped, vars, TypeOK, MenuStages
<1>2. TypeOK'
    BY <1>0, <1>1 DEF TypeOK
<1>3. Parsed' /\ FiledParsed' /\ Held'
    BY <1>0, <1>1 DEF TableInv, Parsed, FiledParsed, Held
<1>4. Copied'
    BY <1>0, <1>1 DEF TableInv, Copied, Alike
<1>5. ASSUME NEW t \in Threads
      PROVE  Answers(t)'
    <2>1. Sendable(t) /\ Replied(t) /\ Excused(t)
        BY <1>0 DEF Answers
    <2>2. Sendable(t)' /\ Replied(t)'
        BY <1>1, <2>1 DEF Sendable, Replied, Acknowledgement
    <2>3. Exhausted(Readers) => Exhausted(Readers)'
        <3>1. [Next]_vars
            BY DEF Next
        <3>2. Readers \subseteq Readers' /\ Readers' \subseteq Menus
            BY <1>0, <3>1, ReadersStay DEF Readers
        <3>3. ASSUME Exhausted(Readers)
              PROVE  Cardinality(opened') + Cardinality(Readers') >= MaxOpen
            BY <1>0, <1>1, <1>2, <3>2, <3>3, ExhaustedStays
        <3> QED
            BY <3>3 DEF Exhausted
    <2>4. Excused(t)'
        BY <1>1, <2>1, <2>3 DEF Excused, Deserves, Cause
    <2> QED
        BY <2>2, <2>4 DEF Answers
<1> QED
    BY <1>2, <1>3, <1>4, <1>5 DEF Core, TableInv

(***************************************************************************)
(* Whatever the process does next.                                         *)
(***************************************************************************)
LEMMA StepCore ==
    ASSUME Inv, [Next]_vars
    PROVE  Core'
<1>1. ASSUME NEW t \in Threads, Receive(t) \/ ThreadStep(t)
      PROVE  Core'
    BY <1>1, EarlyKeepsCore, LookupKeepsCore, ServeKeepsCore, EndKeepsCore
    DEF ThreadStep
<1> QED
    BY <1>1, RestKeepsCore DEF Next

(***************************************************************************)
(* No step gives out a stream that is not there.                           *)
(***************************************************************************)
LEMMA StepBounded ==
    ASSUME Inv, [Next]_vars
    PROVE  StreamsBounded'
<1>0. TypeOK /\ TypeOK' /\ StreamsBounded
    BY StepCore DEF Core, Inv
<1>1. /\ Streams' = Cardinality(opened)' + Cardinality(Reading)'
      /\ Cardinality(opened)' \in Nat /\ Cardinality(Reading)' \in Nat
    <2>1. IsFiniteSet(opened')
        BY <1>0, ThreadsAssumption, FS_Subset DEF TypeOK
    <2>2. Reading' \subseteq Menus
        BY DEF Reading
    <2>3. IsFiniteSet(Reading')
        BY <2>2, ThreadsAssumption, FS_Subset
    <2> QED
        BY <2>1, <2>3, FS_CardinalityType DEF Streams, Reading
<1>2. /\ Streams = Cardinality(opened) + Cardinality(Reading)
      /\ Cardinality(opened) \in Nat /\ Cardinality(Reading) \in Nat
      /\ IsFiniteSet(opened) /\ IsFiniteSet(Reading) /\ MaxOpen \in Nat
    BY <1>0, Finite
<1>3. CASE opened' = opened /\ menu' = menu
    BY <1>0, <1>3 DEF StreamsBounded, Streams
<1>4. ASSUME NEW t \in Threads,
             StreamLeft, menu' = menu, opened' = opened \cup {t}
      PROVE  StreamsBounded'
    <2>1. Cardinality(opened') <= Cardinality(opened) + 1
        <3>1. Cardinality(opened \cup {t}) =
                  IF t \in opened THEN Cardinality(opened)
                                 ELSE Cardinality(opened) + 1
            BY <1>2, FS_AddElement
        <3> QED
            BY <1>2, <1>4, <3>1
    <2>2. Reading' = Reading
        BY <1>4 DEF Reading
    <2> QED
        BY <1>1, <1>2, <1>4, <2>1, <2>2 DEF StreamsBounded, StreamLeft
<1>5. ASSUME NEW m \in Menus, OpenServerList(m)
      PROVE  StreamsBounded'
    <2>1. /\ opened' = opened
          /\ \/ StreamLeft /\ menu' = [menu EXCEPT ![m] = "reading"]
             \/ menu' = [menu EXCEPT ![m] = "short"]
        BY <1>5 DEF OpenServerList, MenuStep
    <2>2. CASE StreamLeft /\ menu' = [menu EXCEPT ![m] = "reading"]
        <3>1. Reading' \subseteq Reading \cup {m}
            BY <1>0, <2>1, <2>2 DEF Reading, TypeOK
        <3>2. /\ IsFiniteSet(Reading \cup {m})
              /\ Cardinality(Reading \cup {m}) <= Cardinality(Reading) + 1
              /\ Cardinality(Reading \cup {m}) \in Nat
            BY <1>2, FS_AddElement, FS_CardinalityType
        <3>3. Cardinality(Reading') <= Cardinality(Reading \cup {m})
            BY <3>1, <3>2, FS_Subset
        <3> QED
            BY <1>1, <1>2, <2>1, <2>2, <3>2, <3>3 DEF StreamsBounded, StreamLeft
    <2>3. CASE menu' = [menu EXCEPT ![m] = "short"]
        <3>1. Reading' \subseteq Reading
            BY <1>0, <2>1, <2>3 DEF Reading, TypeOK
        <3>2. Cardinality(Reading') <= Cardinality(Reading)
            BY <1>2, <3>1, FS_Subset
        <3> QED
            BY <1>0, <1>1, <1>2, <2>1, <3>2 DEF StreamsBounded
    <2> QED
        BY <2>1, <2>2, <2>3
<1>6. ASSUME NEW m \in Menus, CloseServerList(m)
      PROVE  StreamsBounded'
    <2>1. opened' = opened /\ menu' = [menu EXCEPT ![m] = "whole"]
        BY <1>6 DEF CloseServerList, MenuStep
    <2>2. Reading' \subseteq Reading
        BY <1>0, <2>1 DEF Reading, TypeOK
    <2>3. Cardinality(Reading') <= Cardinality(Reading)
        BY <1>2, <2>2, FS_Subset
    <2> QED
        BY <1>0, <1>1, <1>2, <2>1, <2>3 DEF StreamsBounded
<1> QED
    BY <1>3, <1>4, <1>5, <1>6, StreamSteps

(***************************************************************************)
(* GetClient finds the record of its host.                                 *)
(***************************************************************************)
LEMMA StepFinds ==
    ASSUME Inv, [Next]_vars
    PROVE  NoLookupFault'
<1>0. NoLookupFault
    BY DEF Inv
<1>1. ASSUME NEW t \in Threads, GetClient(t)
      PROVE  fault' = fault
    BY <1>1, LookupKeepsCore
<1>2. ASSUME NEW t \in Threads, Receive(t) \/ ThreadStep(t)
      PROVE  fault' = fault
    BY <1>1, <1>2
    DEF Receive, ThreadStep, AddClient, FileAgain, PassOver, FileFails,
        RefuseMode, AcceptRead, Send, Finish
<1>3. ASSUME NEW m \in Menus, OpenServerList(m) \/ CloseServerList(m)
      PROVE  fault' = fault
    BY <1>3 DEF OpenServerList, CloseServerList, MenuStep
<1>4. CASE MapRace
    BY <1>4 DEF MapRace, Terminate, NoLookupFault
<1>5. CASE Stopped \/ UNCHANGED vars
    BY <1>0, <1>5 DEF Stopped, vars, NoLookupFault
<1> QED
    BY <1>0, <1>2, <1>3, <1>4, <1>5 DEF Next, NoLookupFault

(* Every step keeps it. *)
LEMMA StepInv == Inv /\ [Next]_vars => Inv'
BY StepCore, StepBounded, StepFinds DEF Core, Inv

(***************************************************************************)
(* The invariant holds in every reachable state.                           *)
(***************************************************************************)
THEOREM InvHolds == Spec => []Inv
BY InitInv, StepInv, PTL DEF Spec

-----------------------------------------------------------------------------
(***************************************************************************)
(* What follows from it.                                                   *)
(***************************************************************************)

(***************************************************************************)
(* The table, the copies and the replies have their types.                 *)
(***************************************************************************)
THEOREM TypeCorrect == Spec => []TypeOK
<1>1. Inv => TypeOK
    BY DEF Inv
<1> QED
    BY <1>1, InvHolds, PTL

(***************************************************************************)
(* However the requests of a host and of others interleave, every OACK the *)
(* host receives answers the first datagram of it that was filed.          *)
(***************************************************************************)
THEOREM OneAnswerPerHost == Spec => []AnsweredFromFirst
<1>1. Inv => AnsweredFromFirst
    <2> SUFFICES ASSUME Inv, NEW t \in Threads, reply[t] # NoReply
                 PROVE  LET first == clients[packet[t].ident]
                        IN  /\ first # NoRecord
                            /\ reply[t] = Acknowledgement(packet[first.src])
        BY DEF AnsweredFromFirst
    <2>1. /\ pc[t] \notin Unfiled
          /\ reply[t] = Acknowledgement(clients[packet[t].ident])
        BY DEF Inv, Answers, Replied, Unfiled
    <2>2. packet[t].ident \in Hosts /\ clients[packet[t].ident] # NoRecord
        BY <2>1, OwnHost
    <2>3. clients[packet[t].ident] = packet[clients[packet[t].ident].src]
        BY <2>2 DEF Inv, TableInv, FiledParsed
    <2> QED
        BY <2>1, <2>2, <2>3
<1> QED
    BY <1>1, InvHolds, PTL

(***************************************************************************)
(* A request that deserves an OACK and gets none has one of three causes.  *)
(***************************************************************************)
THEOREM SilentForCause == Spec => []UnansweredForCause
<1>1. Inv => UnansweredForCause
    BY DEF Inv, Answers, Excused, Cause, UnansweredForCause
<1> QED
    BY <1>1, InvHolds, PTL

(***************************************************************************)
(* The record a TFTP thread looks up is there: the call that erases one is *)
(* never reached, and the DHCP threads' records have other keys.           *)
(***************************************************************************)
THEOREM LookupsSucceed == Spec => []NoLookupFault
<1>1. Inv => NoLookupFault
    BY DEF Inv
<1> QED
    BY <1>1, InvHolds, PTL

(***************************************************************************)
(* Once TFTP requests have all streams they keep them: no request that has *)
(* not opened its file by then is answered, and no menu lists the servers  *)
(* of serverlist.txt that did not list them by then.                       *)
(***************************************************************************)
THEOREM ExhaustionStays == Spec => ExhaustionIsFinal
<1> DEFINE Final ==
        Exhausted({}) =>
            /\ Exhausted({})'
            /\ \A t \in Threads \ opened : reply'[t] = reply[t]
            /\ \A m \in Menus : menu'[m] = "whole" => menu[m] = "whole"
<1>1. ASSUME Inv, [Next]_vars, Exhausted({})
      PROVE  Exhausted({})'
    <2>1. TypeOK /\ TypeOK' /\ opened \subseteq opened'
        BY <1>1, StepCore, StreamSteps DEF Core, Inv
    <2>2. Cardinality(opened') + Cardinality({}) >= MaxOpen
        BY <1>1, <2>1, ExhaustedStays
    <2> QED
        BY <2>2 DEF Exhausted
<1>2. ASSUME Inv, [Next]_vars, NEW t \in Threads \ opened
      PROVE  reply'[t] = reply[t]
    <2>1. ASSUME NEW e \in Threads, Send(e)
          PROVE  reply'[t] = reply[t]
        <3>1. e # t
            BY <1>2, <2>1 DEF Send, Step, Inv, Answers, Sendable
        <3> QED
            BY <1>2, <2>1, <3>1 DEF Send, Inv, TypeOK
    <2>2. ASSUME NEW e \in Threads, Receive(e) \/ ThreadStep(e)
          PROVE  reply'[t] = reply[t]
        BY <2>1, <2>2
        DEF Receive, ThreadStep, AddClient, GetClient, Terminate, FileAgain,
            PassOver, FileFails, RefuseMode, AcceptRead, Finish
    <2>3. ASSUME NEW m \in Menus, OpenServerList(m) \/ CloseServerList(m)
          PROVE  reply' = reply
        BY <2>3 DEF OpenServerList, CloseServerList, MenuStep
    <2>4. CASE MapRace \/ Stopped \/ UNCHANGED vars
        BY <2>4 DEF MapRace, Terminate, Stopped, vars
    <2> QED
        BY <1>2, <2>2, <2>3, <2>4 DEF Next
<1>3. ASSUME Inv, [Next]_vars, Exhausted({}),
             NEW m \in Menus, menu'[m] = "whole"
      PROVE  menu[m] = "whole"
    <2>1. /\ TypeOK /\ Streams <= MaxOpen
          /\ Streams = Cardinality(opened) + Cardinality(Reading)
          /\ Cardinality(opened) \in Nat /\ Cardinality(Reading) \in Nat
          /\ IsFiniteSet(Reading) /\ MaxOpen \in Nat
        BY <1>3, Finite DEF Inv, StreamsBounded
    <2>2. Cardinality(opened) >= MaxOpen
        BY <1>3, <2>1, FS_EmptySet DEF Exhausted
    <2>3. Reading = {}
        BY <2>1, <2>2, FS_EmptySet
    <2>4. ASSUME NEW n \in Menus, OpenServerList(n) \/ CloseServerList(n)
          PROVE  menu[m] = "whole"
        <3>1. ~CloseServerList(n)
            BY <2>3 DEF CloseServerList, MenuStep, Reading
        <3>2. \/ menu' = [menu EXCEPT ![n] = "reading"]
              \/ menu' = [menu EXCEPT ![n] = "short"]
            BY <2>4, <3>1 DEF OpenServerList, MenuStep
        <3> QED
            BY <1>3, <2>1, <3>2 DEF TypeOK
    <2> QED
        BY <1>3, <2>4, StreamSteps
<1>4. Inv /\ [Next]_vars => [Final]_vars
    BY <1>1, <1>2, <1>3
<1> QED
    BY <1>4, InvHolds, PTL DEF Spec, ExhaustionIsFinal

-----------------------------------------------------------------------------
(***************************************************************************)
(* The refinement of RequestReply.                                         *)
(***************************************************************************)

status == [t \in Threads |-> StatusOf(t)]

basis == [t \in Threads |-> IF reply[t] = NoReply THEN {} ELSE {c[t].src}]

(***************************************************************************)
(* A thread that does not step keeps its place in the promise.             *)
(***************************************************************************)
LEMMA SameStatus ==
    ASSUME NEW t \in Threads, pc'[t] = pc[t], reply'[t] = reply[t]
    PROVE  StatusOf(t)' = StatusOf(t)
BY DEF StatusOf

(***************************************************************************)
(* The places a typed thread can be in.                                    *)
(***************************************************************************)
LEMMA StatusByPlace ==
    ASSUME TypeOK, NEW t \in Threads
    PROVE  /\ pc[t] = "recv" => StatusOf(t) = "unseen"
           /\ pc[t] # "recv" => StatusOf(t) # "unseen"
           /\ pc[t] # "recv" /\ reply[t] # NoReply => StatusOf(t) = "answered"
           /\ pc[t] = "done" /\ reply[t] = NoReply => StatusOf(t) = "silent"
           /\ pc[t] \notin {"recv", "done"} /\ reply[t] = NoReply =>
                  StatusOf(t) = "open"
BY DEF StatusOf, TypeOK, Stages

(***************************************************************************)
(* A step of a thread that has received and sends nothing by it.           *)
(***************************************************************************)
LEMMA MiddleStep ==
    ASSUME Inv, TypeOK', NEW t \in Threads, UNCHANGED <<reply, fault>>,
           pc[t] \notin {"recv", "done"}, pc'[t] \notin {"recv", "done"},
           \A e \in Threads \ {t} : pc'[e] = pc[e] /\ c'[e] = c[e],
           reply[t] # NoReply => c'[t] = c[t]
    PROVE  UNCHANGED Promise!vars
<1>0. TypeOK
    BY DEF Inv
<1>1. \A e \in Threads \ {t} : StatusOf(e)' = StatusOf(e)
    BY SameStatus
<1>2. StatusOf(t) = (IF reply[t] = NoReply THEN "open" ELSE "answered")
    BY <1>0, StatusByPlace
<1>3. StatusOf(t)' = (IF reply'[t] = NoReply THEN "open" ELSE "answered")
    BY DEF StatusOf, TypeOK, Stages
<1>4. status' = status
    BY <1>1, <1>2, <1>3 DEF status
<1>5. basis' = basis
    BY DEF basis
<1> QED
    BY <1>4, <1>5 DEF Promise!vars, status, basis

(***************************************************************************)
(* Every step of the handler is a step of the promise or none.             *)
(***************************************************************************)
LEMMA StepPromise ==
    ASSUME Inv, [Next]_vars
    PROVE  [Promise!Next]_(Promise!vars)
<1>0. TypeOK /\ TypeOK'
    BY StepCore DEF Core, Inv
<1>1. ASSUME UNCHANGED <<pc, c, reply>>
      PROVE  status' = status /\ basis' = basis
    BY <1>1, SameStatus DEF status, basis
<1>2. ASSUME NEW cause \in {"out_of_range", "data_race"}, fault = "none",
             Terminate(cause)
      PROVE  Promise!Die
    BY <1>1, <1>2 DEF Terminate, Promise!Die, status, basis
<1>3. ASSUME UNCHANGED <<pc, c, reply, fault>>
      PROVE  UNCHANGED Promise!vars
    BY <1>1, <1>3 DEF Promise!vars, status, basis
<1>4. ASSUME NEW t \in Threads, Receive(t)
      PROVE  Promise!Next
    <2>1. /\ fault = "none" /\ pc[t] = "recv" /\ pc'[t] = "add"
          /\ \A e \in Threads \ {t} : pc'[e] = pc[e]
          /\ UNCHANGED <<c, reply, fault>>
        BY <1>0, <1>4 DEF Receive, Step, TypeOK
    <2>2. reply[t] = NoReply
        BY <2>1, NothingSent
    <2>3. StatusOf(t) = "unseen" /\ StatusOf(t)' = "open"
        BY <2>1, <2>2 DEF StatusOf
    <2>4. \A e \in Threads \ {t} : StatusOf(e)' = StatusOf(e)
        BY <2>1, SameStatus
    <2>5. status' = [status EXCEPT ![t] = "open"] /\ status[t] = "unseen"
        BY <2>3, <2>4 DEF status
    <2>6. basis' = basis
        BY <2>1 DEF basis
    <2> QED
        BY <2>1, <2>5, <2>6
        DEF Promise!Next, Promise!Accept, Promise!Become, status, basis
<1>5. ASSUME NEW t \in Threads,
             AddClient(t) \/ GetClient(t) \/ FileAgain(t) \/ PassOver(t)
             \/ FileFails(t) \/ RefuseMode(t) \/ AcceptRead(t)
      PROVE  [Promise!Next]_(Promise!vars)
    <2>1. CASE GetClient(t) /\ clients[packet[t].ident] = NoRecord
        BY <1>2, <2>1 DEF GetClient, Promise!Next
    <2>2. CASE ~(GetClient(t) /\ clients[packet[t].ident] = NoRecord)
        <3>1. /\ UNCHANGED <<reply, fault>>
              /\ pc[t] \notin {"recv", "finish", "done"}
              /\ pc'[t] \notin {"recv", "done"}
              /\ \A e \in Threads \ {t} : pc'[e] = pc[e] /\ c'[e] = c[e]
            BY <1>0, <1>5, <2>2
            DEF AddClient, GetClient, FileAgain, PassOver, FileFails, RefuseMode,
                AcceptRead, SetState, OpenFile, Step, TypeOK
        <3> QED
            BY <1>0, <3>1, NothingSent, MiddleStep
    <2> QED
        BY <2>1, <2>2
<1>6. ASSUME NEW t \in Threads, Send(t)
      PROVE  [Promise!Next]_(Promise!vars)
    <2>1. /\ fault = "none" /\ pc[t] = "send" /\ pc'[t] = "finish"
          /\ \A e \in Threads \ {t} : pc'[e] = pc[e]
          /\ UNCHANGED <<c, fault>>
        BY <1>0, <1>6 DEF Send, Step, TypeOK
    <2>2. CASE reply' = reply
        BY <1>0, <2>1, <2>2, MiddleStep
    <2>3. CASE reply' = [reply EXCEPT ![t] = Acknowledgement(c[t])]
        <3>1. c[t] \in Record /\ Alike(c[t], clients[packet[t].ident])
            BY <2>1 DEF Inv, TableInv, Copied, Uncopied
        <3>2. Acknowledgement(c[t]) # NoReply
            BY <2>1, <3>1, AcknowledgementType DEF Inv, Answers, Sendable
        <3>3. /\ reply[t] = NoReply /\ reply'[t] # NoReply
              /\ \A e \in Threads \ {t} : reply'[e] = reply[e]
            BY <1>0, <2>1, <2>3, <3>2, NothingSent DEF TypeOK
        <3>4. StatusOf(t) = "open" /\ StatusOf(t)' = "answered"
            BY <2>1, <3>3 DEF StatusOf
        <3>5. \A e \in Threads \ {t} : StatusOf(e)' = StatusOf(e)
            BY <2>1, <3>3, SameStatus
        <3>6. status' = [status EXCEPT ![t] = "answered"] /\ status[t] = "open"
            BY <3>4, <3>5 DEF status
        <3>7. basis' = [basis EXCEPT ![t] = {c[t].src}]
            BY <2>1, <3>3 DEF basis
        <3>8. c[t].src \in Threads /\ StatusOf(c[t].src) # "unseen"
            <4>1. /\ packet[t].ident \in Hosts
                  /\ clients[packet[t].ident] # NoRecord
                BY <2>1, OwnHost DEF Unfiled
            <4>2. c[t].src \in Threads /\ pc[c[t].src] \notin Unfiled
                BY <3>1, <4>1 DEF Inv, TableInv, FiledParsed, Alike, Record
            <4> QED
                BY <1>0, <4>2, StatusByPlace DEF Unfiled
        <3>9. c[t].src \in Promise!Eligible(t)
            BY <3>8 DEF Promise!Eligible, Promise!Accepted, status
        <3> QED
            BY <2>1, <3>6, <3>7, <3>9
            DEF Promise!Next, Promise!Answer, Promise!Become, status, basis
    <2> QED
        BY <1>6, <2>2, <2>3 DEF Send
<1>7. ASSUME NEW t \in Threads, Finish(t)
      PROVE  [Promise!Next]_(Promise!vars)
    <2>1. /\ fault = "none" /\ pc[t] = "finish" /\ pc'[t] = "done"
          /\ \A e \in Threads \ {t} : pc'[e] = pc[e]
          /\ UNCHANGED <<c, reply, fault>>
        BY <1>0, <1>7 DEF Finish, Step, TypeOK
    <2>2. \A e \in Threads \ {t} : StatusOf(e)' = StatusOf(e)
        BY <2>1, SameStatus
    <2>3. basis' = basis
        BY <2>1 DEF basis
    <2>4. CASE reply[t] = NoReply
        <3>1. StatusOf(t) = "open" /\ StatusOf(t)' = "silent"
            BY <2>1, <2>4 DEF StatusOf
        <3>2. status' = [status EXCEPT ![t] = "silent"] /\ status[t] = "open"
            BY <2>2, <3>1 DEF status
        <3> QED
            BY <2>1, <2>3, <3>2
            DEF Promise!Next, Promise!Ignore, Promise!Become, status, basis
    <2>5. CASE reply[t] # NoReply
        <3>1. StatusOf(t)' = StatusOf(t)
            BY <2>1, <2>5 DEF StatusOf
        <3>2. status' = status
            BY <2>2, <3>1 DEF status
        <3> QED
            BY <2>1, <2>3, <3>2 DEF Promise!vars, status, basis
    <2> QED
        BY <2>4, <2>5
<1>8. ASSUME NEW m \in Menus, OpenServerList(m) \/ CloseServerList(m)
      PROVE  UNCHANGED Promise!vars
    BY <1>3, <1>8 DEF OpenServerList, CloseServerList, MenuStep
<1>9. CASE MapRace
    BY <1>2, <1>9 DEF MapRace, Promise!Next
<1>10. CASE Stopped \/ UNCHANGED vars
    BY <1>3, <1>10 DEF Stopped, vars
<1> QED
    BY <1>4, <1>5, <1>6, <1>7, <1>8, <1>9, <1>10 DEF Next, ThreadStep

(***************************************************************************)
(* A TFTP datagram is answered at most once, after it was received and     *)
(* from a request that was received, and by no process that has died.      *)
(***************************************************************************)
THEOREM PromiseIsKept == Spec => Promise!SafeSpec
<1>1. Init => Promise!Init
    <2> SUFFICES ASSUME Init
                 PROVE  Promise!Init
        OBVIOUS
    <2>1. \A t \in Threads : StatusOf(t) = "unseen" /\ reply[t] = NoReply
        BY DEF Init, StatusOf
    <2> QED
        BY <2>1 DEF Init, Promise!Init
<1>2. Inv /\ [Next]_vars => [Promise!Next]_(Promise!vars)
    BY StepPromise
<1> QED
    BY <1>1, <1>2, InvHolds, PTL DEF Spec, Promise!SafeSpec
=============================================================================

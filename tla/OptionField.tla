----------------------------- MODULE OptionField -----------------------------
(***************************************************************************)
(* The bytes of DHCP options: the two loops of client::Init that walk over *)
(* the options of a datagram and over those within option 43, the options  *)
(* the handlers put in their place, and the bytes DHCP_Packet and          *)
(* StripPacket make of them all.  What the handlers choose is DhcpReply's  *)
(* subject; here it is a parameter.  Only datagrams that are answered      *)
(* without a relay agent are here: the others are given no END.            *)
(*                                                                         *)
(* Positions count from 1, in the first loop from the magic cookie on.     *)
(* The length byte of an option moves a position on by a signed char, so   *)
(* that it goes back or stays where it is for lengths from 128 to 254.     *)
(* The boot file name a client leaves before the cookie is empty.          *)
(*                                                                         *)
(* A definition whose name ends in Bug is a wrong variant of the one after *)
(* it; the specification uses none of them.                                *)
(***************************************************************************)
EXTENDS Integers, Sequences

CONSTANTS
    Datagrams,   \* what the clients send
    Answers,     \* the options the handlers set, by their codes
    MaxNested    \* how many nested options the memory holds

Byte == {n \in Nat : n < 256}

PAD == 0

END == 255

\* The bytes of a datagram before its options, the magic cookie included.
HeaderLength == 240

\* What the datagram has before its options.
Cookie == <<99, 130, 83, 99>>

\* Options as their constructor keeps them; Length is that of the value.
OptionSet == [code : Byte, value : Seq(Byte)]

\* Code, length and value.
Encoded(o) == <<o.code, Len(o.value)>> \o o.value

\* The bytes of the first so many options, as a loop writes them.
Encodings(options) ==
    LET bytes[k \in 0..Len(options)] ==
            IF k = 0 THEN <<>> ELSE bytes[k - 1] \o Encoded(options[k])
    IN  bytes

Encode(options) == Encodings(options)[Len(options)]

Listable(options) ==
    /\ options \in Seq(OptionSet)
    /\ \A k \in 1..Len(options) : Len(options[k].value) \in Byte

(***************************************************************************)
(* A datagram is whatever bytes a client sends: some options and the rest. *)
(* nested lists what its option 43 holds, if that is made of options.      *)
(***************************************************************************)
ASSUME DatagramsAssumption ==
    \A d \in Datagrams :
        Listable(d.options) /\ Listable(d.nested) /\ d.rest \in Seq(Byte)

\* Options over which the position goes forward.
Short(options) ==
    /\ Listable(options)
    /\ \A k \in 1..Len(options) :
           options[k].code \notin {PAD, END} /\ Len(options[k].value) < 128

(***************************************************************************)
(* A datagram as it should be: short options without padding between them, *)
(* nothing or END and padding after them, and what is nested likewise.     *)
(***************************************************************************)
Regular(d) ==
    /\ Short(d.options) /\ Short(d.nested) /\ Len(d.nested) <= MaxNested
    /\ d.rest # <<>> => d.rest[1] = END
    /\ \A k \in 1..Len(d.options) :
           d.options[k].code = 43 =>
               d.options[k].value \in {Encode(d.nested), Append(Encode(d.nested), END)}

ASSUME MaxNestedAssumption == MaxNested \in Nat

ASSUME AnswersAssumption ==
    \A a \in Answers :
        /\ DOMAIN a \subseteq Byte \ {PAD}
        /\ END \in DOMAIN a /\ a[END] = <<>>
        /\ \A n \in DOMAIN a : a[n] \in Seq(Byte) /\ Len(a[n]) \in Byte

VARIABLES
    stage,      \* how far the thread has come
    datagram,   \* what it received
    i,          \* the position of the running loop
    options,    \* the map of the client object: options[n] is a value
    nested,     \* the options read within option 43
    packet      \* the options of the reply as they leave

vars == <<stage, datagram, i, options, nested, packet>>

Stages == {"walk", "nested", "parsed", "handled", "written", "sent", "lost"}

\* The types of the map and of the reply.
TypeOK ==
    /\ stage \in Stages
    /\ datagram \in Datagrams
    /\ i \in Int
    /\ DOMAIN options \subseteq Byte
    /\ \A n \in DOMAIN options : options[n] \in Seq(Byte)
    /\ nested \in Seq(OptionSet)
    /\ packet \in Seq(Byte)

-----------------------------------------------------------------------------
(***************************************************************************)
(* Operators of the loops.                                                 *)
(***************************************************************************)

Signed(byte) == IF byte < 128 THEN byte ELSE byte - 256

\* Bug: a byte is read through a char.
AtBug(bytes, p) == IF p \in DOMAIN bytes THEN Signed(bytes[p]) ELSE 0

\* The buffers are cleared before they are filled.
At(bytes, p) == IF p \in DOMAIN bytes THEN bytes[p] ELSE 0

\* The option at p, with as many bytes as its length says.
OptionAt(bytes, p) ==
    [code |-> At(bytes, p),
     value |-> [k \in 1..At(bytes, p + 1) |-> At(bytes, p + 1 + k)]]

\* Bug: the bytes of the code and of the length are not counted.
PositionAfterBug(bytes, p) == p + Signed(At(bytes, p + 1))

\* i += 1 + buffer[i + 1], and the increment of the loop.
PositionAfter(bytes, p) == p + 2 + Signed(At(bytes, p + 1))

\* Bug: insert without RemoveOption leaves an option that is there.
AddOptionBug(map, o) ==
    [n \in DOMAIN map \cup {o.code} |-> IF n \in DOMAIN map THEN map[n] ELSE o.value]

\* AddOption replaces an option of the same code.
AddOption(map, o) ==
    [n \in DOMAIN map \cup {o.code} |-> IF n = o.code THEN o.value ELSE map[n]]

RemoveOptions(map, codes) == [n \in DOMAIN map \ codes |-> map[n]]

\* What DHCP_Packet leaves of the map: some options only a client sends.
Returned(map) == RemoveOptions(map, {50, 57, 61, 93, 94})

NoOptions == [n \in {} |-> <<>>]

Received == Encode(datagram.options) \o datagram.rest

\* The buffer of the datagram, from the cookie on.
Buffer == Cookie \o Received

\* The options of the map in the order of their codes: list[n] holds those
\* with codes below n.
Listed(map) ==
    LET Below(n) == {m \in DOMAIN map : m < n}
        list[n \in 0..(END + 1)] ==
            IF Below(n) = {} THEN <<>>
            ELSE LET m == CHOOSE m \in Below(n) : \A l \in Below(n) : l <= m
                 IN  Append(list[m], [code |-> m, value |-> map[m]])
    IN  list[END + 1]

\* Where a byte is 0xff.
Ends(bytes) == {p \in 1..Len(bytes) : bytes[p] = END}

\* Bug: the reply is cut after its first byte 0xff.
StripPacketBug(bytes) ==
    SubSeq(bytes, 1, CHOOSE p \in Ends(bytes) : \A q \in Ends(bytes) : p <= q)

\* The reply is cut after its last byte 0xff.
StripPacket(bytes) ==
    SubSeq(bytes, 1, CHOOSE p \in Ends(bytes) : \A q \in Ends(bytes) : q <= p)

-----------------------------------------------------------------------------
(***************************************************************************)
(* Actions.                                                                *)
(***************************************************************************)

Init ==
    /\ stage = "walk"
    /\ datagram \in Datagrams
    /\ i = Len(Cookie) + 1
    /\ options = NoOptions
    /\ nested = <<>>
    /\ packet = <<>>

InOptions == i <= Len(Buffer) /\ At(Buffer, i) # END

ReadOption ==
    /\ stage = "walk"
    /\ InOptions
    /\ options' = AddOption(options, OptionAt(Buffer, i))
    /\ i' = PositionAfter(Buffer, i)
    /\ UNCHANGED <<stage, datagram, nested, packet>>

\* The parameter request list is dropped; option 43, if there is one, is
\* walked over next.
EndOptions ==
    /\ stage = "walk"
    /\ ~InOptions
    /\ options' = RemoveOptions(options, {55})
    /\ stage' = IF 43 \in DOMAIN options THEN "nested" ELSE "parsed"
    /\ i' = 1
    /\ UNCHANGED <<datagram, nested, packet>>

\* The loop is bounded by the length of the datagram, not of the option.
InNested ==
    i <= HeaderLength + Len(Received) /\ At(options[43], i) \notin {PAD, END}

\* Bug: only END stops the loop.
ReadNestedBug ==
    /\ stage = "nested"
    /\ i <= HeaderLength + Len(Received) /\ At(options[43], i) # END
    /\ Len(nested) < MaxNested
    /\ nested' = Append(nested, OptionAt(options[43], i))
    /\ i' = PositionAfter(options[43], i)
    /\ UNCHANGED <<stage, datagram, options, packet>>

ReadNested ==
    /\ stage = "nested"
    /\ InNested
    /\ Len(nested) < MaxNested
    /\ nested' = Append(nested, OptionAt(options[43], i))
    /\ i' = PositionAfter(options[43], i)
    /\ UNCHANGED <<stage, datagram, options, packet>>

\* What is before the buffer of the nested options may look like their end.
EndNested ==
    /\ stage = "nested"
    /\ ~InNested
    /\ stage' = "parsed"
    /\ UNCHANGED <<datagram, i, options, nested, packet>>

\* It may be anything else as well; or the memory is full.
LoseNested ==
    /\ stage = "nested"
    /\ i < 1 \/ (InNested /\ Len(nested) = MaxNested)
    /\ stage' = "lost"
    /\ UNCHANGED <<datagram, i, options, nested, packet>>

\* The handlers set their options, END among them.
Handle ==
    /\ stage = "parsed"
    /\ \E a \in Answers :
           options' = [n \in DOMAIN options \cup DOMAIN a |->
                          IF n \in DOMAIN a THEN a[n] ELSE options[n]]
    /\ stage' = "handled"
    /\ UNCHANGED <<datagram, i, nested, packet>>

\* DHCP_Packet drops some options and writes the others; zeroes follow them.
WritePacket ==
    /\ stage = "handled"
    /\ options' = Returned(options)
    /\ packet' = Encode(Listed(options')) \o <<0, 0>>
    /\ stage' = "written"
    /\ UNCHANGED <<datagram, i, nested>>

Strip ==
    /\ stage = "written"
    /\ packet' = StripPacket(packet)
    /\ stage' = "sent"
    /\ UNCHANGED <<datagram, i, options, nested>>

Finished == stage \in {"sent", "lost"} /\ UNCHANGED vars

Next ==
    \/ ReadOption \/ EndOptions \/ ReadNested \/ EndNested \/ LoseNested
    \/ Handle \/ WritePacket \/ Strip \/ Finished

\* A thread keeps running.
Spec == Init /\ [][Next]_vars /\ WF_vars(Next)

-----------------------------------------------------------------------------
(***************************************************************************)
(* Properties.                                                             *)
(***************************************************************************)

(***************************************************************************)
(* The first loop finds the options a regular datagram has and no others,  *)
(* though their values hold bytes that look like END, like padding or like *)
(* other options: of two options with one code the later one counts.       *)
(***************************************************************************)
LastOf(list, n) ==
    LET k == CHOOSE k \in 1..Len(list) :
                 list[k].code = n /\ \A j \in (k + 1)..Len(list) : list[j].code # n
    IN  list[k].value

OptionsAsSent ==
    stage \in {"nested", "parsed"} /\ Regular(datagram) =>
        LET sent == datagram.options
            codes == {sent[k].code : k \in 1..Len(sent)} \ {55}
        IN  options = [n \in codes |-> LastOf(sent, n)]

(***************************************************************************)
(* The second loop finds the options nested in option 43 of a regular      *)
(* datagram, whether or not they end in END and wherever the loop would    *)
(* have to stop by its bound, which is the length of something else.       *)
(***************************************************************************)
NestedAsSent ==
    stage = "parsed" /\ Regular(datagram) /\ 43 \in DOMAIN options =>
        nested = datagram.nested

(***************************************************************************)
(* Whoever reads the reply by the rules of the protocol finds the options  *)
(* of the map behind it, with their values, up to END: StripPacket, which  *)
(* knows nothing of options, cuts off none of them.  So it is whatever the *)
(* datagram was, unless the first loop took its padding for an option.     *)
(***************************************************************************)
\* One turn of the reader's loop, from a position and what was found so far.
ReaderTurn(bytes, at) ==
    LET last == at.p + 1 + At(bytes, at.p + 1)
    IN  CASE at.p <= Len(bytes) /\ bytes[at.p] = PAD -> [at EXCEPT !.p = at.p + 1]
          [] last <= Len(bytes) /\ bytes[at.p] \notin {PAD, END} ->
                 [p |-> last + 1, found |-> Append(at.found, OptionAt(bytes, at.p))]
          [] OTHER -> at

\* It ends with the turn that leaves it where it is.
ReadFrom(bytes) ==
    LET turn[k \in 0..Len(bytes)] ==
            IF k = 0 THEN [p |-> 1, found |-> <<>>]
            ELSE ReaderTurn(bytes, turn[k - 1])
        last == CHOOSE k \in 0..Len(bytes) : ReaderTurn(bytes, turn[k]) = turn[k]
    IN  turn[last].found

ReplyReadsBack ==
    stage = "sent" /\ PAD \notin DOMAIN options =>
        /\ packet # <<>> /\ packet[Len(packet)] = END
        /\ ReadFrom(packet) = Listed(RemoveOptions(options, {END}))

(***************************************************************************)
(* Both loops end and the reply is made from every regular datagram.  From *)
(* any other one it is not made only if a loop stood at an option of 128   *)
(* to 254 bytes, and then either does so again and again for ever, or it   *)
(* has left its buffer or filled the memory.                               *)
(***************************************************************************)
TurnsBack ==
    \/ stage = "walk" /\ InOptions /\ At(Buffer, i + 1) \in 128..254
    \/ stage = "nested" /\ InNested /\ At(options[43], i + 1) \in 128..254

WalkEnds ==
    \/ <>(stage = "sent")
    \/ /\ ~Regular(datagram)
       /\ []<>TurnsBack \/ <>(TurnsBack /\ <>(stage = "lost"))
=============================================================================

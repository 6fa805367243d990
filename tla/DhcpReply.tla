------------------------------ MODULE DhcpReply ------------------------------
(***************************************************************************)
(* How one thread works out the reply to one DHCP or BOOTP datagram: the   *)
(* client object client::Init makes of it, the branch Handle_Request takes *)
(* and the handler of its message, and the packet DHCP_Packet and          *)
(* StripPacket make of the object.  The table of clients is left to        *)
(* DhcpHandler: here the record that is answered is the one just parsed.   *)
(*                                                                         *)
(* Options are codes; of the values the model keeps those that decide      *)
(* something or that the reply's reader needs.                             *)
(*                                                                         *)
(* A definition whose name ends in Bug is a wrong variant of the one after *)
(* it; the specification uses none of them.                                *)
(***************************************************************************)
EXTENDS VendorOptions

CONSTANTS
    Requests,      \* the datagrams clients and relay agents send
    MenuSettings   \* the values SETTINGS.PXEBOOTMENUE may be built with

Classes == {"PXEClient", "PXEServer", "APPLEBSDP", "other", "none"}

Vendors == {"UNKNOWNNO", "PXEClient", "PXEServer", "APPLEBSDP"}

Messages == {"DISCOVER", "REQUEST", "INFORM", "RELEASE", "unhandled"}

Files == {"none", "Boot/x86/wdsnbp.com", "Boot/x64/efi/wdsmgfw.efi"}

\* The options that occur.  77 and 175 are those of iPXE, which client::Init
\* looks at but lets decide nothing.
Codes == {43, 50, 53, 54, 55, 57, 60, 61, 66, 67, 77, 93, 94, 97, 175, 255}

\* Who set an option last; "none" when the map has no such option.
Setters == {"none", "client", "server"}

\* The four bytes of sub-option 71, or nothing.
Choice == {<<>>} \cup [1..4 -> Byte]

(***************************************************************************)
(* choice is sub-option 71; archs the 16-bit numbers of option 93; codes   *)
(* the options present beside those.                                       *)
(***************************************************************************)
Datagram ==
    [service : {"DHCP", "BOOTP"}, relayed : BOOLEAN, class : Classes,
     msg : Messages, choice : Choice, archs : Seq(Short),
     codes : SUBSET {50, 54, 55, 57, 61, 77, 94, 97, 175}]

(***************************************************************************)
(* The client object.  message is the value of option 53, class that of    *)
(* option 60, vendorops that of option 43 once the server has set it, and  *)
(* item that of sub-option 71 among them.  type and layer are rbcp's.      *)
(***************************************************************************)
Client ==
    [vendor : Vendors, class : Classes, type : Short, layer : Short, arch : Seq(Byte),
     allowMenu : BOOLEAN, options : [Codes -> Setters],
     message : Messages \cup {"OFFER", "ACK"},
     vendorops : Seq([code : Byte, length : Byte, size : Nat]),
     item : Choice, nextIP : {"client", "server"}, filename : Files,
     port : Short]

\* The port a PXE client sends from, on either endpoint.
ClientPort == 68

ASSUME RequestsAssumption == Requests \subseteq Datagram

ASSUME MenuSettingsAssumption == MenuSettings \subseteq BOOLEAN

VARIABLES
    stage,    \* how far the thread has come
    request,  \* the datagram
    c,        \* the client object made of it
    reply     \* the codes of the options that leave in the packet

vars == <<stage, request, c, reply>>

Stages == {"receive", "parsed", "handled", "sent", "ignored"}

\* The types of the client object and of the reply.
TypeOK ==
    /\ stage \in Stages
    /\ request \in Requests
    /\ c \in Client
    /\ reply \in SUBSET Codes

-----------------------------------------------------------------------------
(***************************************************************************)
(* The client object.                                                      *)
(***************************************************************************)

RequestCodes(r) ==
    r.codes \cup {53}
            \cup (IF r.class = "none" THEN {} ELSE {60})
            \cup (IF r.choice = <<>> THEN {} ELSE {43})
            \cup (IF r.archs = <<>> THEN {} ELSE {93})

\* Bug: the low byte of an architecture is left out.
ArchBytesBug(archs) == [k \in 1..Len(archs) |-> archs[k] \div 256]

\* Every byte of option 93 becomes an architecture of its own.
ArchBytes(archs) ==
    [k \in 1..(2 * Len(archs)) |->
        LET word == archs[(k + 1) \div 2]
        IN  IF k % 2 = 1 THEN word \div 256 ELSE word % 256]

\* client::Init; v is what the memory of the member vendor holds, which an
\* option 60 of a class it does not know leaves as it is.
ParsedClient(r, v, menu) ==
    [vendor    |-> IF r.class = "none" THEN "UNKNOWNNO"
                   ELSE IF r.class = "other" THEN v ELSE r.class,
     class     |-> r.class,
     type      |-> IF r.choice = <<>> THEN 0
                   ELSE BS16(Word(r.choice[1], r.choice[2])),
     layer     |-> IF r.choice = <<>> THEN 0
                   ELSE BS16(Word(r.choice[3], r.choice[4])),
     arch      |-> ArchBytes(r.archs),
     allowMenu |-> menu,
     options   |-> [n \in Codes |-> IF n \in RequestCodes(r) \ {55}
                                   THEN "client" ELSE "none"],
     message   |-> r.msg,
     vendorops |-> <<>>,
     item      |-> <<>>,
     nextIP    |-> "client",
     filename  |-> "none",
     port      |-> ClientPort]

\* Bug: insert without RemoveOption leaves an option that is there.
AddOptionsBug(cl, codes) ==
    [cl EXCEPT !.options =
        [n \in Codes |-> IF n \in codes /\ cl.options[n] = "none" THEN "server"
                         ELSE cl.options[n]]]

\* AddOption for each of the codes, which replaces an option that is there.
AddOptions(cl, codes) ==
    [cl EXCEPT !.options =
        [n \in Codes |-> IF n \in codes THEN "server" ELSE cl.options[n]]]

\* set_nextIP and set_filename set options 66 and 67 as well.
SetNextIP(cl) == AddOptions([cl EXCEPT !.nextIP = "server"], {66})

SetFilename(cl, file) == AddOptions([cl EXCEPT !.filename = file], {67})

SetMessage(cl, msg) == AddOptions([cl EXCEPT !.message = msg], {53})

\* Option 43 with END among its options.
SetVendorOptions(cl, subs) ==
    AddOptions([cl EXCEPT !.vendorops = Append(subs, End)], {43})

-----------------------------------------------------------------------------
(***************************************************************************)
(* The handlers.                                                           *)
(***************************************************************************)

BootFiles ==
    [a \in {0, 7, 9} |-> IF a = 7 THEN "Boot/x64/efi/wdsmgfw.efi"
                         ELSE "Boot/x86/wdsnbp.com"]

\* The positions of the architectures that have a file.
Bootable(cl) == {k \in 1..Len(cl.arch) : cl.arch[k] \in DOMAIN BootFiles}

\* Each architecture that has a file overrides those before it.
Select_Bootfile(cl) ==
    IF Bootable(cl) = {} THEN cl
    ELSE LET last == CHOOSE k \in Bootable(cl) : \A j \in Bootable(cl) : j <= k
         IN  SetFilename(cl, BootFiles[cl.arch[last]])

Handle_DHCP_Discover(cl) ==
    LET offer == SetMessage(cl, "OFFER")
    IN  IF cl.allowMenu
        THEN SetVendorOptions(SetNextIP(offer), MulticastOptions \o BootMenuOptions)
        ELSE offer

\* rbcp.get_item and get_layer, which swap what set_item and set_layer did.
BootItem(cl) == BS16(cl.type)

BootLayer(cl) == BS16(cl.layer)

\* Bug: item and layer are copied out as numbers of this machine.
ChoiceBytesBug(cl) ==
    <<cl.type % 256, cl.type \div 256, cl.layer % 256, cl.layer \div 256>>

\* The value of sub-option 71: both numbers, low byte first.
ChoiceBytes(cl) ==
    <<BootItem(cl) % 256, BootItem(cl) \div 256,
      BootLayer(cl) % 256, BootLayer(cl) \div 256>>

\* A choice from the menu is confirmed; only the one that compares equal to
\* 1 after BS16 is given a file.
ConfirmChoice(cl) ==
    LET confirmed == SetVendorOptions([cl EXCEPT !.item = ChoiceBytes(cl)],
                                      Append(MulticastOptions, Option(71, 4)))
    IN  IF BS16(BootItem(cl)) = BS16(1)
        THEN Select_Bootfile(SetNextIP(confirmed))
        ELSE confirmed

\* Bug: a client without a menu is given a file and no server.
BootDirectlyBug(cl) == AddOptions(Select_Bootfile(cl), {54})

BootDirectly(cl) == AddOptions(SetNextIP(Select_Bootfile(cl)), {54})

Handle_DHCP_Request(cl) ==
    LET ack == SetMessage(cl, "ACK")
    IN  CASE ~cl.allowMenu -> BootDirectly(ack)
          [] cl.allowMenu /\ BootItem(cl) = 0 ->
                 SetVendorOptions(ack, MulticastOptions)
          [] cl.allowMenu /\ BootItem(cl) # 0 -> ConfirmChoice(ack)

-----------------------------------------------------------------------------
(***************************************************************************)
(* Actions.                                                                *)
(***************************************************************************)

Init ==
    /\ stage = "receive"
    /\ request \in Requests
    /\ \E v \in Vendors, menu \in MenuSettings :
           c = ParsedClient(request, v, menu)
    /\ reply = {}

\* The branch for relay agents: the record goes back as it came.  The ports
\* are stored without htons.
Relay ==
    /\ stage = "receive"
    /\ request.relayed
    /\ c' = [c EXCEPT !.port = BS16(IF request.service = "DHCP" THEN 67 ELSE 4011)]
    /\ stage' = "handled"
    /\ UNCHANGED <<request, reply>>

\* Bug: the case of PXEServer has no break.
NameVendorBug(cl) == AddOptions([cl EXCEPT !.class = "PXEClient"], {60})

\* Option 60 names the vendor, which is one of PXE's two.
NameVendor(cl) == AddOptions([cl EXCEPT !.class = cl.vendor], {60})

\* What the other branch does once the vendor is known to be PXE's.
AnswerWith(msgs, answered) ==
    /\ stage = "receive"
    /\ ~request.relayed
    /\ c.vendor \in {"PXEClient", "PXEServer"}
    /\ c.message \in msgs
    /\ c' = AddOptions(answered, {255})
    /\ stage' = "handled"
    /\ UNCHANGED <<request, reply>>

Discover == AnswerWith({"DISCOVER"}, Handle_DHCP_Discover(NameVendor(c)))

Request == AnswerWith({"REQUEST", "INFORM"}, Handle_DHCP_Request(NameVendor(c)))

\* The record leaves the table, and the message goes back.
Release == AnswerWith({"RELEASE"}, NameVendor(c))

Ignore ==
    /\ stage = "receive"
    /\ ~request.relayed
    /\ \/ c.vendor \notin {"PXEClient", "PXEServer"}
       \/ c.message = "unhandled"
    /\ stage' = "ignored"
    /\ UNCHANGED <<request, c, reply>>

\* The options DHCP_Packet writes.
PacketCodes(cl) ==
    {n \in Codes : cl.options[n] # "none"} \ {50, 57, 61, 93, 94}

\* StripPacket cuts the packet after its last byte 0xff.  That is END, when
\* there is one, and else may be any byte: the options whose codes are higher
\* are lost.
SendReply ==
    /\ stage = "handled"
    /\ IF 255 \in PacketCodes(c)
       THEN reply' = PacketCodes(c)
       ELSE \E n \in Codes : reply' = {k \in PacketCodes(c) : k < n}
    /\ stage' = "sent"
    /\ UNCHANGED <<request, c>>

Finished ==
    /\ stage \in {"sent", "ignored"}
    /\ UNCHANGED vars

Next == Relay \/ Discover \/ Request \/ Release \/ Ignore \/ SendReply \/ Finished

Spec == Init /\ [][Next]_vars

-----------------------------------------------------------------------------
(***************************************************************************)
(* Properties.                                                             *)
(***************************************************************************)

(***************************************************************************)
(* A reply to a PXE client on this network answers in kind, has its END,   *)
(* and names the vendor the client named, if it named one the server       *)
(* knows.  To a class it does not know the server answers as well when the *)
(* memory of the member vendor holds one of PXE's; what the reply then     *)
(* names is a vendor of PXE's, though not the client's.                    *)
(***************************************************************************)
AnswersInKind ==
    stage = "sent" /\ ~request.relayed =>
        /\ {53, 60, 255} \subseteq reply
        /\ c.class \in {"PXEClient", "PXEServer"}
        /\ request.class # "other" => c.class = request.class
        /\ request.msg = "DISCOVER" => c.message = "OFFER"
        /\ request.msg \in {"REQUEST", "INFORM"} => c.message = "ACK"

(***************************************************************************)
(* The reply starts as a copy of what the client sent, and some of it does *)
(* go back.  But what an offer or an acknowledgement says to the client is *)
(* never the client's own option in place of the server's: not the message *)
(* and the vendor, not the menu's options where there is a menu, not the   *)
(* server's identity where there is none.                                  *)
(***************************************************************************)
NoEchoForAnswer ==
    stage = "sent" /\ c.message \in {"OFFER", "ACK"} =>
        LET due == {53, 60, 255}
                       \cup (IF c.allowMenu THEN {43}
                             ELSE IF c.message = "ACK" THEN {54, 66} ELSE {})
        IN  due \subseteq reply /\ \A n \in due : c.options[n] = "server"

(***************************************************************************)
(* The choice from the boot menu comes back byte for byte, though the item *)
(* and the layer are swapped three times on the way.                       *)
(***************************************************************************)
ChoiceComesBack ==
    stage = "sent" /\ c.item # <<>> => c.item = request.choice

(***************************************************************************)
(* The file is the one of the client's last architecture, if that has one, *)
(* although every half of a 16-bit architecture is looked up by itself.    *)
(***************************************************************************)
LastArchitectureDecides ==
    LET last == request.archs[Len(request.archs)]
    IN  c.filename # "none" /\ last \in DOMAIN BootFiles =>
            c.filename = BootFiles[last]

(***************************************************************************)
(* A client that is given a file is told which server has it.              *)
(***************************************************************************)
FileComesWithServer ==
    c.filename # "none" =>
        c.nextIP = "server" /\ \A n \in {66, 67} : c.options[n] = "server"

(***************************************************************************)
(* The vendor options reach the client whole: neither option 43 nor one of *)
(* the options in it is longer than its length says.  The constructor of   *)
(* DHCP_Option announces "Get the entire options length!" and keeps it in  *)
(* one byte.                                                               *)
(***************************************************************************)
VendorOptionsAreWhole ==
    /\ Whole(Nested(43, c.vendorops))
    /\ \A k \in DOMAIN c.vendorops : Whole(c.vendorops[k])

(***************************************************************************)
(* The menu lists this server as its item 1 ("Add this server to the       *)
(* list."), so a client that chooses it is sent to this server.  The code  *)
(* compares BS16 of the item with BS16(1) where the item has already been  *)
(* swapped back.                                                           *)
(***************************************************************************)
ThisServerCanBeChosen ==
    /\ stage = "sent"
    /\ c.item # <<>>
    /\ request.choice[1] = 0 /\ request.choice[2] = 1
    => c.nextIP = "server"

(***************************************************************************)
(* PXE boot across subnets: a discovery a relay agent passes on is offered *)
(* something.  The branch for relay agents returns the discovery itself.   *)
(***************************************************************************)
RelayedDiscoveryIsOffered ==
    stage = "sent" /\ request.relayed /\ request.class = "PXEClient"
        /\ request.msg = "DISCOVER"
    => c.message = "OFFER"
=============================================================================

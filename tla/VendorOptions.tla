---------------------------- MODULE VendorOptions ----------------------------
(***************************************************************************)
(* The bytes of the vendor options (option 43) a reply carries: DHCP_Option *)
(* with its length of one byte, the PXE boot menu and its list of servers, *)
(* and the 16-bit numbers whose bytes BS16 swaps.  An option is known by   *)
(* its code and length; size is the length its builder was given, before   *)
(* it was narrowed to a byte.                                              *)
(***************************************************************************)
EXTENDS Naturals, Sequences

CONSTANTS
    HostNameLength,  \* the length of this server's host name
    ServerLengths    \* the lengths of the names in serverlist.txt

Byte == {n \in Nat : n < 256}

\* An unsigned short.
Short == {n \in Nat : n < 65536}

ASSUME HostNameAssumption == HostNameLength \in Nat

ASSUME ServerLengthsAssumption == ServerLengths \in Seq(Nat)

-----------------------------------------------------------------------------
(***************************************************************************)
(* Numbers of 16 bits.                                                     *)
(***************************************************************************)

\* What an unsigned short reads from two bytes in memory, low byte first.
Word(low, high) == low + 256 * high

\* Bug: the low byte is shifted up and not masked out first.
BS16Bug(word) == (word \div 256) + 256 * word

BS16(word) == (word \div 256) + 256 * (word % 256)

-----------------------------------------------------------------------------
(***************************************************************************)
(* Options.                                                                *)
(***************************************************************************)

Option(code, size) == [code |-> code, length |-> size % 256, size |-> size]

\* The sums of the first so many of some numbers, as a loop adds them up.
Sums(numbers) ==
    LET sum[k \in 0..Len(numbers)] ==
            IF k = 0 THEN 0 ELSE sum[k - 1] + numbers[k]
    IN  sum

Total(numbers) == Sums(numbers)[Len(numbers)]

\* Code, length and value of each option, one after another.
EncodedSize(options) ==
    Total([k \in 1..Len(options) |-> options[k].length + 2])

\* The constructor of an option made of options.
Nested(code, options) == Option(code, EncodedSize(options))

\* No byte of the option was cut off.
Whole(o) == o.length = o.size

-----------------------------------------------------------------------------
(***************************************************************************)
(* GenerateMulticastOption and GenerateBootMenue.                          *)
(***************************************************************************)

MulticastOptions ==
    <<Option(6, 1), Option(1, 4), Option(3, 2), Option(4, 1), Option(5, 1)>>

LocalBootLength == 10

PromptLength == 34

\* "Local Boot", this server, and the servers of the list, in this order;
\* an entry is known by its number in the menu.
MenuEntries == <<LocalBootLength, HostNameLength>> \o ServerLengths

\* Number, length and text of each entry.
MenuSize == Total([k \in 1..Len(MenuEntries) |-> 3 + (MenuEntries[k] % 256)])

\* Bug: a server's entry is as long as its structure is with padding.
BootMenuOptionsBug ==
    <<Option(9, MenuSize), Option(8, 12 * Len(MenuEntries)),
      Option(10, 1 + PromptLength)>>

\* The menu, the servers behind its entries, and the prompt.
BootMenuOptions ==
    <<Option(9, MenuSize), Option(8, 7 * Len(MenuEntries)),
      Option(10, 1 + PromptLength)>>

End == Option(255, 0)
=============================================================================

--------------------------- MODULE DhcpReplyProofs ---------------------------
(***************************************************************************)
(* Proofs about DhcpReply and the vendor options it is made with.          *)
(***************************************************************************)
EXTENDS DhcpReply, NaturalLemmas, SequenceTheorems, TLAPS

-----------------------------------------------------------------------------
(***************************************************************************)
(* Numbers.                                                                *)
(***************************************************************************)

(***************************************************************************)
(* The sums exist: the first is 0, and each adds one number to the one     *)
(* before it.                                                              *)
(***************************************************************************)
LEMMA SumsStep ==
    ASSUME NEW numbers \in Seq(Nat)
    PROVE  /\ Sums(numbers)[0] = 0
           /\ \A k \in 1..Len(numbers) :
                  Sums(numbers)[k] = Sums(numbers)[k - 1] + numbers[k]
<1> DEFINE n == Len(numbers)
           IsSum(f) == f = [k \in 0..n |-> IF k = 0 THEN 0 ELSE f[k - 1] + numbers[k]]
           step == [k \in 1..n |-> [x \in Nat |-> x + numbers[k]]]
<1>1. n \in Nat /\ step \in [1..n -> [Nat -> Nat]]
    OBVIOUS
<1>2. PICK f : Iterates(f, step, 0, n, Nat)
    <2> HIDE DEF step, n
    <2>1. Stepwise(step, n, Nat)
        BY <1>1 DEF Stepwise
    <2> QED
        BY <1>1, <2>1, IterationExists
<1>3. IsSum(f)
    <2>1. f \in [0..n -> Nat] /\ f[0] = 0
        BY <1>2 DEF Iterates
    <2>2. ASSUME NEW k \in 1..n
          PROVE  f[k] = f[k - 1] + numbers[k]
        <3>1. f[k - 1] \in Nat
            <4>1. k - 1 \in 0..n
                BY <1>1
            <4> HIDE DEF n
            <4> QED
                BY <2>1, <4>1
        <3> QED
            BY <1>2, <3>1 DEF Iterates
    <2> HIDE DEF step, n
    <2> QED
        BY <1>1, <2>1, <2>2
<1>4. IsSum(Sums(numbers))
    <2>1. Sums(numbers) = CHOOSE g : IsSum(g)
        BY DEF Sums
    <2> HIDE DEF IsSum
    <2> QED
        BY <1>3, <2>1
<1> DEFINE g == Sums(numbers)
<1> HIDE DEF g, step
<1>5. g = [k \in 0..n |-> IF k = 0 THEN 0 ELSE g[k - 1] + numbers[k]]
    BY <1>4 DEF g
<1>6. g[0] = 0 /\ \A k \in 1..n : g[k] = g[k - 1] + numbers[k]
    <2> HIDE DEF n
    <2>1. 0 \in 0..n /\ \A k \in 1..n : k \in 0..n /\ k # 0
        BY <1>1
    <2> QED
        BY <1>5, <2>1, Zenon
<1> QED
    BY <1>6 DEF g

(***************************************************************************)
(* A sum of natural numbers is one.                                        *)
(***************************************************************************)
LEMMA TotalType ==
    ASSUME NEW numbers \in Seq(Nat)
    PROVE  Total(numbers) \in Nat
<1> DEFINE n == Len(numbers)
           f == Sums(numbers)
           S == {k \in 0..n : f[k] \in Nat}
<1>1. n \in Nat /\ 0 \in 0..n /\ n \in 0..n /\ \A k \in 1..n : numbers[k] \in Nat
    OBVIOUS
<1>2. f[0] = 0 /\ \A k \in 1..n : f[k] = f[k - 1] + numbers[k]
    BY SumsStep
<1>3. f[n] = Total(numbers)
    BY DEF Total, Sums
<1> HIDE DEF f, n
<1>4. ASSUME NEW k \in 1..n, k - 1 \in S
      PROVE  k \in S
    <2>1. f[k - 1] \in Nat
        BY <1>4
    <2>2. f[k] \in Nat
        BY <1>1, <1>2, <2>1
    <2> QED
        BY <1>1, <2>2
<1>5. n \in S
    <2>1. 0 \in S
        BY <1>1, <1>2
    <2> HIDE DEF S
    <2> QED
        BY <1>1, <1>4, <2>1, InductionUpTo, Zenon
<1> QED
    BY <1>3, <1>5

(***************************************************************************)
(* One number more adds itself to the sum.                                 *)
(***************************************************************************)
LEMMA TotalOfAppend ==
    ASSUME NEW numbers \in Seq(Nat), NEW x \in Nat
    PROVE  Total(Append(numbers, x)) = Total(numbers) + x
<1> DEFINE more == Append(numbers, x)
           n == Len(numbers)
           f == Sums(numbers)
           g == Sums(more)
           S == {k \in 0..n : f[k] = g[k]}
<1>1. /\ more \in Seq(Nat) /\ n \in Nat /\ Len(more) = n + 1
      /\ \A k \in 1..n : more[k] = numbers[k]
      /\ more[n + 1] = x
    BY AppendProperties
<1>2. f[0] = 0 /\ \A k \in 1..n : f[k] = f[k - 1] + numbers[k]
    BY SumsStep
<1>3. g[0] = 0 /\ \A k \in 1..(n + 1) : g[k] = g[k - 1] + more[k]
    BY <1>1, SumsStep
<1>4. Total(numbers) = f[n] /\ Total(more) = g[n + 1]
    BY <1>1 DEF Total
<1> HIDE DEF f, g, more, n
<1>5. 0 \in S /\ \A k \in 1..n : k - 1 \in S => k \in S
    BY <1>1, <1>2, <1>3
<1>6. n \in S
    <2>1. n \in 0..n
        BY <1>1
    <2> HIDE DEF S
    <2> QED
        BY <1>1, <1>5, <2>1, InductionUpTo, Zenon
<1>7. g[n + 1] = g[n + 1 - 1] + more[n + 1] /\ n + 1 - 1 = n
    BY <1>1, <1>3
<1> QED
    BY <1>1, <1>4, <1>6, <1>7 DEF more

(***************************************************************************)
(* Joining three elements to a sequence appends them one by one.           *)
(***************************************************************************)
LEMMA ThreeAppended ==
    ASSUME NEW S, NEW s \in Seq(S), NEW x \in S, NEW y \in S, NEW z \in S
    PROVE  s \o <<x, y, z>> = Append(Append(Append(s, x), y), z)
<1> DEFINE n == Len(s)
           s1 == Append(s, x)
           s2 == Append(s1, y)
           s3 == Append(s2, z)
           tail == <<x, y, z>>
<1>1. n \in Nat
    OBVIOUS
<1>2. /\ s1 \in Seq(S) /\ Len(s1) = n + 1
      /\ \A k \in 1..n : s1[k] = s[k]
      /\ s1[n + 1] = x
    BY AppendProperties
<1> HIDE DEF s1
<1>3. /\ s2 \in Seq(S) /\ Len(s2) = n + 1 + 1
      /\ \A k \in 1..(n + 1) : s2[k] = s1[k]
      /\ s2[n + 1 + 1] = y
    BY <1>2, AppendProperties
<1> HIDE DEF s2
<1>4. /\ s3 \in Seq(S) /\ Len(s3) = n + 1 + 1 + 1
      /\ \A k \in 1..(n + 1 + 1) : s3[k] = s2[k]
      /\ s3[n + 1 + 1 + 1] = z
    BY <1>3, AppendProperties
<1> HIDE DEF s3
<1>5. /\ tail \in Seq(S) /\ Len(tail) = 3
      /\ tail[1] = x /\ tail[2] = y /\ tail[3] = z
    OBVIOUS
<1> HIDE DEF tail
<1>6. /\ s \o tail \in Seq(S) /\ Len(s \o tail) = n + Len(tail)
      /\ \A k \in 1..(n + Len(tail)) :
             (s \o tail)[k] = IF k <= n THEN s[k] ELSE tail[k - n]
    BY <1>5, ConcatProperties, Zenon
<1> HIDE DEF n
<1>7. ASSUME NEW k \in 1..(n + 3)
      PROVE  (s \o tail)[k] = s3[k]
    <2>1. CASE k \in 1..n
        <3>1. s3[k] = s2[k] /\ s2[k] = s1[k] /\ s1[k] = s[k]
            BY <1>1, <1>2, <1>3, <1>4, <2>1
        <3>2. k <= n /\ k \in 1..(n + Len(tail))
            BY <1>1, <1>5, <2>1
        <3>3. (s \o tail)[k] = s[k]
            BY <1>6, <3>2, Zenon
        <3> QED
            BY <3>1, <3>3
    <2>2. CASE k = n + 1
        <3>1. s3[k] = s2[k] /\ s2[k] = s1[k] /\ s1[k] = x
            BY <1>1, <1>2, <1>3, <1>4, <2>2
        <3>2. ~(k <= n) /\ k - n = 1
            BY <1>1, <2>2
        <3> QED
            BY <1>5, <1>6, <3>1, <3>2
    <2>3. CASE k = n + 2
        <3>1. s3[k] = s2[k] /\ s2[k] = y
            BY <1>1, <1>3, <1>4, <2>3
        <3>2. ~(k <= n) /\ k - n = 2
            BY <1>1, <2>3
        <3> QED
            BY <1>5, <1>6, <3>1, <3>2
    <2>4. CASE k = n + 3
        <3>1. s3[k] = z
            BY <1>1, <1>4, <2>4
        <3>2. ~(k <= n) /\ k - n = 3
            BY <1>1, <2>4
        <3> QED
            BY <1>5, <1>6, <3>1, <3>2
    <2>5. k \in 1..n \/ k = n + 1 \/ k = n + 2 \/ k = n + 3
        BY <1>1
    <2> QED
        BY <2>1, <2>2, <2>3, <2>4, <2>5
<1>8. s \o tail = s3
    <2> DEFINE joined == s \o tail
    <2>1. /\ joined \in Seq(S) /\ Len(joined) = n + 3
          /\ \A k \in 1..(n + 3) : joined[k] = s3[k]
        BY <1>5, <1>6, <1>7
    <2>2. Len(s3) = n + 3
        BY <1>1, <1>4
    <2> HIDE DEF joined
    <2>3. joined = s3
        BY <1>4, <2>1, <2>2, SeqEqual, Zenon
    <2> QED
        BY <2>3 DEF joined
<1> QED
    BY <1>8 DEF s1, s2, s3, tail

(***************************************************************************)
(* BS16 swaps the two bytes of a word, and swapping them twice gives the   *)
(* word back.                                                              *)
(***************************************************************************)
LEMMA SwappedTwice ==
    ASSUME NEW w \in Short
    PROVE  BS16(w) \in Short /\ BS16(BS16(w)) = w
<1>1. PICK low \in Nat, high \in Nat :
          low < 256 /\ high < 256 /\ w = low + 256 * high
    <2>1. w % 256 \in Nat /\ w \div 256 \in Nat /\ w % 256 < 256
          /\ w \div 256 < 256 /\ w = (w % 256) + 256 * (w \div 256)
        BY DEF Short
    <2> QED
        BY <2>1
<1>2. BS16(w) = high + 256 * low
    BY <1>1 DEF BS16
<1>3. BS16(high + 256 * low) = low + 256 * high
    BY <1>1 DEF BS16
<1> QED
    BY <1>1, <1>2, <1>3 DEF Short

(***************************************************************************)
(* A word is made of the two bytes it was read from.                       *)
(***************************************************************************)
LEMMA WordBytes ==
    ASSUME NEW low \in Byte, NEW high \in Byte
    PROVE  /\ Word(low, high) \in Short
           /\ Word(low, high) % 256 = low
           /\ Word(low, high) \div 256 = high
BY DEF Byte, Short, Word

-----------------------------------------------------------------------------
(***************************************************************************)
(* The vendor options.                                                     *)
(***************************************************************************)

OptionType == [code : Byte, length : Byte, size : Nat]

\* What the handlers put into option 43.
MulticastOnly == Append(MulticastOptions, End)

Confirmation == Append(Append(MulticastOptions, Option(71, 4)), End)

Menu == Append(MulticastOptions \o BootMenuOptions, End)

(***************************************************************************)
(* An option is whole, and its length its size, when that is below 256.    *)
(***************************************************************************)
LEMMA OptionFields ==
    ASSUME NEW code \in Byte, NEW size \in Nat
    PROVE  /\ Option(code, size) \in OptionType
           /\ Option(code, size).length = size % 256
           /\ Whole(Option(code, size)) <=> size < 256
           /\ size < 256 => Option(code, size).length = size
<1>1. size % 256 \in Byte /\ (size < 256 <=> size % 256 = size)
    BY DEF Byte
<1> QED
    BY <1>1 DEF Option, OptionType, Whole

(***************************************************************************)
(* The menu has an entry for local boot, one for this server and one for   *)
(* each server of the list.                                                *)
(***************************************************************************)
LEMMA MenuType ==
    /\ MenuSize \in Nat
    /\ Len(MenuEntries) \in Nat
    /\ Len(MenuEntries) = 2 + Len(ServerLengths)
<1>1. MenuEntries \in Seq(Nat) /\ Len(MenuEntries) = 2 + Len(ServerLengths)
    BY HostNameAssumption, ServerLengthsAssumption
    DEF MenuEntries, LocalBootLength
<1>2. [k \in 1..Len(MenuEntries) |-> 3 + (MenuEntries[k] % 256)] \in Seq(Nat)
    <2> DEFINE n == Len(MenuEntries)
    <2>1. n \in Nat /\ \A k \in 1..n : 3 + (MenuEntries[k] % 256) \in Nat
        BY <1>1
    <2> QED
        BY <2>1
<1> QED
    BY <1>1, <1>2, TotalType DEF MenuSize

(***************************************************************************)
(* The options for multicast, none of which is cut.                        *)
(***************************************************************************)
LEMMA MulticastFields ==
    /\ MulticastOptions \in Seq(OptionType) /\ Len(MulticastOptions) = 5
    /\ MulticastOptions[1].length = 1 /\ MulticastOptions[2].length = 4
    /\ MulticastOptions[3].length = 2 /\ MulticastOptions[4].length = 1
    /\ MulticastOptions[5].length = 1
    /\ \A k \in 1..5 : Whole(MulticastOptions[k])
<1>1. ASSUME NEW code \in {6, 1, 3, 4, 5}, NEW size \in {1, 2, 4}
      PROVE  /\ Option(code, size) \in OptionType
             /\ Option(code, size).length = size /\ Whole(Option(code, size))
    <2>1. code \in Byte /\ size \in Nat /\ size < 256
        BY DEF Byte
    <2> QED
        BY <2>1, OptionFields
<1>2. /\ MulticastOptions[1] = Option(6, 1) /\ MulticastOptions[2] = Option(1, 4)
      /\ MulticastOptions[3] = Option(3, 2) /\ MulticastOptions[4] = Option(4, 1)
      /\ MulticastOptions[5] = Option(5, 1)
      /\ Len(MulticastOptions) = 5
    BY DEF MulticastOptions
<1>3. ASSUME NEW k \in 1..5
      PROVE  MulticastOptions[k] \in OptionType /\ Whole(MulticastOptions[k])
    <2>1. k = 1 \/ k = 2 \/ k = 3 \/ k = 4 \/ k = 5
        OBVIOUS
    <2> QED
        BY <1>1, <1>2, <2>1
<1>4. MulticastOptions \in Seq(OptionType)
    <2>1. MulticastOptions = [k \in 1..5 |-> MulticastOptions[k]]
        BY DEF MulticastOptions
    <2> QED
        BY <1>3, <2>1
<1> QED
    BY <1>1, <1>2, <1>3, <1>4

AllWhole(options) == \A k \in 1..Len(options) : Whole(options[k])

(***************************************************************************)
(* The sizes EncodedSize adds up are natural numbers.                      *)
(***************************************************************************)
LEMMA SizesType ==
    ASSUME NEW options \in Seq(OptionType)
    PROVE  [k \in 1..Len(options) |-> options[k].length + 2] \in Seq(Nat)
<1>1. ASSUME NEW k \in 1..Len(options)
      PROVE  options[k].length + 2 \in Nat
    <2>1. options[k] \in OptionType
        BY ElementOfSeq
    <2> QED
        BY <2>1 DEF OptionType, Byte
<1> QED
    BY <1>1

(***************************************************************************)
(* One option more adds its value, its code and its length.                *)
(***************************************************************************)
LEMMA OneOptionMore ==
    ASSUME NEW options \in Seq(OptionType), NEW o \in OptionType
    PROVE  /\ Append(options, o) \in Seq(OptionType)
           /\ EncodedSize(Append(options, o)) = EncodedSize(options) + (o.length + 2)
           /\ AllWhole(Append(options, o)) <=> AllWhole(options) /\ Whole(o)
<1> DEFINE more == Append(options, o)
           Sizes(list) == [k \in 1..Len(list) |-> list[k].length + 2]
<1>1. /\ more \in Seq(OptionType) /\ Len(options) \in Nat
      /\ Len(more) = Len(options) + 1
      /\ \A k \in 1..Len(options) : more[k] = options[k]
      /\ more[Len(options) + 1] = o
    BY AppendProperties
<1> HIDE DEF more
<1>2. /\ Sizes(options) \in Seq(Nat) /\ Len(Sizes(options)) = Len(options)
      /\ Sizes(more) \in Seq(Nat) /\ Len(Sizes(more)) = Len(more)
    BY <1>1, SizesType
<1>3. o.length + 2 \in Nat
    BY DEF OptionType, Byte
<1>4. Sizes(more) = Append(Sizes(options), o.length + 2)
    <2> DEFINE s == Append(Sizes(options), o.length + 2)
    <2>1. /\ s \in Seq(Nat) /\ Len(s) = Len(options) + 1
          /\ \A k \in 1..Len(options) : s[k] = Sizes(options)[k]
          /\ s[Len(options) + 1] = o.length + 2
        BY <1>2, <1>3, AppendProperties
    <2>2. ASSUME NEW k \in 1..Len(more)
          PROVE  Sizes(more)[k] = s[k]
        <3>1. CASE k \in 1..Len(options)
            BY <1>1, <2>1, <3>1
        <3>2. CASE k = Len(options) + 1
            BY <1>1, <2>1, <3>2
        <3> QED
            BY <1>1, <3>1, <3>2
    <2> HIDE DEF s
    <2> QED
        BY <1>1, <1>2, <2>1, <2>2, SeqEqual
<1>5. EncodedSize(more) = EncodedSize(options) + (o.length + 2)
    BY <1>2, <1>3, <1>4, TotalOfAppend DEF EncodedSize
<1>6. AllWhole(more) <=> AllWhole(options) /\ Whole(o)
    <2>1. AllWhole(options) /\ Whole(o) => AllWhole(more)
        BY <1>1 DEF AllWhole
    <2>2. AllWhole(more) => AllWhole(options) /\ Whole(o)
        BY <1>1 DEF AllWhole
    <2> QED
        BY <2>1, <2>2
<1> QED
    BY <1>1, <1>5, <1>6 DEF more

(***************************************************************************)
(* The options every list begins with take 19 bytes.                       *)
(***************************************************************************)
LEMMA MulticastSize ==
    EncodedSize(MulticastOptions) = 19 /\ AllWhole(MulticastOptions)
<1> DEFINE numbers == [k \in 1..Len(MulticastOptions) |->
                           MulticastOptions[k].length + 2]
           sum == Sums(numbers)
<1>1. /\ numbers \in Seq(Nat) /\ Len(numbers) = 5
      /\ numbers[1] = 3 /\ numbers[2] = 6 /\ numbers[3] = 4
      /\ numbers[4] = 3 /\ numbers[5] = 3
    BY MulticastFields, SizesType
<1>2. /\ sum[0] = 0
      /\ \A k \in 1..5 : sum[k] = sum[k - 1] + numbers[k]
    BY <1>1, SumsStep
<1>3. EncodedSize(MulticastOptions) = sum[5]
    BY <1>1 DEF EncodedSize, Total
<1> HIDE DEF numbers, sum
<1>4. /\ sum[1] = sum[0] + numbers[1] /\ sum[2] = sum[1] + numbers[2]
      /\ sum[3] = sum[2] + numbers[3] /\ sum[4] = sum[3] + numbers[4]
      /\ sum[5] = sum[4] + numbers[5]
    BY <1>2
<1>5. sum[5] = 19
    BY <1>1, <1>2, <1>4
<1> QED
    BY <1>3, <1>5, MulticastFields DEF AllWhole

(***************************************************************************)
(* An object without vendor options.                                        *)
(***************************************************************************)
LEMMA NoOptions ==
    <<>> \in Seq(OptionType) /\ EncodedSize(<<>>) = 0 /\ AllWhole(<<>>)
<1> DEFINE numbers == [k \in 1..Len(<<>>) |-> <<>>[k].length + 2]
<1>1. numbers = <<>> /\ <<>> \in Seq(Nat) /\ Len(<<>>) = 0
    OBVIOUS
<1>2. EncodedSize(<<>>) = 0
    BY <1>1, SumsStep DEF EncodedSize, Total
<1> QED
    BY <1>1, <1>2 DEF AllWhole

(***************************************************************************)
(* END has no value.                                                       *)
(***************************************************************************)
LEMMA EndFields ==
    End \in OptionType /\ End.length = 0 /\ Whole(End)
<1>1. 255 \in Byte
    BY DEF Byte
<1> QED
    BY <1>1, OptionFields DEF End

(***************************************************************************)
(* What a handler puts into option 43 beside the menu is whole, and always *)
(* was: 21 bytes, or 27 when a choice is confirmed.                        *)
(***************************************************************************)
LEMMA FixedLists ==
    /\ MulticastOnly \in Seq(OptionType) /\ AllWhole(MulticastOnly)
    /\ EncodedSize(MulticastOnly) = 21
    /\ Confirmation \in Seq(OptionType) /\ AllWhole(Confirmation)
    /\ EncodedSize(Confirmation) = 27
<1>1. /\ MulticastOnly \in Seq(OptionType) /\ AllWhole(MulticastOnly)
      /\ EncodedSize(MulticastOnly) = 21
    BY MulticastFields, MulticastSize, EndFields, OneOptionMore
    DEF MulticastOnly
<1>2. /\ Option(71, 4) \in OptionType /\ Option(71, 4).length = 4
      /\ Whole(Option(71, 4))
    <2>1. 71 \in Byte
        BY DEF Byte
    <2> QED
        BY <2>1, OptionFields
<1> DEFINE first == Append(MulticastOptions, Option(71, 4))
<1>3. first \in Seq(OptionType) /\ AllWhole(first) /\ EncodedSize(first) = 25
    BY <1>2, MulticastFields, MulticastSize, OneOptionMore
<1> HIDE DEF first
<1>4. /\ Append(first, End) \in Seq(OptionType) /\ AllWhole(Append(first, End))
      /\ EncodedSize(Append(first, End)) = 27
    BY <1>3, EndFields, OneOptionMore
<1> QED
    BY <1>1, <1>4 DEF Confirmation, first

\* The names in the menu are few and short enough.
MenuFits == MenuSize + 7 * Len(MenuEntries) <= 193

(***************************************************************************)
(* The menu, with the options around it, is whole just when it fits.       *)
(***************************************************************************)
LEMMA MenuList ==
    /\ Menu \in Seq(OptionType)
    /\ MenuFits <=> AllWhole(Menu) /\ EncodedSize(Menu) < 256
<1> DEFINE servers == 7 * Len(MenuEntries)
           o1 == Option(9, MenuSize)
           o2 == Option(8, servers)
           o3 == Option(10, 1 + PromptLength)
           M == MulticastOptions
<1>0. MenuSize \in Nat /\ servers \in Nat
    BY MenuType
<1>1. /\ o1 \in OptionType /\ o2 \in OptionType /\ o3 \in OptionType
      /\ o3.length = 35 /\ Whole(o3)
      /\ Whole(o1) <=> MenuSize < 256
      /\ Whole(o2) <=> servers < 256
      /\ MenuSize < 256 => o1.length = MenuSize
      /\ servers < 256 => o2.length = servers
    <2>1. 9 \in Byte /\ 8 \in Byte /\ 10 \in Byte
        BY DEF Byte
    <2>2. 1 + PromptLength = 35
        BY DEF PromptLength
    <2> HIDE DEF servers
    <2> QED
        BY <1>0, <2>1, <2>2, OptionFields
<1>2. M \in Seq(OptionType) /\ Len(M) = 5
    BY MulticastFields
<1> HIDE DEF o1, o2, o3, M
<1> DEFINE a1 == Append(M, o1)
           a2 == Append(a1, o2)
           a3 == Append(a2, o3)
<1>3. M \o <<o1, o2, o3>> = a3
    BY <1>1, <1>2, ThreeAppended
<1>4. Menu = Append(a3, End)
    BY <1>3 DEF Menu, BootMenuOptions, o1, o2, o3, M
<1> HIDE DEF servers
<1>5. /\ a1 \in Seq(OptionType)
      /\ EncodedSize(a1) = 19 + (o1.length + 2)
      /\ AllWhole(a1) <=> Whole(o1)
    BY <1>1, <1>2, MulticastSize, OneOptionMore DEF M
<1> HIDE DEF a1
<1>6. /\ a2 \in Seq(OptionType)
      /\ EncodedSize(a2) = EncodedSize(a1) + (o2.length + 2)
      /\ AllWhole(a2) <=> Whole(o1) /\ Whole(o2)
    BY <1>1, <1>5, OneOptionMore
<1> HIDE DEF a2
<1>7. /\ a3 \in Seq(OptionType)
      /\ EncodedSize(a3) = EncodedSize(a2) + (o3.length + 2)
      /\ AllWhole(a3) <=> Whole(o1) /\ Whole(o2)
    BY <1>1, <1>6, OneOptionMore
<1> HIDE DEF a3
<1>8. /\ Menu \in Seq(OptionType)
      /\ EncodedSize(Menu) = EncodedSize(a3) + (End.length + 2)
      /\ AllWhole(Menu) <=> Whole(o1) /\ Whole(o2)
    BY <1>4, <1>7, EndFields, OneOptionMore
<1>9. ASSUME MenuSize < 256, servers < 256
      PROVE  EncodedSize(Menu) = 62 + MenuSize + servers
    <2>1. /\ EncodedSize(a1) = 19 + (MenuSize + 2)
          /\ EncodedSize(a2) = EncodedSize(a1) + (servers + 2)
          /\ EncodedSize(a3) = EncodedSize(a2) + 37
          /\ EncodedSize(Menu) = EncodedSize(a3) + 2
        BY <1>1, <1>5, <1>6, <1>7, <1>8, <1>9, EndFields
    <2> QED
        BY <1>0, <2>1
<1>10. MenuFits <=> AllWhole(Menu) /\ EncodedSize(Menu) < 256
    <2>1. MenuFits <=> MenuSize + servers <= 193
        BY DEF MenuFits, servers
    <2> QED
        BY <1>0, <1>1, <1>8, <1>9, <2>1
<1> QED
    BY <1>8, <1>10

-----------------------------------------------------------------------------
(***************************************************************************)
(* What the handlers do to the client object.                              *)
(***************************************************************************)

\* What client::Init read and nothing changes.
Kept(new, cl) ==
    /\ new.vendor = cl.vendor /\ new.class = cl.class /\ new.type = cl.type /\ new.layer = cl.layer
    /\ new.arch = cl.arch /\ new.allowMenu = cl.allowMenu /\ new.port = cl.port

\* Only these options are set.
OnlySets(new, cl, codes) ==
    \A n \in Codes :
        new.options[n] = IF n \in codes THEN "server" ELSE cl.options[n]

\* What an offer or an acknowledgement tells the client is the server's.
Owns(cl) ==
    cl.message \in {"OFFER", "ACK"} =>
        /\ cl.options[53] = "server"
        /\ cl.allowMenu => cl.options[43] = "server"
        /\ ~cl.allowMenu /\ cl.message = "ACK" =>
               cl.options[54] = "server" /\ cl.options[66] = "server"

(***************************************************************************)
(* AddOption changes the map of options and nothing else.                  *)
(***************************************************************************)
LEMMA AddOptionsFields ==
    ASSUME NEW cl \in Client, NEW codes
    PROVE  LET new == AddOptions(cl, codes)
           IN  /\ new \in Client /\ Kept(new, cl) /\ OnlySets(new, cl, codes)
               /\ new.message = cl.message /\ new.vendorops = cl.vendorops
               /\ new.item = cl.item /\ new.nextIP = cl.nextIP
               /\ new.filename = cl.filename
<1> DEFINE opts == [n \in Codes |-> IF n \in codes THEN "server" ELSE cl.options[n]]
           new == [cl EXCEPT !.options = opts]
<1>1. opts \in [Codes -> Setters]
    BY DEF Client, Setters
<1>2. \A n \in Codes : opts[n] = IF n \in codes THEN "server" ELSE cl.options[n]
    OBVIOUS
<1> HIDE DEF opts
<1>3. new \in Client /\ new.options = opts
    BY <1>1 DEF Client
<1>4. Kept(new, cl)
    BY DEF Client, Kept
<1>5. /\ new.message = cl.message /\ new.vendorops = cl.vendorops
      /\ new.item = cl.item /\ new.nextIP = cl.nextIP
      /\ new.filename = cl.filename
    BY DEF Client
<1> QED
    BY <1>2, <1>3, <1>4, <1>5 DEF AddOptions, OnlySets, opts

(***************************************************************************)
(* The message is set together with option 53.                             *)
(***************************************************************************)
LEMMA SetMessageFields ==
    ASSUME NEW cl \in Client, NEW msg \in {"OFFER", "ACK"}
    PROVE  LET new == SetMessage(cl, msg)
           IN  /\ new \in Client /\ Kept(new, cl) /\ OnlySets(new, cl, {53})
               /\ new.message = msg /\ new.vendorops = cl.vendorops
               /\ new.item = cl.item /\ new.nextIP = cl.nextIP
               /\ new.filename = cl.filename
<1> DEFINE mid == [cl EXCEPT !.message = msg]
<1>1. /\ mid \in Client /\ mid.message = msg /\ Kept(mid, cl)
      /\ mid.options = cl.options /\ mid.vendorops = cl.vendorops
      /\ mid.item = cl.item /\ mid.nextIP = cl.nextIP
      /\ mid.filename = cl.filename
    BY DEF Client, Kept
<1> HIDE DEF mid
<1>2. SetMessage(cl, msg) = AddOptions(mid, {53})
    BY DEF SetMessage, mid
<1> QED
    BY <1>1, <1>2, AddOptionsFields DEF Kept, OnlySets

(***************************************************************************)
(* The server's address is set together with option 66.                    *)
(***************************************************************************)
LEMMA SetNextIPFields ==
    ASSUME NEW cl \in Client
    PROVE  LET new == SetNextIP(cl)
           IN  /\ new \in Client /\ Kept(new, cl) /\ OnlySets(new, cl, {66})
               /\ new.message = cl.message /\ new.vendorops = cl.vendorops
               /\ new.item = cl.item /\ new.nextIP = "server"
               /\ new.filename = cl.filename
<1> DEFINE mid == [cl EXCEPT !.nextIP = "server"]
<1>1. /\ mid \in Client /\ mid.message = cl.message /\ Kept(mid, cl)
      /\ mid.options = cl.options /\ mid.vendorops = cl.vendorops
      /\ mid.item = cl.item /\ mid.nextIP = "server"
      /\ mid.filename = cl.filename
    BY DEF Client, Kept
<1> HIDE DEF mid
<1>2. SetNextIP(cl) = AddOptions(mid, {66})
    BY DEF SetNextIP, mid
<1> QED
    BY <1>1, <1>2, AddOptionsFields DEF Kept, OnlySets

(***************************************************************************)
(* The file is set together with option 67.                                *)
(***************************************************************************)
LEMMA SetFilenameFields ==
    ASSUME NEW cl \in Client, NEW file \in Files
    PROVE  LET new == SetFilename(cl, file)
           IN  /\ new \in Client /\ Kept(new, cl) /\ OnlySets(new, cl, {67})
               /\ new.message = cl.message /\ new.vendorops = cl.vendorops
               /\ new.item = cl.item /\ new.nextIP = cl.nextIP
               /\ new.filename = file
<1> DEFINE mid == [cl EXCEPT !.filename = file]
<1>1. /\ mid \in Client /\ mid.message = cl.message /\ Kept(mid, cl)
      /\ mid.options = cl.options /\ mid.vendorops = cl.vendorops
      /\ mid.item = cl.item /\ mid.nextIP = cl.nextIP
      /\ mid.filename = file
    BY DEF Client, Kept
<1> HIDE DEF mid
<1>2. SetFilename(cl, file) = AddOptions(mid, {67})
    BY DEF SetFilename, mid
<1> QED
    BY <1>1, <1>2, AddOptionsFields DEF Kept, OnlySets

(***************************************************************************)
(* The vendor options are set together with option 43.                     *)
(***************************************************************************)
LEMMA SetVendorOptionsFields ==
    ASSUME NEW cl \in Client, NEW subs, Append(subs, End) \in Seq(OptionType)
    PROVE  LET new == SetVendorOptions(cl, subs)
           IN  /\ new \in Client /\ Kept(new, cl) /\ OnlySets(new, cl, {43})
               /\ new.message = cl.message /\ new.vendorops = Append(subs, End)
               /\ new.item = cl.item /\ new.nextIP = cl.nextIP
               /\ new.filename = cl.filename
<1> DEFINE ops == Append(subs, End)
           mid == [cl EXCEPT !.vendorops = ops]
<1> HIDE DEF ops
<1>0. ops \in Seq(OptionType)
    BY DEF ops
<1>1. /\ mid \in Client /\ mid.message = cl.message /\ Kept(mid, cl)
      /\ mid.options = cl.options /\ mid.vendorops = ops
      /\ mid.item = cl.item /\ mid.nextIP = cl.nextIP
      /\ mid.filename = cl.filename
    BY <1>0 DEF Client, Kept, OptionType
<1>2. SetVendorOptions(cl, subs) = AddOptions(mid, {43})
    BY DEF SetVendorOptions, ops
<1> HIDE DEF mid
<1> QED
    BY <1>1, <1>2, AddOptionsFields DEF Kept, OnlySets, ops

(***************************************************************************)
(* The last architecture's low byte is the last byte of option 93.         *)
(***************************************************************************)
LEMMA LastByte ==
    ASSUME NEW archs \in Seq(Short)
    PROVE  /\ ArchBytes(archs) \in Seq(Byte)
           /\ Len(ArchBytes(archs)) = 2 * Len(archs)
           /\ archs # <<>> /\ archs[Len(archs)] \in Byte =>
                  ArchBytes(archs)[2 * Len(archs)] = archs[Len(archs)]
<1> DEFINE n == Len(archs)
<1>1. n \in Nat /\ 2 * n \in Nat
    OBVIOUS
<1>2. ASSUME NEW k \in 1..(2 * n)
      PROVE  /\ (k + 1) \div 2 \in 1..n
             /\ archs[(k + 1) \div 2] \div 256 \in Byte
             /\ archs[(k + 1) \div 2] % 256 \in Byte
    <2>1. (k + 1) \div 2 \in 1..n
        BY <1>1
    <2>2. archs[(k + 1) \div 2] \in Short
        BY <2>1, ElementOfSeq
    <2>3. ASSUME NEW w \in Short PROVE w \div 256 \in Byte /\ w % 256 \in Byte
        BY DEF Short, Byte
    <2> QED
        BY <2>1, <2>2, <2>3
<1>3. ArchBytes(archs) \in Seq(Byte) /\ Len(ArchBytes(archs)) = 2 * n
    BY <1>1, <1>2 DEF ArchBytes
<1>4. ASSUME archs # <<>>, archs[n] \in Byte
      PROVE  ArchBytes(archs)[2 * n] = archs[n]
    <2>1. n > 0
        BY <1>4, EmptySeq
    <2>2. 2 * n \in 1..(2 * n) /\ (2 * n + 1) \div 2 = n /\ (2 * n) % 2 = 0
        BY <1>1, <2>1
    <2>3. archs[n] % 256 = archs[n]
        BY <1>4 DEF Byte
    <2> HIDE DEF n
    <2>4. ArchBytes(archs) = [k \in 1..(2 * n) |->
              LET word == archs[(k + 1) \div 2]
              IN  IF k % 2 = 1 THEN word \div 256 ELSE word % 256]
        BY DEF ArchBytes, n
    <2> QED
        BY <2>2, <2>3, <2>4
<1> QED
    BY <1>3, <1>4

LastArch(r) == r.archs[Len(r.archs)]

\* The file, if there is one, is that of the last architecture that has one.
FileOfLast(cl, r) ==
    cl.filename # "none" =>
        /\ cl.options[67] = "server"
        /\ LastArch(r) \in DOMAIN BootFiles => cl.filename = BootFiles[LastArch(r)]

(***************************************************************************)
(* Select_Bootfile sets at most the file, and sets that of the last        *)
(* architecture if that one has a file.                                    *)
(***************************************************************************)
LEMMA Select_BootfileFields ==
    ASSUME NEW r \in Datagram, NEW cl \in Client, cl.arch = ArchBytes(r.archs),
           cl.filename = "none"
    PROVE  LET new == Select_Bootfile(cl)
           IN  /\ new \in Client /\ Kept(new, cl)
               /\ OnlySets(new, cl, {}) \/ OnlySets(new, cl, {67})
               /\ new.message = cl.message /\ new.vendorops = cl.vendorops
               /\ new.item = cl.item /\ new.nextIP = cl.nextIP
               /\ FileOfLast(new, r)
<1> DEFINE new == Select_Bootfile(cl)
           archs == r.archs
           n == Len(archs)
<1>0. archs \in Seq(Short) /\ n \in Nat
    BY DEF Datagram
<1>1. cl.arch \in Seq(Byte) /\ Len(cl.arch) = 2 * n
    BY <1>0, LastByte
<1>2. CASE Bootable(cl) = {}
    <2>1. new = cl
        BY <1>2 DEF Select_Bootfile
    <2> QED
        BY <2>1 DEF Kept, OnlySets, FileOfLast
<1>3. CASE Bootable(cl) # {}
    <2> DEFINE last == CHOOSE k \in Bootable(cl) : \A j \in Bootable(cl) : j <= k
               file == BootFiles[cl.arch[last]]
    <2>1. Bootable(cl) \in SUBSET (1..(2 * n)) /\ 2 * n \in Nat
        BY <1>0, <1>1 DEF Bootable
    <2>2. last \in Bootable(cl) /\ \A j \in Bootable(cl) : j <= last
        BY <1>3, <2>1, LastPosition
    <2>3. file \in Files /\ file # "none"
        BY <2>2 DEF Bootable, BootFiles, Files
    <2>4. new = SetFilename(cl, file)
        BY <1>3 DEF Select_Bootfile
    <2>5. archs # <<>>
        BY <2>1, <2>2
    <2>6. ASSUME LastArch(r) \in DOMAIN BootFiles
          PROVE  file = BootFiles[LastArch(r)]
        <3>1. archs[n] \in Byte /\ archs[n] \in DOMAIN BootFiles
            BY <2>6 DEF LastArch, BootFiles, Byte
        <3>2. cl.arch[2 * n] = archs[n]
            BY <1>0, <2>5, <3>1, LastByte
        <3>3. 2 * n \in 1..Len(cl.arch)
            BY <1>0, <1>1, <2>1, <2>2
        <3>4. 2 * n \in Bootable(cl)
            BY <3>1, <3>2, <3>3 DEF Bootable
        <3>5. last = 2 * n
            BY <2>1, <2>2, <3>4
        <3> QED
            BY <3>2, <3>5 DEF LastArch
    <2> HIDE DEF last, file
    <2>7. /\ new \in Client /\ Kept(new, cl) /\ OnlySets(new, cl, {67})
          /\ new.message = cl.message /\ new.vendorops = cl.vendorops
          /\ new.item = cl.item /\ new.nextIP = cl.nextIP
          /\ new.filename = file
        BY <2>3, <2>4, SetFilenameFields
    <2>8. new.options[67] = "server"
        BY <2>7 DEF OnlySets, Codes
    <2> QED
        BY <2>6, <2>7, <2>8 DEF FileOfLast
<1> QED
    BY <1>2, <1>3

-----------------------------------------------------------------------------
(***************************************************************************)
(* The handlers.                                                           *)
(***************************************************************************)

\* What client::Init reads out of datagram r and the handlers go by.
Reads(cl, r) ==
    /\ cl.arch = ArchBytes(r.archs)
    /\ r.choice = <<>> => cl.type = 0
    /\ r.choice # <<>> =>
           /\ cl.type = BS16(Word(r.choice[1], r.choice[2]))
           /\ cl.layer = BS16(Word(r.choice[3], r.choice[4]))
    /\ cl.options[53] # "none" /\ cl.options[55] = "none"
    /\ r.class = "none" => cl.vendor = "UNKNOWNNO"
    /\ r.class \notin {"none", "other"} => cl.vendor = r.class

\* No handler has touched the object yet.
Fresh(cl, r) ==
    /\ cl.message = r.msg
    /\ cl.vendorops = <<>> /\ cl.item = <<>> /\ cl.filename = "none"

\* What holds of the object at any time.
Sound(cl, r) ==
    /\ cl \in Client /\ Reads(cl, r)
    /\ cl.vendorops \in {<<>>, MulticastOnly, Confirmation, Menu}
    /\ cl.item \in {<<>>, r.choice}
    /\ FileOfLast(cl, r)
    /\ cl.filename # "none" => cl.nextIP = "server" /\ cl.options[66] = "server"

(***************************************************************************)
(* An item that is not 0 was chosen, and with its layer it is swapped back *)
(* into the bytes it was read from.                                        *)
(***************************************************************************)
LEMMA ChoiceSwappedBack ==
    ASSUME NEW r \in Datagram, NEW cl, Reads(cl, r), BootItem(cl) # 0
    PROVE  ChoiceBytes(cl) = r.choice /\ r.choice \in Choice
<1>1. r.choice # <<>>
    <2>1. BS16(0) = 0
        BY DEF BS16
    <2> QED
        BY <2>1 DEF Reads, BootItem
<1>2. r.choice \in [1..4 -> Byte]
    BY <1>1 DEF Datagram, Choice
<1>3. /\ r.choice[1] \in Byte /\ r.choice[2] \in Byte
      /\ r.choice[3] \in Byte /\ r.choice[4] \in Byte
    BY <1>2
<1>4. /\ BootItem(cl) = Word(r.choice[1], r.choice[2])
      /\ BootLayer(cl) = Word(r.choice[3], r.choice[4])
    BY <1>1, <1>3, WordBytes, SwappedTwice DEF Reads, BootItem, BootLayer
<1>5. ChoiceBytes(cl) = <<r.choice[1], r.choice[2], r.choice[3], r.choice[4]>>
    BY <1>3, <1>4, WordBytes DEF ChoiceBytes
<1>6. r.choice = <<r.choice[1], r.choice[2], r.choice[3], r.choice[4]>>
    BY <1>2
<1> QED
    BY <1>2, <1>5, <1>6 DEF Choice

(***************************************************************************)
(* A discovery is offered something, with or without a menu.               *)
(***************************************************************************)
LEMMA DiscoverSound ==
    ASSUME NEW r \in Datagram, NEW cl, Sound(cl, r), Fresh(cl, r)
    PROVE  LET new == Handle_DHCP_Discover(cl)
           IN  /\ Sound(new, r) /\ Kept(new, cl) /\ new.message = "OFFER"
               /\ Owns(new) /\ new.options[60] = cl.options[60]
<1> DEFINE offer == SetMessage(cl, "OFFER")
           named == SetNextIP(offer)
           menued == SetVendorOptions(named, MulticastOptions \o BootMenuOptions)
<1>1. /\ offer \in Client /\ Kept(offer, cl) /\ OnlySets(offer, cl, {53})
      /\ offer.message = "OFFER" /\ offer.vendorops = <<>>
      /\ offer.item = <<>> /\ offer.filename = "none"
    BY SetMessageFields DEF Sound, Fresh
<1> HIDE DEF offer
<1>2. /\ named \in Client /\ Kept(named, offer) /\ OnlySets(named, offer, {66})
      /\ named.message = "OFFER" /\ named.item = <<>> /\ named.filename = "none"
    BY <1>1, SetNextIPFields
<1> HIDE DEF named
<1>3. /\ menued \in Client /\ Kept(menued, named) /\ OnlySets(menued, named, {43})
      /\ menued.message = "OFFER" /\ menued.item = <<>>
      /\ menued.filename = "none" /\ menued.vendorops = Menu
    BY <1>2, SetVendorOptionsFields, MenuList DEF Menu
<1> HIDE DEF menued
<1>4. /\ Sound(offer, r) /\ Kept(offer, cl)
      /\ offer.options[53] = "server" /\ offer.options[60] = cl.options[60]
    <2>1. /\ offer.options[53] = "server" /\ offer.options[55] = "none"
          /\ offer.options[60] = cl.options[60]
        BY <1>1 DEF OnlySets, Codes, Sound, Reads
    <2> QED
        BY <1>1, <2>1 DEF Sound, Reads, Kept, FileOfLast
<1>5. /\ Sound(menued, r) /\ Kept(menued, cl)
      /\ menued.options[53] = "server" /\ menued.options[60] = cl.options[60]
      /\ menued.options[43] = "server"
    <2>1. /\ menued.options[53] = "server" /\ menued.options[55] = "none"
          /\ menued.options[60] = cl.options[60]
          /\ menued.options[43] = "server"
        BY <1>1, <1>2, <1>3 DEF OnlySets, Codes, Sound, Reads
    <2>2. Kept(menued, cl)
        BY <1>1, <1>2, <1>3 DEF Kept
    <2> QED
        BY <1>3, <2>1, <2>2 DEF Sound, Reads, Kept, FileOfLast
<1>6. offer.allowMenu = cl.allowMenu
    BY <1>1 DEF Kept
<1>7. Owns(menued) /\ (~cl.allowMenu => Owns(offer))
    BY <1>1, <1>3, <1>4, <1>5, <1>6 DEF Owns, Kept
<1> QED
    BY <1>1, <1>3, <1>4, <1>5, <1>7 DEF Handle_DHCP_Discover, offer, named, menued

(***************************************************************************)
(* A client without a menu.                                                *)
(***************************************************************************)
LEMMA BootDirectlySound ==
    ASSUME NEW r \in Datagram, NEW cl, Sound(cl, r),
           cl.vendorops = <<>>, cl.item = <<>>, cl.filename = "none"
    PROVE  LET new == BootDirectly(cl)
           IN  /\ Sound(new, r) /\ Kept(new, cl) /\ new.message = cl.message
               /\ \A n \in {53, 60} : new.options[n] = cl.options[n]
               /\ \A n \in {54, 66} : new.options[n] = "server"
<1> DEFINE booted == Select_Bootfile(cl)
           named == SetNextIP(booted)
           new == AddOptions(named, {54})
<1>1. /\ booted \in Client /\ Kept(booted, cl)
      /\ OnlySets(booted, cl, {}) \/ OnlySets(booted, cl, {67})
      /\ booted.message = cl.message /\ booted.vendorops = <<>>
      /\ booted.item = <<>> /\ FileOfLast(booted, r)
    BY Select_BootfileFields DEF Sound, Reads
<1> HIDE DEF booted
<1>2. /\ named \in Client /\ Kept(named, booted) /\ OnlySets(named, booted, {66})
      /\ named.message = cl.message /\ named.vendorops = <<>>
      /\ named.item = <<>> /\ named.nextIP = "server"
      /\ named.filename = booted.filename
    BY <1>1, SetNextIPFields
<1> HIDE DEF named
<1>3. /\ new \in Client /\ Kept(new, named) /\ OnlySets(new, named, {54})
      /\ new.message = cl.message /\ new.vendorops = <<>>
      /\ new.item = <<>> /\ new.nextIP = "server"
      /\ new.filename = booted.filename
    BY <1>2, AddOptionsFields
<1> HIDE DEF new
<1>4. new.options[66] = "server" /\ new.options[67] = booted.options[67]
    BY <1>2, <1>3 DEF OnlySets, Codes
<1>5. /\ new.options[53] = cl.options[53] /\ new.options[55] = cl.options[55]
      /\ new.options[60] = cl.options[60] /\ new.options[54] = "server"
    BY <1>1, <1>2, <1>3 DEF OnlySets, Codes
<1>6. Kept(new, cl)
    BY <1>1, <1>2, <1>3 DEF Kept
<1>7. FileOfLast(new, r)
    BY <1>1, <1>3, <1>4 DEF FileOfLast
<1>8. Reads(new, r)
    BY <1>5, <1>6 DEF Reads, Kept, Sound
<1>9. Sound(new, r)
    BY <1>3, <1>4, <1>7, <1>8 DEF Sound
<1> QED
    BY <1>3, <1>4, <1>5, <1>6, <1>9 DEF BootDirectly, booted, named, new

(***************************************************************************)
(* A client that chose from the menu.                                      *)
(***************************************************************************)
LEMMA ConfirmChoiceSound ==
    ASSUME NEW r \in Datagram, NEW cl, Sound(cl, r), BootItem(cl) # 0,
           cl.vendorops = <<>>, cl.item = <<>>, cl.filename = "none"
    PROVE  LET new == ConfirmChoice(cl)
           IN  /\ Sound(new, r) /\ Kept(new, cl) /\ new.message = cl.message
               /\ \A n \in {53, 60} : new.options[n] = cl.options[n]
               /\ new.options[43] = "server"
<1> DEFINE chosen == [cl EXCEPT !.item = ChoiceBytes(cl)]
           confirmed == SetVendorOptions(chosen, Append(MulticastOptions, Option(71, 4)))
           named == SetNextIP(confirmed)
           booted == Select_Bootfile(named)
<1>1. ChoiceBytes(cl) = r.choice /\ r.choice \in Choice
    BY ChoiceSwappedBack DEF Sound
<1>2. /\ chosen \in Client /\ Kept(chosen, cl) /\ chosen.options = cl.options
      /\ chosen.message = cl.message /\ chosen.item = r.choice
      /\ chosen.filename = "none"
    <2>1. cl \in Client
        BY DEF Sound
    <2> QED
        BY <1>1, <2>1 DEF Client, Kept
<1> HIDE DEF chosen
<1>3. /\ confirmed \in Client /\ Kept(confirmed, chosen)
      /\ OnlySets(confirmed, chosen, {43})
      /\ confirmed.message = cl.message /\ confirmed.item = r.choice
      /\ confirmed.filename = "none" /\ confirmed.vendorops = Confirmation
    <2> DEFINE subs == Append(MulticastOptions, Option(71, 4))
    <2>1. Append(subs, End) = Confirmation
        BY DEF Confirmation
    <2> HIDE DEF subs
    <2>2. /\ confirmed = SetVendorOptions(chosen, subs)
          /\ Append(subs, End) \in Seq(OptionType)
        BY <2>1, FixedLists DEF subs
    <2> HIDE DEF confirmed
    <2> QED
        BY <1>2, <2>1, <2>2, SetVendorOptionsFields, Zenon
<1> HIDE DEF confirmed
<1>4. /\ confirmed.options[53] = cl.options[53]
      /\ confirmed.options[55] = cl.options[55]
      /\ confirmed.options[60] = cl.options[60]
      /\ confirmed.options[43] = "server"
    BY <1>2, <1>3 DEF OnlySets, Codes
<1>5. Kept(confirmed, cl) /\ Reads(confirmed, r)
    <2>1. Kept(confirmed, cl)
        BY <1>2, <1>3 DEF Kept
    <2> QED
        BY <1>4, <2>1 DEF Reads, Kept, Sound
<1>6. Sound(confirmed, r)
    BY <1>3, <1>5 DEF Sound, FileOfLast
<1>7. /\ named \in Client /\ Kept(named, confirmed)
      /\ OnlySets(named, confirmed, {66})
      /\ named.message = cl.message /\ named.item = r.choice
      /\ named.filename = "none" /\ named.vendorops = Confirmation
      /\ named.nextIP = "server" /\ named.arch = ArchBytes(r.archs)
    BY <1>3, <1>5, SetNextIPFields DEF Kept, Reads
<1> HIDE DEF named
<1>8. /\ booted \in Client /\ Kept(booted, named)
      /\ OnlySets(booted, named, {}) \/ OnlySets(booted, named, {67})
      /\ booted.message = cl.message /\ booted.item = r.choice
      /\ booted.vendorops = Confirmation /\ booted.nextIP = "server"
      /\ FileOfLast(booted, r)
    BY <1>7, Select_BootfileFields
<1> HIDE DEF booted
<1>9. /\ booted.options[53] = cl.options[53]
      /\ booted.options[55] = cl.options[55]
      /\ booted.options[60] = cl.options[60]
      /\ booted.options[43] = "server"
      /\ booted.options[66] = "server"
    BY <1>4, <1>7, <1>8 DEF OnlySets, Codes
<1>10. Kept(booted, cl) /\ Reads(booted, r)
    <2>1. Kept(booted, cl)
        BY <1>5, <1>7, <1>8 DEF Kept
    <2> QED
        BY <1>9, <2>1 DEF Reads, Kept, Sound
<1>11. Sound(booted, r)
    BY <1>8, <1>9, <1>10 DEF Sound
<1> QED
    BY <1>3, <1>4, <1>5, <1>6, <1>8, <1>9, <1>10, <1>11
    DEF ConfirmChoice, chosen, confirmed, named, booted

(***************************************************************************)
(* A request is acknowledged, in each of its three cases.                  *)
(***************************************************************************)
LEMMA RequestSound ==
    ASSUME NEW r \in Datagram, NEW cl, Sound(cl, r), Fresh(cl, r)
    PROVE  LET new == Handle_DHCP_Request(cl)
           IN  /\ Sound(new, r) /\ Kept(new, cl) /\ new.message = "ACK"
               /\ Owns(new) /\ new.options[60] = cl.options[60]
<1> DEFINE ack == SetMessage(cl, "ACK")
           new == Handle_DHCP_Request(cl)
<1>1. /\ ack \in Client /\ Kept(ack, cl) /\ OnlySets(ack, cl, {53})
      /\ ack.message = "ACK" /\ ack.vendorops = <<>>
      /\ ack.item = <<>> /\ ack.filename = "none"
    BY SetMessageFields DEF Sound, Fresh
<1> HIDE DEF ack
<1>2. /\ Sound(ack, r)
      /\ ack.options[53] = "server" /\ ack.options[60] = cl.options[60]
    <2>1. /\ ack.options[53] = "server" /\ ack.options[55] = "none"
          /\ ack.options[60] = cl.options[60]
        BY <1>1 DEF OnlySets, Codes, Sound, Reads
    <2> QED
        BY <1>1, <2>1 DEF Sound, Reads, Kept, FileOfLast
<1>3. BootItem(ack) = BootItem(cl) /\ ack.allowMenu = cl.allowMenu
    BY <1>1 DEF BootItem, Kept
<1>4. CASE ~cl.allowMenu
    <2>1. new = BootDirectly(ack)
        BY <1>4 DEF Handle_DHCP_Request, ack
    <2>2. /\ Sound(new, r) /\ Kept(new, ack) /\ new.message = "ACK"
          /\ new.options[53] = "server" /\ new.options[60] = cl.options[60]
          /\ new.options[54] = "server" /\ new.options[66] = "server"
        BY <1>1, <1>2, <2>1, BootDirectlySound
    <2> HIDE DEF new
    <2>3. Kept(new, cl)
        BY <1>1, <2>2 DEF Kept
    <2>4. Owns(new)
        BY <1>4, <2>2, <2>3 DEF Owns, Kept
    <2> QED
        BY <2>2, <2>3, <2>4 DEF new
<1>5. CASE cl.allowMenu /\ BootItem(cl) = 0
    <2>1. new = SetVendorOptions(ack, MulticastOptions)
        BY <1>5 DEF Handle_DHCP_Request, ack
    <2>2. /\ new \in Client /\ Kept(new, ack) /\ OnlySets(new, ack, {43})
          /\ new.message = "ACK" /\ new.item = <<>> /\ new.filename = "none"
          /\ new.vendorops = MulticastOnly
        BY <1>1, <2>1, SetVendorOptionsFields, FixedLists DEF MulticastOnly
    <2> HIDE DEF new
    <2>3. /\ new.options[53] = ack.options[53]
          /\ new.options[55] = ack.options[55]
          /\ new.options[60] = ack.options[60]
          /\ new.options[43] = "server"
        BY <2>2 DEF OnlySets, Codes
    <2>4. Reads(new, r)
        BY <1>2, <2>2, <2>3 DEF Reads, Kept, Sound
    <2>5. Sound(new, r)
        BY <2>2, <2>4 DEF Sound, FileOfLast
    <2>6. Kept(new, cl)
        BY <1>1, <2>2 DEF Kept
    <2>7. Owns(new)
        BY <1>2, <1>5, <2>2, <2>3, <2>6 DEF Owns, Kept
    <2> QED
        BY <1>2, <2>2, <2>3, <2>5, <2>6, <2>7 DEF new
<1>6. CASE cl.allowMenu /\ BootItem(cl) # 0
    <2>1. new = ConfirmChoice(ack)
        BY <1>6 DEF Handle_DHCP_Request, ack
    <2>2. /\ Sound(new, r) /\ Kept(new, ack) /\ new.message = "ACK"
          /\ new.options[53] = "server" /\ new.options[60] = cl.options[60]
          /\ new.options[43] = "server"
        BY <1>1, <1>2, <1>3, <1>6, <2>1, ConfirmChoiceSound
    <2> HIDE DEF new
    <2>3. Kept(new, cl)
        BY <1>1, <2>2 DEF Kept
    <2>4. Owns(new)
        BY <1>6, <2>2, <2>3 DEF Owns, Kept
    <2> QED
        BY <2>2, <2>3, <2>4 DEF new
<1> QED
    BY <1>4, <1>5, <1>6 DEF Sound, Client

-----------------------------------------------------------------------------
(***************************************************************************)
(* The steps.                                                              *)
(***************************************************************************)

(***************************************************************************)
(* The object client::Init makes is sound, and no handler has touched it.  *)
(***************************************************************************)
LEMMA ParsedSound ==
    ASSUME NEW r \in Datagram, NEW v \in Vendors, NEW menu \in BOOLEAN
    PROVE  LET new == ParsedClient(r, v, menu)
           IN  Sound(new, r) /\ Fresh(new, r)
<1> DEFINE new == ParsedClient(r, v, menu)
           vendor == IF r.class = "none" THEN "UNKNOWNNO"
                     ELSE IF r.class = "other" THEN v ELSE r.class
           type == IF r.choice = <<>> THEN 0
                   ELSE BS16(Word(r.choice[1], r.choice[2]))
           layer == IF r.choice = <<>> THEN 0
                    ELSE BS16(Word(r.choice[3], r.choice[4]))
           opts == [n \in Codes |-> IF n \in RequestCodes(r) \ {55}
                                    THEN "client" ELSE "none"]
<1>1. vendor \in Vendors
    BY DEF Datagram, Classes, Vendors
<1>2. type \in Short /\ layer \in Short
    <2>1. CASE r.choice = <<>>
        BY <2>1 DEF Short
    <2>2. CASE r.choice # <<>>
        <3>1. /\ r.choice[1] \in Byte /\ r.choice[2] \in Byte
              /\ r.choice[3] \in Byte /\ r.choice[4] \in Byte
            BY <2>2 DEF Datagram, Choice
        <3> QED
            BY <2>2, <3>1, WordBytes, SwappedTwice
    <2> QED
        BY <2>1, <2>2
<1>3. opts \in [Codes -> Setters] /\ opts[53] # "none" /\ opts[55] = "none"
    <2>1. 53 \in Codes /\ 55 \in Codes /\ 53 \in RequestCodes(r) \ {55}
        BY DEF Codes, RequestCodes
    <2> QED
        BY <2>1 DEF Setters
<1>4. ArchBytes(r.archs) \in Seq(Byte)
    BY LastByte DEF Datagram
<1>5. ClientPort \in Short
    BY DEF ClientPort, Short
<1>6. r.msg \in Messages /\ "none" \in Files /\ r.class \in Classes
    BY DEF Datagram, Files
<1>7. /\ new.vendor = vendor /\ new.class = r.class /\ new.type = type /\ new.layer = layer
      /\ new.arch = ArchBytes(r.archs) /\ new.allowMenu = menu
      /\ new.options = opts /\ new.message = r.msg /\ new.vendorops = <<>>
      /\ new.item = <<>> /\ new.nextIP = "client" /\ new.filename = "none"
      /\ new.port = ClientPort
    BY DEF ParsedClient
<1>8. r.choice = <<>> => type = 0
    OBVIOUS
<1>9. r.choice # <<>> =>
          /\ type = BS16(Word(r.choice[1], r.choice[2]))
          /\ layer = BS16(Word(r.choice[3], r.choice[4]))
    OBVIOUS
<1>10. new = [vendor |-> vendor, class |-> r.class, type |-> type, layer |-> layer,
              arch |-> ArchBytes(r.archs), allowMenu |-> menu,
              options |-> opts, message |-> r.msg, vendorops |-> <<>>,
              item |-> <<>>, nextIP |-> "client", filename |-> "none",
              port |-> ClientPort]
    BY DEF ParsedClient
<1>11. /\ r.class = "none" => vendor = "UNKNOWNNO"
       /\ r.class \notin {"none", "other"} => vendor = r.class
    OBVIOUS
<1> HIDE DEF new, vendor, type, layer, opts
<1>12. new \in Client
    <2>1. <<>> \in Choice /\ <<>> \in Seq([code : Byte, length : Byte, size : Nat])
        BY DEF Choice
    <2> QED
        BY <1>1, <1>2, <1>3, <1>4, <1>5, <1>6, <1>10, <2>1 DEF Client
<1>13. Reads(new, r)
    BY <1>3, <1>7, <1>8, <1>9, <1>11 DEF Reads
<1>14. Sound(new, r) /\ Fresh(new, r)
    BY <1>7, <1>12, <1>13 DEF Sound, Fresh, FileOfLast
<1> QED
    BY <1>14 DEF new

\* The object names a vendor of PXE's, the client's if that is one.
Named(cl) ==
    /\ cl.options[60] = "server"
    /\ cl.class = cl.vendor /\ cl.vendor \in {"PXEClient", "PXEServer"}

(***************************************************************************)
(* The vendor is named before the handler is called, which finds the       *)
(* object as client::Init made it.                                         *)
(***************************************************************************)
LEMMA NameVendorSound ==
    ASSUME NEW r \in Datagram, NEW cl, Sound(cl, r), Fresh(cl, r),
           cl.vendor \in {"PXEClient", "PXEServer"}
    PROVE  LET new == NameVendor(cl)
           IN  Sound(new, r) /\ Fresh(new, r) /\ Named(new)
<1> DEFINE mid == [cl EXCEPT !.class = cl.vendor]
           new == NameVendor(cl)
<1>1. cl \in Client
    BY DEF Sound
<1>2. /\ mid \in Client /\ mid.class = cl.vendor /\ mid.vendor = cl.vendor
      /\ mid.type = cl.type /\ mid.layer = cl.layer /\ mid.arch = cl.arch
      /\ mid.options = cl.options /\ mid.message = cl.message
      /\ mid.vendorops = cl.vendorops /\ mid.item = cl.item
      /\ mid.nextIP = cl.nextIP /\ mid.filename = cl.filename
    BY <1>1 DEF Client, Classes
<1>3. new = AddOptions(mid, {60})
    BY DEF NameVendor
<1> HIDE DEF mid, new
<1>4. /\ new \in Client /\ Kept(new, mid) /\ OnlySets(new, mid, {60})
      /\ new.message = cl.message /\ new.vendorops = cl.vendorops
      /\ new.item = cl.item /\ new.nextIP = cl.nextIP
      /\ new.filename = cl.filename
    BY <1>2, <1>3, AddOptionsFields
<1>5. /\ new.options[60] = "server"
      /\ new.options[53] = cl.options[53] /\ new.options[55] = cl.options[55]
      /\ new.options[66] = cl.options[66] /\ new.options[67] = cl.options[67]
    BY <1>2, <1>4 DEF OnlySets, Codes
<1>6. /\ new.vendor = cl.vendor /\ new.class = cl.vendor
      /\ new.type = cl.type /\ new.layer = cl.layer /\ new.arch = cl.arch
    BY <1>2, <1>4 DEF Kept
<1>7. Reads(new, r) /\ FileOfLast(new, r)
    BY <1>4, <1>5, <1>6 DEF Sound, Reads, FileOfLast
<1>8. Sound(new, r) /\ Fresh(new, r)
    BY <1>4, <1>5, <1>7 DEF Sound, Fresh
<1> QED
    BY <1>5, <1>6, <1>8 DEF Named, new

\* The message is answered in kind, by an object with its END, and what
\* the answer tells the client is the server's.
Answered(cl, r) ==
    /\ Named(cl) /\ Owns(cl) /\ cl.options[255] = "server"
    /\ r.msg = "DISCOVER" => cl.message = "OFFER"
    /\ r.msg \in {"REQUEST", "INFORM"} => cl.message = "ACK"

(***************************************************************************)
(* The inductive invariant.                                                *)
(***************************************************************************)
Inv ==
    /\ stage \in Stages /\ request \in Requests /\ reply \in SUBSET Codes
    /\ Sound(c, request)
    /\ stage = "receive" => Fresh(c, request)
    /\ stage \in {"handled", "sent"} /\ ~request.relayed => Answered(c, request)
    /\ stage = "sent" /\ ~request.relayed => reply = PacketCodes(c)
    /\ request.relayed => c.message = request.msg

(***************************************************************************)
(* A handled object that names its vendor is an answer once it is given    *)
(* its END.                                                                *)
(***************************************************************************)
LEMMA AnswerInv ==
    ASSUME Inv, NEW msgs, NEW answered, AnswerWith(msgs, answered),
           Sound(answered, request), Named(answered), Owns(answered),
           request.msg = "DISCOVER" => answered.message = "OFFER",
           request.msg \in {"REQUEST", "INFORM"} => answered.message = "ACK"
    PROVE  Inv'
<1> DEFINE new == AddOptions(answered, {255})
<1>1. /\ new \in Client /\ Kept(new, answered)
      /\ OnlySets(new, answered, {255})
      /\ new.message = answered.message /\ new.vendorops = answered.vendorops
      /\ new.item = answered.item /\ new.nextIP = answered.nextIP
      /\ new.filename = answered.filename
    BY AddOptionsFields DEF Sound
<1>2. /\ c' = new /\ stage' = "handled" /\ ~request.relayed
      /\ request' = request /\ reply' = reply /\ stage = "receive"
    BY DEF AnswerWith
<1> HIDE DEF new
<1>3. /\ new.options[255] = "server"
      /\ \A n \in {43, 53, 54, 55, 60, 66, 67} :
             new.options[n] = answered.options[n]
    BY <1>1 DEF OnlySets, Codes
<1>4. Reads(new, request) /\ FileOfLast(new, request)
    BY <1>1, <1>3 DEF Sound, Reads, Kept, FileOfLast
<1>5. Named(new) /\ Owns(new)
    BY <1>1, <1>3 DEF Named, Owns, Kept
<1>6. Sound(new, request) /\ Answered(new, request)
    BY <1>1, <1>3, <1>4, <1>5 DEF Sound, Answered
<1> QED
    BY <1>2, <1>6 DEF Inv, Stages

(***************************************************************************)
(* A message goes to its handler as client::Init read it, its vendor named *)
(* in the server's own words.                                              *)
(***************************************************************************)
LEMMA AnswerKind ==
    ASSUME Inv, NEW msgs, NEW answered, AnswerWith(msgs, answered)
    PROVE  /\ request.msg \in msgs /\ request \in Datagram
           /\ Sound(NameVendor(c), request) /\ Fresh(NameVendor(c), request)
           /\ Named(NameVendor(c))
<1>1. /\ request \in Datagram /\ Sound(c, request) /\ Fresh(c, request)
      /\ c.vendor \in {"PXEClient", "PXEServer"} /\ request.msg \in msgs
    BY RequestsAssumption DEF Inv, AnswerWith, Fresh
<1> QED
    BY <1>1, NameVendorSound

(***************************************************************************)
(* Every step of the thread keeps the inductive invariant.                 *)
(***************************************************************************)
LEMMA StepInv ==
    ASSUME Inv, [Next]_vars
    PROVE  Inv'
<1>1. CASE Relay
    <2>1. PICK port \in Short : c' = [c EXCEPT !.port = port]
        <3>1. 67 \in Short /\ 4011 \in Short
            BY DEF Short
        <3>2. BS16(IF request.service = "DHCP" THEN 67 ELSE 4011) \in Short
            BY <3>1, SwappedTwice
        <3> QED
            BY <1>1, <3>2 DEF Relay
    <2>2. c \in Client /\ Sound(c, request)
        BY DEF Inv, Sound
    <2>3. /\ c' \in Client /\ c'.vendor = c.vendor /\ c'.type = c.type /\ c'.layer = c.layer
          /\ c'.arch = c.arch /\ c'.options = c.options
          /\ c'.vendorops = c.vendorops /\ c'.item = c.item
          /\ c'.nextIP = c.nextIP /\ c'.filename = c.filename
          /\ c'.message = c.message
        BY <2>1, <2>2 DEF Client
    <2>4. Sound(c', request)
        BY <2>2, <2>3 DEF Sound, Reads, FileOfLast
    <2> QED
        BY <1>1, <2>3, <2>4 DEF Inv, Relay, Stages
<1>2. CASE Discover
    <2> DEFINE new == Handle_DHCP_Discover(NameVendor(c))
    <2>1. AnswerWith({"DISCOVER"}, new)
        BY <1>2 DEF Discover
    <2>2. /\ request.msg = "DISCOVER" /\ request \in Datagram
          /\ Sound(NameVendor(c), request) /\ Fresh(NameVendor(c), request)
          /\ Named(NameVendor(c))
        BY <2>1, AnswerKind
    <2>3. /\ Sound(new, request) /\ Kept(new, NameVendor(c)) /\ Owns(new)
          /\ new.message = "OFFER"
          /\ new.options[60] = NameVendor(c).options[60]
        BY <2>2, DiscoverSound
    <2> HIDE DEF new
    <2>4. Named(new)
        BY <2>2, <2>3 DEF Named, Kept
    <2> QED
        BY <2>1, <2>2, <2>3, <2>4, AnswerInv
<1>3. CASE Request
    <2> DEFINE new == Handle_DHCP_Request(NameVendor(c))
    <2>1. AnswerWith({"REQUEST", "INFORM"}, new)
        BY <1>3 DEF Request
    <2>2. /\ request.msg \in {"REQUEST", "INFORM"} /\ request \in Datagram
          /\ Sound(NameVendor(c), request) /\ Fresh(NameVendor(c), request)
          /\ Named(NameVendor(c))
        BY <2>1, AnswerKind
    <2>3. /\ Sound(new, request) /\ Kept(new, NameVendor(c)) /\ Owns(new)
          /\ new.message = "ACK"
          /\ new.options[60] = NameVendor(c).options[60]
        BY <2>2, RequestSound
    <2> HIDE DEF new
    <2>4. Named(new)
        BY <2>2, <2>3 DEF Named, Kept
    <2> QED
        BY <2>1, <2>2, <2>3, <2>4, AnswerInv
<1>4. CASE Release
    <2>1. AnswerWith({"RELEASE"}, NameVendor(c))
        BY <1>4 DEF Release
    <2>2. /\ request.msg = "RELEASE" /\ Sound(NameVendor(c), request)
          /\ Fresh(NameVendor(c), request) /\ Named(NameVendor(c))
        BY <2>1, AnswerKind
    <2>3. Owns(NameVendor(c))
        BY <2>2 DEF Owns, Fresh
    <2> QED
        BY <2>1, <2>2, <2>3, AnswerInv
<1>5. CASE Ignore
    BY <1>5 DEF Inv, Ignore, Stages
<1>6. CASE SendReply
    <2>1. /\ stage = "handled" /\ stage' = "sent"
          /\ c' = c /\ request' = request
        BY <1>6 DEF SendReply
    <2>2. /\ reply' \subseteq PacketCodes(c)
          /\ 255 \in PacketCodes(c) => reply' = PacketCodes(c)
        BY <1>6 DEF SendReply
    <2>3. PacketCodes(c) \subseteq Codes /\ PacketCodes(c)' = PacketCodes(c)
        BY <2>1 DEF PacketCodes
    <2>4. ASSUME ~request.relayed
          PROVE  reply' = PacketCodes(c)
        <3>1. Answered(c, request)
            BY <2>1, <2>4 DEF Inv
        <3>2. 255 \in PacketCodes(c)
            BY <3>1 DEF PacketCodes, Codes, Answered
        <3> QED
            BY <2>2, <3>2
    <2> QED
        BY <2>1, <2>2, <2>3, <2>4 DEF Inv, Stages
<1>7. CASE Finished \/ UNCHANGED vars
    BY <1>7 DEF Inv, Finished, vars
<1> QED
    BY <1>1, <1>2, <1>3, <1>4, <1>5, <1>6, <1>7 DEF Next

(***************************************************************************)
(* The inductive invariant holds of every reply being worked out.          *)
(***************************************************************************)
THEOREM InvHolds == Spec => []Inv
<1>1. Init => Inv
    <2> SUFFICES ASSUME Init
                 PROVE  Inv
        OBVIOUS
    <2>1. PICK v \in Vendors, menu \in MenuSettings :
              c = ParsedClient(request, v, menu)
        BY DEF Init
    <2>2. menu \in BOOLEAN /\ request \in Datagram
        BY RequestsAssumption, MenuSettingsAssumption DEF Init
    <2>3. Sound(c, request) /\ Fresh(c, request)
        BY <2>1, <2>2, ParsedSound
    <2> QED
        BY <2>3 DEF Init, Inv, Stages, Fresh
<1>2. Inv /\ [Next]_vars => Inv'
    BY StepInv
<1> QED
    BY <1>1, <1>2, PTL DEF Spec

-----------------------------------------------------------------------------
(***************************************************************************)
(* The properties.                                                         *)
(***************************************************************************)

(***************************************************************************)
(* The object and the reply have their types.                              *)
(***************************************************************************)
THEOREM TypeCorrect == Spec => []TypeOK
<1>1. Inv => TypeOK
    BY DEF Inv, TypeOK, Sound
<1> QED
    BY <1>1, InvHolds, PTL

(***************************************************************************)
(* Whatever the client sent beside its message, the reply of this network  *)
(* is of the message's kind, has its END and names a vendor of PXE's: the  *)
(* client's, if the client named one the server knows.                     *)
(***************************************************************************)
THEOREM RepliesAreInKind == Spec => []AnswersInKind
<1>1. ASSUME Inv, stage = "sent", ~request.relayed
      PROVE  /\ {53, 60, 255} \subseteq reply
             /\ c.class \in {"PXEClient", "PXEServer"}
             /\ request.class # "other" => c.class = request.class
             /\ request.msg = "DISCOVER" => c.message = "OFFER"
             /\ request.msg \in {"REQUEST", "INFORM"} => c.message = "ACK"
    <2>1. /\ Answered(c, request) /\ Reads(c, request)
          /\ reply = PacketCodes(c)
        BY <1>1 DEF Inv, Sound
    <2>2. {53, 60, 255} \subseteq reply
        BY <2>1 DEF Answered, Named, Reads, PacketCodes, Codes
    <2> QED
        BY <2>1, <2>2 DEF Answered, Named, Reads
<1>2. Inv => AnswersInKind
    BY <1>1 DEF AnswersInKind
<1> QED
    BY <1>2, InvHolds, PTL

(***************************************************************************)
(* Whatever options the client sent, an offer and an acknowledgement carry *)
(* the server's own where they tell the client something.                  *)
(***************************************************************************)
THEOREM ServersOptionsPrevail == Spec => []NoEchoForAnswer
<1>1. ASSUME Inv, stage = "sent", c.message \in {"OFFER", "ACK"},
             NEW n \in {53, 60, 255}
                           \cup (IF c.allowMenu THEN {43}
                                 ELSE IF c.message = "ACK" THEN {54, 66} ELSE {})
      PROVE  n \in reply /\ c.options[n] = "server"
    <2>1. ~request.relayed
        <3>1. request.msg \in Messages
            BY <1>1, RequestsAssumption DEF Inv, Datagram
        <3> QED
            BY <1>1, <3>1 DEF Inv, Messages
    <2>2. Answered(c, request) /\ reply = PacketCodes(c)
        BY <1>1, <2>1 DEF Inv
    <2>3. c.options[n] = "server"
        BY <1>1, <2>2 DEF Answered, Named, Owns
    <2> QED
        BY <1>1, <2>2, <2>3 DEF PacketCodes, Codes
<1>2. Inv => NoEchoForAnswer
    BY <1>1 DEF NoEchoForAnswer
<1> QED
    BY <1>2, InvHolds, PTL

(***************************************************************************)
(* Whatever item and layer a client chose, the two come back as they came. *)
(***************************************************************************)
THEOREM ChoiceIsConfirmed == Spec => []ChoiceComesBack
<1>1. Inv => ChoiceComesBack
    BY DEF Inv, Sound, ChoiceComesBack
<1> QED
    BY <1>1, InvHolds, PTL

(***************************************************************************)
(* However many architectures a client names, and whatever their halves    *)
(* look like, the file is that of the last one that has a file, if the     *)
(* last one has.                                                           *)
(***************************************************************************)
THEOREM LastArchitectureRules == Spec => []LastArchitectureDecides
<1>1. Inv => LastArchitectureDecides
    BY DEF Inv, Sound, FileOfLast, LastArch, LastArchitectureDecides
<1> QED
    BY <1>1, InvHolds, PTL

(***************************************************************************)
(* No client is given a file without this server's address.                *)
(***************************************************************************)
THEOREM FileIsReachable == Spec => []FileComesWithServer
<1>1. Inv => FileComesWithServer
    BY DEF Inv, Sound, FileOfLast, FileComesWithServer
<1> QED
    BY <1>1, InvHolds, PTL

(***************************************************************************)
(* A list of options is whole as option 43 when it takes less than 256     *)
(* bytes.                                                                  *)
(***************************************************************************)
LEMMA NestedFields ==
    ASSUME NEW list \in Seq(OptionType)
    PROVE  /\ EncodedSize(list) \in Nat
           /\ Whole(Nested(43, list)) <=> EncodedSize(list) < 256
<1>1. EncodedSize(list) \in Nat
    <2>1. [k \in 1..Len(list) |-> list[k].length + 2] \in Seq(Nat)
        BY SizesType
    <2> QED
        BY <2>1, TotalType DEF EncodedSize
<1>2. 43 \in Byte
    BY DEF Byte
<1> QED
    BY <1>1, <1>2, OptionFields DEF Nested

(***************************************************************************)
(* The vendor options of an offer with a menu are whole just when its      *)
(* entries and their servers take at most 193 bytes: a byte more and a     *)
(* length is cut.                                                          *)
(***************************************************************************)
THEOREM WholeMenus ==
    MenuFits <=> Whole(Nested(43, Menu)) /\ AllWhole(Menu)
BY NestedFields, MenuList

(***************************************************************************)
(* With such a menu the vendor options of every reply are whole.           *)
(***************************************************************************)
THEOREM MenuIsWhole ==
    ASSUME MenuFits
    PROVE  Spec => []VendorOptionsAreWhole
<1>1. ASSUME Inv
      PROVE  VendorOptionsAreWhole
    <2>1. c.vendorops \in {<<>>, MulticastOnly, Confirmation, Menu}
        BY <1>1 DEF Inv, Sound
    <2>2. c.vendorops \in Seq(OptionType)
        BY <2>1, NoOptions, FixedLists, MenuList
    <2>3. AllWhole(c.vendorops) /\ EncodedSize(c.vendorops) < 256
        BY <2>1, NoOptions, FixedLists, MenuList
    <2>4. Whole(Nested(43, c.vendorops))
        BY <2>2, <2>3, NestedFields
    <2>5. DOMAIN c.vendorops = 1..Len(c.vendorops)
        BY <2>2
    <2> QED
        BY <2>3, <2>4, <2>5 DEF VendorOptionsAreWhole, AllWhole
<1> QED
    BY <1>1, InvHolds, PTL
=============================================================================

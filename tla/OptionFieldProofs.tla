-------------------------- MODULE OptionFieldProofs --------------------------
(***************************************************************************)
(* Proofs about OptionField: its loops find the options that were written, *)
(* and a reader of the reply finds those of the map.                       *)
(***************************************************************************)
EXTENDS OptionField, NaturalLemmas, SequenceTheorems, TLAPS

-----------------------------------------------------------------------------
(***************************************************************************)
(* Options as bytes.                                                       *)
(***************************************************************************)

\* The lengths of the options fit one byte.
Small(list) ==
    /\ list \in Seq(OptionSet)
    /\ \A k \in 1..Len(list) : Len(list[k].value) < 256

\* bytes begins with first.
Begins(bytes, first) ==
    /\ Len(first) <= Len(bytes)
    /\ \A p \in 1..Len(first) : bytes[p] = first[p]

(***************************************************************************)
(* An option is its code, its length and the bytes of its value.           *)
(***************************************************************************)
LEMMA EncodedFields ==
    ASSUME NEW o \in OptionSet, Len(o.value) < 256
    PROVE  /\ Encoded(o) \in Seq(Byte) /\ Len(o.value) \in Nat
           /\ Len(Encoded(o)) = Len(o.value) + 2
           /\ Encoded(o)[1] = o.code /\ Encoded(o)[2] = Len(o.value)
           /\ \A k \in 1..Len(o.value) : Encoded(o)[k + 2] = o.value[k]
<1> DEFINE v == o.value
           n == Len(v)
           head == <<o.code, n>>
<1>1. o.code \in Byte /\ v \in Seq(Byte) /\ n \in Nat /\ n \in Byte
    BY DEF OptionSet, Byte
<1> HIDE DEF v, n
<1>2. /\ head \in Seq(Byte) /\ Len(head) = 2
      /\ head[1] = o.code /\ head[2] = n
    BY <1>1
<1> HIDE DEF head
<1>3. /\ head \o v \in Seq(Byte) /\ Len(head \o v) = Len(head) + Len(v)
      /\ \A k \in 1..(Len(head) + Len(v)) :
             (head \o v)[k] = IF k <= Len(head) THEN head[k] ELSE v[k - Len(head)]
    BY <1>1, <1>2, ConcatProperties, Zenon
<1> DEFINE both == head \o v
<1> HIDE DEF both
<1>4. /\ both \in Seq(Byte) /\ Len(both) = 2 + n
      /\ \A k \in 1..(2 + n) : both[k] = IF k <= 2 THEN head[k] ELSE v[k - 2]
    BY <1>2, <1>3 DEF both, n
<1>5. both[1] = o.code /\ both[2] = n /\ \A k \in 1..n : both[k + 2] = v[k]
    <2>1. 1 \in 1..(2 + n) /\ 2 \in 1..(2 + n)
        BY <1>1
    <2>2. ASSUME NEW k \in 1..n
          PROVE  both[k + 2] = v[k]
        <3>1. k + 2 \in 1..(2 + n) /\ ~(k + 2 <= 2) /\ k + 2 - 2 = k
            BY <1>1
        <3> QED
            BY <1>4, <3>1
    <2>3. both[1] = head[1] /\ both[2] = head[2]
        BY <1>4, <2>1
    <2> QED
        BY <1>2, <2>2, <2>3
<1> QED
    BY <1>1, <1>4, <1>5 DEF Encoded, both, head, v, n

(***************************************************************************)
(* Encodings is what its loop computes: sequences of bytes, each with one  *)
(* option more than the one before.                                        *)
(***************************************************************************)
LEMMA EncodingsStep ==
    ASSUME NEW list, Small(list)
    PROVE  LET e == Encodings(list)
           IN  /\ e[0] = <<>>
               /\ \A k \in 0..Len(list) : e[k] \in Seq(Byte)
               /\ \A k \in 1..Len(list) : e[k] = e[k - 1] \o Encoded(list[k])
<1> DEFINE n == Len(list)
           D == Seq(Byte)
           Is(f) == f = [k \in 0..n |-> IF k = 0 THEN <<>> ELSE f[k - 1] \o Encoded(list[k])]
           step == [k \in 1..n |-> [s \in D |-> s \o Encoded(list[k])]]
<1>1. n \in Nat /\ <<>> \in D
    BY DEF Small
<1>2. ASSUME NEW k \in 1..n PROVE Encoded(list[k]) \in D
    <2>1. list[k] \in OptionSet /\ Len(list[k].value) < 256
        BY DEF Small
    <2> QED
        BY <2>1, EncodedFields
<1>3. ASSUME NEW s \in D, NEW k \in 1..n PROVE s \o Encoded(list[k]) \in D
    BY <1>2, ConcatProperties
<1> HIDE DEF D
<1>4. Stepwise(step, n, D)
    <2> HIDE DEF n
    <2> QED
        BY <1>3 DEF Stepwise
<1>5. PICK f : Iterates(f, step, <<>>, n, D)
    <2> HIDE DEF step, n
    <2> QED
        BY <1>1, <1>4, IterationExists
<1>6. Is(f)
    <2>1. f \in [0..n -> D] /\ f[0] = <<>>
        BY <1>5 DEF Iterates
    <2>2. ASSUME NEW k \in 1..n
          PROVE  f[k] = f[k - 1] \o Encoded(list[k])
        <3>1. f[k - 1] \in D
            <4>1. k - 1 \in 0..n
                BY <1>1
            <4> HIDE DEF n
            <4> QED
                BY <2>1, <4>1
        <3> QED
            BY <1>5, <3>1 DEF Iterates
    <2> HIDE DEF step, n
    <2> QED
        BY <1>1, <2>1, <2>2
<1>7. Is(Encodings(list))
    <2>1. Encodings(list) = CHOOSE g : Is(g)
        BY DEF Encodings
    <2> HIDE DEF Is
    <2> QED
        BY <1>6, <2>1
<1> DEFINE e == Encodings(list)
           S == {k \in 0..n : e[k] \in D}
<1> HIDE DEF e, step
<1>8. e = [k \in 0..n |-> IF k = 0 THEN <<>> ELSE e[k - 1] \o Encoded(list[k])]
    BY <1>7 DEF e
<1>9. e[0] = <<>> /\ \A k \in 1..n : e[k] = e[k - 1] \o Encoded(list[k])
    <2> HIDE DEF n
    <2>1. 0 \in 0..n /\ \A k \in 1..n : k \in 0..n /\ k # 0
        BY <1>1
    <2> QED
        BY <1>8, <2>1, Zenon
<1>10. ASSUME NEW k \in 1..n, k - 1 \in S
       PROVE  k \in S
    <2>1. e[k - 1] \in D
        BY <1>10
    <2>2. e[k] \in D
        BY <1>3, <1>9, <2>1
    <2>3. k \in 0..n
        BY <1>1
    <2> QED
        BY <2>2, <2>3
<1>11. 0 \in S
    BY <1>1, <1>9
<1>12. \A k \in 0..n : k \in S
    <2> HIDE DEF S, n
    <2> QED
        BY <1>1, <1>10, <1>11, InductionUpTo
<1>13. \A k \in 0..n : e[k] \in D
    BY <1>12
<1> QED
    BY <1>9, <1>13 DEF e, D

(***************************************************************************)
(* What is put after bytes leaves them as they are and follows them.       *)
(***************************************************************************)
LEMMA BeginsWithFirst ==
    ASSUME NEW a \in Seq(Byte), NEW b \in Seq(Byte)
    PROVE  /\ a \o b \in Seq(Byte) /\ Len(a \o b) = Len(a) + Len(b)
           /\ Begins(a \o b, a)
           /\ \A j \in 1..Len(b) : (a \o b)[Len(a) + j] = b[j]
<1> DEFINE both == a \o b
<1>1. /\ both \in Seq(Byte) /\ Len(both) = Len(a) + Len(b)
      /\ \A k \in 1..(Len(a) + Len(b)) :
             both[k] = IF k <= Len(a) THEN a[k] ELSE b[k - Len(a)]
    BY ConcatProperties, Zenon
<1>2. Len(a) \in Nat /\ Len(b) \in Nat
    OBVIOUS
<1> HIDE DEF both
<1>3. ASSUME NEW p \in 1..Len(a)
      PROVE  both[p] = a[p]
    <2>1. p \in 1..(Len(a) + Len(b)) /\ p <= Len(a)
        BY <1>2
    <2> QED
        BY <1>1, <2>1
<1>4. Begins(both, a)
    BY <1>1, <1>2, <1>3 DEF Begins
<1>5. ASSUME NEW j \in 1..Len(b)
      PROVE  both[Len(a) + j] = b[j]
    <2>1. /\ Len(a) + j \in 1..(Len(a) + Len(b)) /\ ~(Len(a) + j <= Len(a))
          /\ Len(a) + j - Len(a) = j
        BY <1>2
    <2> QED
        BY <1>1, <2>1
<1> QED
    BY <1>1, <1>4, <1>5 DEF both

(***************************************************************************)
(* What begins with bytes begins with those they begin with.               *)
(***************************************************************************)
LEMMA BeginsTransitive ==
    ASSUME NEW a \in Seq(Byte), NEW b \in Seq(Byte), NEW c \in Seq(Byte),
           Begins(b, a), Begins(c, b)
    PROVE  Begins(c, a)
<1>1. Len(a) \in Nat /\ Len(b) \in Nat /\ Len(c) \in Nat
    OBVIOUS
<1>2. Len(a) <= Len(b) /\ Len(b) <= Len(c)
    BY DEF Begins
<1>3. ASSUME NEW p \in 1..Len(a) PROVE c[p] = a[p]
    <2>1. p \in 1..Len(b)
        BY <1>1, <1>2
    <2> QED
        BY <2>1 DEF Begins
<1> QED
    BY <1>1, <1>2, <1>3 DEF Begins

(***************************************************************************)
(* All the options begin with the first k of them.                         *)
(***************************************************************************)
LEMMA EncodeBegins ==
    ASSUME NEW list, Small(list), NEW k \in 0..Len(list)
    PROVE  Encode(list) \in Seq(Byte) /\ Begins(Encode(list), Encodings(list)[k])
<1> DEFINE n == Len(list)
           e == Encodings(list)
           S == {m \in 0..n : m >= k => Begins(e[m], e[k])}
<1>1. n \in Nat /\ k \in 0..n /\ n \in 0..n
    BY DEF Small
<1>2. /\ \A j \in 0..n : e[j] \in Seq(Byte)
      /\ \A j \in 1..n : e[j] = e[j - 1] \o Encoded(list[j])
    BY EncodingsStep
<1> HIDE DEF e
<1>3. \A j \in 0..n : Begins(e[j], e[j])
    <2>1. ASSUME NEW a \in Seq(Byte) PROVE Begins(a, a)
        BY DEF Begins
    <2> QED
        BY <1>2, <2>1
<1>4. ASSUME NEW m \in 1..n, m - 1 \in S
      PROVE  m \in S
    <2>1. m \in 0..n /\ m - 1 \in 0..n
        BY <1>1
    <2>2. Encoded(list[m]) \in Seq(Byte)
        <3>1. list[m] \in OptionSet /\ Len(list[m].value) < 256
            BY DEF Small
        <3> QED
            BY <3>1, EncodedFields
    <2>3. Begins(e[m], e[m - 1])
        <3> DEFINE x == Encoded(list[m])
                   a == e[m - 1]
        <3>1. x \in Seq(Byte) /\ a \in Seq(Byte) /\ e[m] = a \o x
            BY <1>2, <2>1, <2>2
        <3> HIDE DEF x, a
        <3>2. Begins(a \o x, a)
            BY <3>1, BeginsWithFirst
        <3> QED
            BY <3>1, <3>2 DEF a
    <2>4. m >= k => Begins(e[m], e[k])
        <3>1. CASE m - 1 >= k
            BY <1>1, <1>2, <1>4, <2>1, <2>3, <3>1, BeginsTransitive
        <3>2. CASE m = k
            BY <1>1, <1>3, <3>2
        <3> QED
            BY <1>1, <2>1, <3>1, <3>2
    <2> QED
        BY <2>1, <2>4
<1>5. 0 \in S
    BY <1>1, <1>3
<1>6. n \in S
    <2> HIDE DEF S, n
    <2> QED
        BY <1>1, <1>4, <1>5, InductionUpTo
<1>7. Begins(e[n], e[k]) /\ e[n] \in Seq(Byte)
    BY <1>1, <1>2, <1>6
<1> QED
    BY <1>7 DEF Encode, e

\* p is where the k-th option of the list begins.
StandsAt(list, k, p) == p = Len(Encodings(list)[k - 1]) + 1

(***************************************************************************)
(* Where the k-th option was written it is read again, and after it comes  *)
(* the next.                                                               *)
(***************************************************************************)
LEMMA ReadBack ==
    ASSUME NEW list, Small(list), NEW k \in 1..Len(list),
           NEW bytes \in Seq(Byte), Begins(bytes, Encodings(list)[k]),
           NEW p, StandsAt(list, k, p)
    PROVE  /\ p \in 1..Len(bytes) /\ p + 1 \in 1..Len(bytes)
           /\ bytes[p] = list[k].code /\ bytes[p + 1] = Len(list[k].value)
           /\ At(bytes, p + 1) = Len(list[k].value)
           /\ OptionAt(bytes, p) = list[k]
           /\ p + 1 + Len(list[k].value) <= Len(bytes)
           /\ Len(list[k].value) \in Nat
           /\ Len(Encodings(list)[k]) + 1 = p + 2 + Len(list[k].value)
<1> DEFINE e == Encodings(list)
           a == e[k - 1]
           o == list[k]
           n == Len(o.value)
           x == Encoded(o)
<1>1. o \in OptionSet /\ n < 256
    BY DEF Small
<1>2. /\ x \in Seq(Byte) /\ n \in Nat /\ Len(x) = n + 2
      /\ x[1] = o.code /\ x[2] = n
      /\ \A j \in 1..n : x[j + 2] = o.value[j]
    BY <1>1, EncodedFields
<1>3. a \in Seq(Byte) /\ e[k] = a \o x
    <2>1. k - 1 \in 0..Len(list)
        BY DEF Small
    <2> QED
        BY <2>1, EncodingsStep
<1>4. o = [code |-> o.code, value |-> o.value] /\ o.value = [j \in 1..n |-> o.value[j]]
    <2>1. o.value \in Seq(Byte)
        BY <1>1 DEF OptionSet
    <2> QED
        BY <1>1, <2>1 DEF OptionSet
<1>5. Begins(bytes, a \o x) /\ p = Len(a) + 1
    BY <1>3 DEF StandsAt
<1> HIDE DEF x, a
<1>6. /\ Len(a \o x) = Len(a) + Len(x)
      /\ \A j \in 1..Len(x) : (a \o x)[Len(a) + j] = x[j]
    BY <1>2, <1>3, BeginsWithFirst
<1>7. Len(a) \in Nat /\ Len(bytes) \in Nat
    BY <1>3
<1>8. Len(a) + (n + 2) <= Len(bytes) /\ Len(e[k]) = Len(a) + (n + 2)
    BY <1>2, <1>3, <1>5, <1>6 DEF Begins
<1> DEFINE b == Len(bytes)
           q == Len(a)
           l == Len(e[k])
<1> HIDE DEF n, b, q, l
<1>9. /\ n \in Nat /\ b \in Nat /\ q \in Nat /\ p = q + 1
      /\ q + (n + 2) <= b /\ l = q + (n + 2)
    BY <1>2, <1>5, <1>7, <1>8 DEF b, q, l
<1>10. ASSUME NEW j \in 1..(n + 2)
       PROVE  q + j \in 1..b /\ bytes[q + j] = x[j]
    <2>1. q + j \in 1..(q + (n + 2)) /\ q + j \in 1..b
        BY <1>9
    <2>2. (a \o x)[q + j] = x[j]
        BY <1>2, <1>6 DEF q
    <2>3. bytes[q + j] = (a \o x)[q + j]
        BY <1>2, <1>5, <1>6, <2>1 DEF Begins, q
    <2> QED
        BY <2>1, <2>2, <2>3
<1>11. /\ p \in 1..b /\ p + 1 \in 1..b
       /\ bytes[p] = o.code /\ bytes[p + 1] = n
    <2>1. 1 \in 1..(n + 2) /\ 2 \in 1..(n + 2) /\ p + 1 = q + 2
        BY <1>9
    <2> QED
        BY <1>2, <1>9, <1>10, <2>1
<1>12. At(bytes, p) = o.code /\ At(bytes, p + 1) = n
    BY <1>11 DEF At, b
<1>13. ASSUME NEW j \in 1..n
       PROVE  At(bytes, p + 1 + j) = o.value[j]
    <2>1. j + 2 \in 1..(n + 2) /\ p + 1 + j = q + (j + 2)
        BY <1>9
    <2>2. p + 1 + j \in 1..b /\ bytes[p + 1 + j] = x[j + 2]
        BY <1>10, <2>1
    <2> QED
        BY <1>2, <2>2 DEF At, b
<1>14. OptionAt(bytes, p) = o
    <2>1. OptionAt(bytes, p) =
              [code |-> o.code, value |-> [j \in 1..n |-> At(bytes, p + 1 + j)]]
        BY <1>12 DEF OptionAt
    <2>2. [j \in 1..n |-> At(bytes, p + 1 + j)] = [j \in 1..n |-> o.value[j]]
        BY <1>13
    <2> QED
        BY <1>4, <2>1, <2>2
<1>15. p + 1 + n <= b /\ l + 1 = p + 2 + n
    BY <1>9
<1> QED
    BY <1>9, <1>11, <1>12, <1>14, <1>15 DEF n, o, b, l

(***************************************************************************)
(* Each option makes the bytes longer by its value and two bytes.          *)
(***************************************************************************)
LEMMA EncodingsGrow ==
    ASSUME NEW list, Small(list), NEW k \in 1..Len(list)
    PROVE  /\ Len(list[k].value) \in Nat
           /\ Len(Encodings(list)[k]) =
                  Len(Encodings(list)[k - 1]) + 2 + Len(list[k].value)
<1> DEFINE a == Encodings(list)[k - 1]
           x == Encoded(list[k])
           n == Len(list[k].value)
<1>1. list[k] \in OptionSet /\ n < 256
    BY DEF Small
<1>2. x \in Seq(Byte) /\ n \in Nat /\ Len(x) = n + 2
    BY <1>1, EncodedFields
<1>3. a \in Seq(Byte) /\ Encodings(list)[k] = a \o x
    <2>1. k - 1 \in 0..Len(list)
        BY DEF Small
    <2> QED
        BY <2>1, EncodingsStep
<1> HIDE DEF a, x, n
<1>4. Len(a \o x) = Len(a) + Len(x)
    BY <1>2, <1>3, BeginsWithFirst
<1>5. Len(a) \in Nat
    BY <1>3
<1>6. Len(Encodings(list)[k]) = Len(a) + (n + 2)
    BY <1>2, <1>3, <1>4
<1>7. Len(a) + (n + 2) = Len(a) + 2 + n
    BY <1>2, <1>5
<1> QED
    BY <1>2, <1>6, <1>7 DEF a, n

(***************************************************************************)
(* The positions of the options and of their end are in the bytes.         *)
(***************************************************************************)
LEMMA EncodingsInside ==
    ASSUME NEW list, Small(list), NEW k \in 0..Len(list)
    PROVE  /\ Encodings(list)[k] \in Seq(Byte) /\ Len(Encodings(list)[k]) \in Nat
           /\ Len(Encodings(list)[k]) <= Len(Encode(list))
           /\ 2 * k <= Len(Encodings(list)[k])
<1> DEFINE n == Len(list)
           e == Encodings(list)
           S == {m \in 0..n : 2 * m <= Len(e[m])}
<1>1. n \in Nat
    BY DEF Small
<1>2. ASSUME NEW j \in 0..n
      PROVE  e[j] \in Seq(Byte) /\ Len(e[j]) \in Nat
    <2>1. e[j] \in Seq(Byte)
        BY EncodingsStep
    <2> HIDE DEF e
    <2> QED
        BY <2>1
<1>3. Len(e[0]) = 0
    <2>1. e[0] = <<>>
        BY EncodingsStep
    <2> HIDE DEF e
    <2> QED
        BY <2>1
<1>4. Len(e[k]) <= Len(Encode(list))
    BY EncodeBegins DEF Begins
<1> HIDE DEF e
<1>5. ASSUME NEW m \in 1..n, m - 1 \in S
      PROVE  m \in S
    <2>1. m \in 0..n /\ m - 1 \in 0..n
        BY <1>1
    <2> DEFINE l == Len(e[m])
               p == Len(e[m - 1]) + 1
               v == Len(list[m].value)
    <2>3. e[m] \in Seq(Byte) /\ l \in Nat /\ Len(e[m - 1]) \in Nat
        BY <1>2, <2>1
    <2>4. l = Len(e[m - 1]) + 2 + v /\ v \in Nat
        BY EncodingsGrow DEF e
    <2>5. 2 * (m - 1) <= p - 1
        BY <1>5, <2>3
    <2>6. p \in Nat /\ l = p + 1 + v
        BY <2>3, <2>4
    <2>7. 2 * m <= l
        <3> HIDE DEF l, p, v
        <3> QED
            BY <1>1, <2>4, <2>5, <2>6
    <2> QED
        BY <2>1, <2>7
<1>6. 0 \in S
    BY <1>1, <1>3
<1>7. k \in S
    <2>1. k \in 0..n
        OBVIOUS
    <2> HIDE DEF S, n
    <2> QED
        BY <1>1, <1>5, <1>6, <2>1, InductionUpTo
<1> QED
    BY <1>2, <1>4, <1>7 DEF e

-----------------------------------------------------------------------------
(***************************************************************************)
(* The inductive invariant.  In a regular datagram each loop has read the  *)
(* first k options, for some k, and stands behind them.                    *)
(***************************************************************************)

First(list, k) == [j \in 1..k |-> list[j]]

\* Of the first k options, the last with code n.
LastPlace(list, k, n) ==
    CHOOSE j \in 1..k :
        list[j].code = n /\ \A l \in (j + 1)..k : list[l].code # n

\* The map of the first k options.
Collected(list, k) ==
    [n \in {list[j].code : j \in 1..k} |-> list[LastPlace(list, k, n)].value]

\* A map that can be written and read back.
Writable(map) ==
    /\ DOMAIN map \subseteq Byte
    /\ \A n \in DOMAIN map : map[n] \in Seq(Byte) /\ Len(map[n]) < 256

Walking ==
    stage = "walk" /\ Regular(datagram) =>
        \E k \in 0..Len(datagram.options) :
            /\ i = Len(Encodings(datagram.options)[k]) + 1 + Len(Cookie)
            /\ options = Collected(datagram.options, k)

Walked ==
    stage \in {"nested", "parsed"} /\ Regular(datagram) =>
        options = RemoveOptions(Collected(datagram.options, Len(datagram.options)), {55})

Nesting ==
    stage = "nested" /\ Regular(datagram) =>
        /\ 43 \in DOMAIN options
        /\ \E k \in 0..Len(datagram.nested) :
               /\ i = Len(Encodings(datagram.nested)[k]) + 1
               /\ nested = First(datagram.nested, k)

Mapped ==
    stage \in {"handled", "written", "sent"} =>
        Writable(options) /\ END \in DOMAIN options /\ options[END] = <<>>

Written ==
    stage = "written" => packet = Encode(Listed(options)) \o <<0, 0>>

Sent ==
    stage = "sent" =>
        packet = Append(Encode(Listed(RemoveOptions(options, {END}))), END)

\* nested is empty until the second loop begins.
Unread == stage = "walk" => nested = <<>>

\* Whatever was received, an option's length is the byte before its value.
Kept == \A n \in DOMAIN options : Len(options[n]) < 256

\* The first loop does not go back beyond the boot file name, whose 128 bytes
\* are before the cookie.
InFront == stage = "walk" => i + 127 >= Len(Cookie)

\* The second loop has an option 43 to walk over.
HasNested == stage = "nested" => 43 \in DOMAIN options

Inv ==
    /\ TypeOK /\ Kept /\ InFront /\ HasNested
    /\ Walking /\ Walked /\ Unread /\ Nesting /\ NestedAsSent
    /\ Mapped /\ Written /\ Sent

-----------------------------------------------------------------------------
(***************************************************************************)
(* The map the first loop fills.                                           *)
(***************************************************************************)

(***************************************************************************)
(* There is no more than one last place.                                   *)
(***************************************************************************)
LEMMA LastPlaceIs ==
    ASSUME NEW list, NEW k \in Nat, NEW n, NEW j \in 1..k,
           list[j].code = n, \A l \in (j + 1)..k : list[l].code # n
    PROVE  LastPlace(list, k, n) = j
<1> DEFINE Last(m) == list[m].code = n /\ \A l \in (m + 1)..k : list[l].code # n
<1>1. ASSUME NEW m \in 1..k, Last(m)
      PROVE  m = j
    <2>1. CASE m < j
        <3>1. j \in (m + 1)..k
            BY <2>1
        <3> QED
            BY <1>1, <3>1
    <2>2. CASE j < m
        <3>1. m \in (j + 1)..k
            BY <2>2
        <3> QED
            BY <1>1, <3>1
    <2> QED
        BY <2>1, <2>2
<1>2. Last(j)
    OBVIOUS
<1>3. LastPlace(list, k, n) = CHOOSE m \in 1..k : Last(m)
    BY DEF LastPlace
<1> HIDE DEF Last
<1> QED
    BY <1>1, <1>2, <1>3

(***************************************************************************)
(* Each code that was read has a last place.                               *)
(***************************************************************************)
LEMMA LastPlaceExists ==
    ASSUME NEW list, NEW k \in Nat, NEW n \in {list[j].code : j \in 1..k}
    PROVE  \E m \in 1..k :
               /\ m = LastPlace(list, k, n) /\ list[m].code = n
               /\ \A l \in (m + 1)..k : list[l].code # n
<1> DEFINE K == {j \in 1..k : list[j].code = n}
<1>1. K \in SUBSET (1..k) /\ K # {}
    OBVIOUS
<1>2. PICK m \in K : \A j \in K : j <= m
    <2> HIDE DEF K
    <2> QED
        BY <1>1, LastPosition
<1>3. m \in 1..k /\ list[m].code = n
    OBVIOUS
<1>4. ASSUME NEW l \in (m + 1)..k
      PROVE  list[l].code # n
    <2>1. l \in 1..k /\ ~(l <= m)
        BY <1>3
    <2> QED
        BY <1>2, <2>1
<1>5. LastPlace(list, k, n) = m
    BY <1>3, <1>4, LastPlaceIs
<1> QED
    BY <1>3, <1>4, <1>5

(***************************************************************************)
(* One more turn of the loop adds one more option to the map: the value of *)
(* its code is replaced, the others stay.                                  *)
(***************************************************************************)
LEMMA CollectedGrows ==
    ASSUME NEW list, NEW k \in Nat \ {0}
    PROVE  AddOption(Collected(list, k - 1), list[k]) = Collected(list, k)
<1> DEFINE before == {list[j].code : j \in 1..(k - 1)}
           codes == {list[j].code : j \in 1..k}
           c == list[k].code
<1>1. codes = before \cup {c}
    <2>1. \A j \in 1..k : j \in 1..(k - 1) \/ j = k
        OBVIOUS
    <2>2. 1..(k - 1) \subseteq 1..k /\ k \in 1..k
        OBVIOUS
    <2> QED
        BY <2>1, <2>2
<1>2. LastPlace(list, k, c) = k
    <2>1. k \in 1..k /\ \A l \in (k + 1)..k : FALSE
        OBVIOUS
    <2> QED
        BY <2>1, LastPlaceIs
<1>3. ASSUME NEW n \in before, n # c
      PROVE  LastPlace(list, k, n) = LastPlace(list, k - 1, n)
    <2>1. PICK m \in 1..(k - 1) :
              /\ m = LastPlace(list, k - 1, n) /\ list[m].code = n
              /\ \A l \in (m + 1)..(k - 1) : list[l].code # n
        <3>1. k - 1 \in Nat
            OBVIOUS
        <3> QED
            BY <3>1, LastPlaceExists
    <2>2. m \in 1..k
        BY <2>1
    <2>3. ASSUME NEW l \in (m + 1)..k
          PROVE  list[l].code # n
        <3>1. l \in (m + 1)..(k - 1) \/ l = k
            BY <2>1
        <3> QED
            BY <1>3, <2>1, <3>1
    <2>4. LastPlace(list, k, n) = m
        <3>1. k \in Nat /\ list[m].code = n
            BY <2>1
        <3> HIDE DEF before, c
        <3> QED
            BY <2>2, <2>3, <3>1, LastPlaceIs
    <2> QED
        BY <2>1, <2>4
<1> DEFINE map == Collected(list, k - 1)
<1>4. map = [n \in before |-> list[LastPlace(list, k - 1, n)].value]
    BY DEF Collected
<1>5. Collected(list, k) = [n \in codes |-> list[LastPlace(list, k, n)].value]
    BY DEF Collected
<1>6. AddOption(map, list[k]) =
          [n \in DOMAIN map \cup {c} |-> IF n = c THEN list[k].value ELSE map[n]]
    BY DEF AddOption
<1> HIDE DEF before, codes, c, map
<1>7. DOMAIN map = before
    BY <1>4
<1>8. ASSUME NEW n \in codes
      PROVE  (IF n = c THEN list[k].value ELSE map[n])
             = list[LastPlace(list, k, n)].value
    BY <1>1, <1>2, <1>3, <1>4
<1> QED
    BY <1>1, <1>5, <1>6, <1>7, <1>8 DEF map

(***************************************************************************)
(* What the loops find is what the first so many options are.              *)
(***************************************************************************)
LEMMA FirstGrows ==
    ASSUME NEW list \in Seq(OptionSet), NEW k \in 0..Len(list)
    PROVE  /\ First(list, k) \in Seq(OptionSet)
           /\ k # 0 => Append(First(list, k - 1), list[k]) = First(list, k)
           /\ First(list, 0) = <<>> /\ First(list, Len(list)) = list
<1>1. Len(list) \in Nat /\ \A j \in 1..Len(list) : list[j] \in OptionSet
    OBVIOUS
<1>2. ASSUME NEW m \in 0..Len(list)
      PROVE  First(list, m) \in Seq(OptionSet) /\ Len(First(list, m)) = m
    <2>1. \A j \in 1..m : list[j] \in OptionSet
        BY <1>1
    <2>2. m \in Nat
        BY <1>1
    <2> QED
        BY <2>1, <2>2 DEF First
<1>3. First(list, 0) = <<>>
    <2>1. 0 \in 0..Len(list)
        BY <1>1
    <2> QED
        BY <1>2, <2>1, EmptySeq
<1>4. First(list, Len(list)) = list
    BY DEF First
<1>5. ASSUME k # 0
      PROVE  Append(First(list, k - 1), list[k]) = First(list, k)
    <2> DEFINE f == First(list, k - 1)
               g == First(list, k)
    <2>1. k \in 1..Len(list) /\ k - 1 \in 0..Len(list)
        BY <1>1, <1>5
    <2>2. /\ f \in Seq(OptionSet) /\ Len(f) = k - 1
          /\ g \in Seq(OptionSet) /\ Len(g) = k
        BY <1>2, <2>1
    <2>3. /\ \A j \in 1..(k - 1) : f[j] = list[j]
          /\ \A j \in 1..k : g[j] = list[j]
        BY DEF First
    <2> HIDE DEF f, g
    <2> DEFINE a == Append(f, list[k])
    <2>4. /\ a \in Seq(OptionSet) /\ Len(a) = Len(f) + 1
          /\ \A j \in 1..Len(f) : a[j] = f[j]
          /\ a[Len(f) + 1] = list[k]
        BY <1>1, <2>1, <2>2, AppendProperties
    <2> HIDE DEF a
    <2>5. Len(a) = k
        BY <2>1, <2>2, <2>4
    <2>6. ASSUME NEW j \in 1..k PROVE a[j] = g[j]
        <3>1. j \in 1..(k - 1) \/ j = k
            BY <2>1
        <3>2. k = Len(f) + 1
            BY <2>1, <2>2
        <3> QED
            BY <2>2, <2>3, <2>4, <3>1, <3>2
    <2>7. a = g
        BY <2>2, <2>4, <2>5, <2>6, SeqEqual
    <2> QED
        BY <2>7 DEF a, f, g
<1> QED
    BY <1>2, <1>3, <1>4, <1>5

-----------------------------------------------------------------------------
(***************************************************************************)
(* One turn of either loop.                                                *)
(***************************************************************************)

(***************************************************************************)
(* Whatever options a datagram has, their lengths fit one byte.            *)
(***************************************************************************)
LEMMA ListableIsSmall ==
    ASSUME NEW list, Listable(list)
    PROVE  Small(list) /\ 0 \in 0..Len(list)
<1>1. list \in Seq(OptionSet) /\ Len(list) \in Nat
    BY DEF Listable
<1>2. \A k \in 1..Len(list) : list[k] \in OptionSet /\ Len(list[k].value) < 256
    BY <1>1 DEF Listable, Byte
<1> QED
    BY <1>1, <1>2 DEF Small

(***************************************************************************)
(* The lengths of a regular datagram's options fit a signed one.           *)
(***************************************************************************)
LEMMA ShortIsSmall ==
    ASSUME NEW list, Short(list)
    PROVE  /\ Small(list) /\ list \in Seq(OptionSet) /\ Len(list) \in Nat
           /\ \A k \in 1..Len(list) :
                  /\ list[k] \in OptionSet /\ list[k].code \in Byte \ {PAD, END}
                  /\ list[k].value \in Seq(Byte) /\ Len(list[k].value) < 128
<1>1. list \in Seq(OptionSet)
    BY DEF Short, Listable
<1>2. ASSUME NEW k \in 1..Len(list)
      PROVE  /\ list[k] \in OptionSet /\ list[k].code \in Byte \ {PAD, END}
             /\ list[k].value \in Seq(Byte) /\ Len(list[k].value) < 128
    <2>1. list[k] \in OptionSet
        BY <1>1
    <2>2. list[k].code \in Byte /\ list[k].value \in Seq(Byte)
        BY <2>1 DEF OptionSet
    <2> QED
        BY <2>1, <2>2 DEF Short
<1>3. ASSUME NEW k \in 1..Len(list)
      PROVE  Len(list[k].value) < 256
    <2>1. Len(list[k].value) < 128 /\ Len(list[k].value) \in Nat
        BY <1>2
    <2> QED
        BY <2>1
<1>4. Len(list) \in Nat
    BY <1>1
<1> QED
    BY <1>1, <1>2, <1>3, <1>4 DEF Small

(***************************************************************************)
(* A loop that stands where an option was written does not stop, reads     *)
(* that option and moves on to the next, for its length is not negative as *)
(* a signed char.                                                          *)
(***************************************************************************)
LEMMA Turn ==
    ASSUME NEW list, Short(list), NEW k \in 1..Len(list),
           NEW bytes \in Seq(Byte), Begins(bytes, Encodings(list)[k]),
           NEW p, StandsAt(list, k, p)
    PROVE  /\ p \in 1..Len(bytes)
           /\ At(bytes, p) = bytes[p] /\ bytes[p] \notin {PAD, END}
           /\ OptionAt(bytes, p) = list[k]
           /\ PositionAfter(bytes, p) = Len(Encodings(list)[k]) + 1
<1> DEFINE n == Len(list[k].value)
           l == Len(Encodings(list)[k])
<1>1. Small(list) /\ list[k].code \notin {PAD, END} /\ n < 128
    BY ShortIsSmall
<1>2. /\ p \in 1..Len(bytes) /\ bytes[p] = list[k].code
      /\ At(bytes, p + 1) = n /\ OptionAt(bytes, p) = list[k]
      /\ n \in Nat /\ l + 1 = p + 2 + n
    <2>1. Small(list)
        BY <1>1
    <2> QED
        BY <2>1, ReadBack
<1>3. At(bytes, p) = bytes[p]
    BY <1>2 DEF At
<1> HIDE DEF n, l
<1>4. Signed(n) = n
    BY <1>1, <1>2 DEF Signed
<1>5. PositionAfter(bytes, p) = p + 2 + n
    BY <1>2, <1>4 DEF PositionAfter
<1> QED
    BY <1>1, <1>2, <1>3, <1>5 DEF l

(***************************************************************************)
(* Wherever a loop stands, it reads bytes, and the option it reads is as   *)
(* long as a byte can say.                                                 *)
(***************************************************************************)
LEMMA OptionAtType ==
    ASSUME NEW bytes \in Seq(Byte), NEW p \in Int
    PROVE  /\ At(bytes, p) \in Byte /\ At(bytes, p + 1) \in Byte
           /\ OptionAt(bytes, p) \in OptionSet
           /\ Len(OptionAt(bytes, p).value) < 256
           /\ PositionAfter(bytes, p) \in Int
<1>1. \A q : At(bytes, q) \in Byte
    BY DEF At, Byte
<1>2. PICK n \in Byte : n = At(bytes, p + 1)
    BY <1>1
<1>3. n \in Nat /\ n < 256
    BY DEF Byte
<1> DEFINE v == [k \in 1..n |-> At(bytes, p + 1 + k)]
<1>4. v \in Seq(Byte) /\ Len(v) = n
    BY <1>1, <1>3
<1> HIDE DEF v
<1>5. OptionAt(bytes, p) = [code |-> At(bytes, p), value |-> v]
    BY <1>2 DEF OptionAt, v
<1>6. OptionAt(bytes, p) \in OptionSet /\ OptionAt(bytes, p).value = v
    BY <1>1, <1>4, <1>5 DEF OptionSet
<1>7. PositionAfter(bytes, p) \in Int
    BY <1>2, <1>3 DEF PositionAfter, Signed
<1> QED
    BY <1>1, <1>3, <1>4, <1>6, <1>7

(***************************************************************************)
(* Whatever was received is bytes, and so is the buffer it came in.        *)
(***************************************************************************)
LEMMA ReceivedBytes ==
    ASSUME datagram \in Datagrams
    PROVE  Received \in Seq(Byte) /\ Buffer \in Seq(Byte)
<1> DEFINE b == Encode(datagram.options)
<1>1. Listable(datagram.options) /\ datagram.rest \in Seq(Byte)
    BY DatagramsAssumption
<1>2. Small(datagram.options) /\ 0 \in 0..Len(datagram.options)
    BY <1>1, ListableIsSmall
<1>3. b \in Seq(Byte)
    BY <1>2, EncodeBegins
<1>4. Received = b \o datagram.rest
    BY DEF Received
<1> HIDE DEF b
<1>5. Received \in Seq(Byte)
    BY <1>1, <1>3, <1>4, BeginsWithFirst
<1>6. Cookie \in Seq(Byte)
    BY DEF Cookie, Byte
<1>7. Buffer \in Seq(Byte)
    BY <1>5, <1>6, BeginsWithFirst DEF Buffer
<1> QED
    BY <1>5, <1>7

(***************************************************************************)
(* What comes before the first option only shifts the positions.           *)
(***************************************************************************)
ReadsAlike(b, q, r, p) ==
    /\ Len(Cookie) = 4
    /\ Len(b) = Len(r) + Len(Cookie)
    /\ At(b, q) = At(r, p)
    /\ OptionAt(b, q) = OptionAt(r, p)
    /\ PositionAfter(b, q) = PositionAfter(r, p) + Len(Cookie)

LEMMA BufferReads ==
    ASSUME NEW r \in Seq(Byte), NEW b \in Seq(Byte), b = Cookie \o r,
           NEW p \in Nat \ {0}, NEW q, q = p + Len(Cookie)
    PROVE  ReadsAlike(b, q, r, p)
<1>1. Cookie \in Seq(Byte) /\ Len(Cookie) = 4
    BY DEF Cookie, Byte
<1>2. /\ Len(b) = Len(Cookie) + Len(r)
      /\ \A j \in 1..Len(r) : b[Len(Cookie) + j] = r[j]
    BY <1>1, BeginsWithFirst
<1>3. Len(r) \in Nat /\ DOMAIN r = 1..Len(r) /\ DOMAIN b = 1..Len(b)
    OBVIOUS
<1>4. ASSUME NEW j \in Nat \ {0}
      PROVE  At(b, j + 4) = At(r, j)
    <2>1. CASE j \in 1..Len(r)
        <3>1. b[j + 4] = r[j]
            <4>1. b[4 + j] = r[j]
                BY <1>1, <1>2, <2>1
            <4>2. 4 + j = j + 4
                OBVIOUS
            <4> QED
                BY <4>1, <4>2
        <3>2. j + 4 \in DOMAIN b /\ j \in DOMAIN r
            BY <1>1, <1>2, <1>3, <2>1
        <3> QED
            BY <3>1, <3>2 DEF At
    <2>2. CASE j \notin 1..Len(r)
        <3>1. j + 4 \notin DOMAIN b /\ j \notin DOMAIN r
            BY <1>1, <1>2, <1>3, <2>2
        <3> QED
            BY <3>1 DEF At
    <2> QED
        BY <2>1, <2>2
<1>5. q = p + 4 /\ q + 1 = (p + 1) + 4 /\ p + 1 \in Nat \ {0}
    BY <1>1
<1>6. At(b, q) = At(r, p) /\ At(b, q + 1) = At(r, p + 1)
    BY <1>4, <1>5
<1>7. PICK n \in Nat : n = At(r, p + 1)
    <2>1. At(r, p + 1) \in Byte
        BY OptionAtType
    <2> QED
        BY <2>1 DEF Byte
<1>8. OptionAt(b, q) = OptionAt(r, p)
    <2>1. ASSUME NEW k \in 1..n
          PROVE  At(b, q + 1 + k) = At(r, p + 1 + k)
        <3>1. k \in Nat /\ p \in Nat /\ q = p + 4
            BY <1>5
        <3>2. p + 1 + k \in Nat \ {0}
            BY <3>1
        <3>3. q + 1 + k = (p + 1 + k) + 4
            BY <3>1
        <3> QED
            BY <1>4, <3>2, <3>3
    <2> DEFINE v == [k \in 1..n |-> At(b, q + 1 + k)]
               w == [k \in 1..n |-> At(r, p + 1 + k)]
    <2>2. v = w
        BY <2>1
    <2>3. /\ OptionAt(b, q) = [code |-> At(b, q), value |-> v]
          /\ OptionAt(r, p) = [code |-> At(r, p), value |-> w]
        BY <1>6, <1>7 DEF OptionAt
    <2> QED
        BY <1>6, <2>2, <2>3
<1>9. PositionAfter(b, q) = PositionAfter(r, p) + 4
    <2>1. /\ PositionAfter(b, q) = q + 2 + Signed(n)
          /\ PositionAfter(r, p) = p + 2 + Signed(n)
        BY <1>6, <1>7 DEF PositionAfter
    <2>2. PICK s \in Int : s = Signed(n)
        BY <1>7 DEF Signed
    <2>3. p \in Nat /\ q = p + 4
        BY <1>5
    <2>4. q + 2 + s = (p + 2 + s) + 4
        BY <2>2, <2>3
    <2> QED
        BY <2>1, <2>2, <2>4
<1> QED
    BY <1>1, <1>2, <1>3, <1>6, <1>8, <1>9 DEF ReadsAlike

(***************************************************************************)
(* A position of the first loop goes back to the boot file name at most:   *)
(* from the bytes of the name itself, which are zero, it goes forward.     *)
(***************************************************************************)
LEMMA StaysInFront ==
    ASSUME datagram \in Datagrams, i \in Int, i + 127 >= Len(Cookie)
    PROVE  PositionAfter(Buffer, i) + 127 >= Len(Cookie)
<1>1. Buffer \in Seq(Byte) /\ Received \in Seq(Byte)
    BY ReceivedBytes
<1>2. Cookie \in Seq(Byte) /\ Len(Cookie) = 4
    BY DEF Cookie, Byte
<1>3. /\ Begins(Buffer, Cookie) /\ DOMAIN Buffer = 1..Len(Buffer)
      /\ Len(Buffer) = 4 + Len(Received) /\ Len(Received) \in Nat
    <2>1. Buffer = Cookie \o Received
        BY DEF Buffer
    <2>2. /\ Begins(Cookie \o Received, Cookie)
          /\ Len(Cookie \o Received) = Len(Cookie) + Len(Received)
        BY <1>1, <1>2, BeginsWithFirst
    <2>3. Len(Received) \in Nat /\ DOMAIN Buffer = 1..Len(Buffer)
        BY <1>1
    <2> QED
        BY <1>2, <2>1, <2>2, <2>3
<1>4. /\ Buffer[1] = 99 /\ Buffer[2] = 130 /\ Buffer[3] = 83 /\ Buffer[4] = 99
    BY <1>2, <1>3 DEF Begins, Cookie
<1>5. PICK n \in Byte : n = At(Buffer, i + 1)
    BY <1>1, OptionAtType
<1>6. /\ n \in Nat /\ n < 256
      /\ PositionAfter(Buffer, i) = i + 2 + (IF n < 128 THEN n ELSE n - 256)
    BY <1>5 DEF PositionAfter, Signed, Byte
<1>7. CASE i + 1 < 1
    <2>1. n = 0
        BY <1>3, <1>5, <1>7 DEF At
    <2> QED
        BY <1>2, <1>6, <2>1
<1>8. CASE i + 1 \in 1..4
    <2>1. n = Buffer[i + 1]
        BY <1>3, <1>5, <1>8 DEF At
    <2>2. i + 1 = 1 \/ i + 1 = 2 \/ i + 1 = 3 \/ i + 1 = 4
        BY <1>8
    <2>3. /\ i + 1 = 1 => i = 0 /\ n = 99
          /\ i + 1 = 2 => i = 1 /\ n = 130
          /\ i + 1 = 3 => i = 2 /\ n = 83
          /\ i + 1 = 4 => i = 3 /\ n = 99
        <3>1. /\ i + 1 = 1 => n = Buffer[1]
              /\ i + 1 = 2 => n = Buffer[2]
              /\ i + 1 = 3 => n = Buffer[3]
              /\ i + 1 = 4 => n = Buffer[4]
            BY <2>1
        <3> QED
            BY <1>4, <3>1
    <2> QED
        BY <1>2, <1>6, <2>2, <2>3
<1>9. CASE i + 1 > 4
    BY <1>2, <1>6, <1>9
<1> QED
    BY <1>7, <1>8, <1>9

(***************************************************************************)
(* The datagram begins with its options; nothing or END comes after them.  *)
(***************************************************************************)
LEMMA ReceivedBegins ==
    ASSUME datagram \in Datagrams, Regular(datagram)
    PROVE  LET sent == datagram.options
               e == Len(Encode(sent))
           IN  /\ Short(sent) /\ Received \in Seq(Byte)
               /\ \A k \in 0..Len(sent) : Begins(Received, Encodings(sent)[k])
               /\ e + 1 <= Len(Received) => Received[e + 1] = END
<1> DEFINE sent == datagram.options
           rest == datagram.rest
           b == Encode(sent)
<1>1. Short(sent) /\ rest \in Seq(Byte) /\ (rest # <<>> => rest[1] = END)
    BY DatagramsAssumption DEF Regular
<1>2. Small(sent) /\ Len(sent) \in Nat
    BY <1>1, ShortIsSmall
<1>3. b \in Seq(Byte) /\ Len(b) \in Nat
    <2>1. 0 \in 0..Len(sent)
        BY <1>2
    <2>2. b \in Seq(Byte)
        BY <1>2, <2>1, EncodeBegins
    <2> HIDE DEF b
    <2> QED
        BY <2>2
<1>4. Received = b \o rest
    BY DEF Received
<1> HIDE DEF b, rest
<1>5. /\ Received \in Seq(Byte) /\ Len(Received) = Len(b) + Len(rest)
      /\ Begins(Received, b)
      /\ \A j \in 1..Len(rest) : Received[Len(b) + j] = rest[j]
    BY <1>1, <1>3, <1>4, BeginsWithFirst
<1>6. ASSUME NEW k \in 0..Len(sent)
      PROVE  Begins(Received, Encodings(sent)[k])
    <2>1. Encodings(sent)[k] \in Seq(Byte) /\ Begins(b, Encodings(sent)[k])
        BY <1>2, EncodingsStep, EncodeBegins DEF b
    <2> QED
        BY <1>3, <1>5, <2>1, BeginsTransitive
<1>7. ASSUME Len(b) + 1 <= Len(Received)
      PROVE  Received[Len(b) + 1] = END
    <2>1. Len(rest) \in Nat
        BY <1>1
    <2>2. 1 \in 1..Len(rest)
        BY <1>3, <1>5, <1>7, <2>1
    <2>3. rest # <<>>
        BY <2>2
    <2> QED
        BY <1>1, <1>5, <2>2, <2>3
<1> QED
    BY <1>1, <1>5, <1>6, <1>7 DEF b

(***************************************************************************)
(* So do the bytes of option 43, which are too few to reach the bound of   *)
(* the loop.                                                               *)
(***************************************************************************)
LEMMA NestedBegins ==
    ASSUME datagram \in Datagrams, Regular(datagram),
           NEW k \in 1..Len(datagram.options),
           datagram.options[k].code = 43
    PROVE  LET bytes == datagram.options[k].value
               subs == datagram.nested
               e == Len(Encode(subs))
           IN  /\ Short(subs) /\ bytes \in Seq(Byte) /\ Len(bytes) < 128
               /\ \A j \in 0..Len(subs) : Begins(bytes, Encodings(subs)[j])
               /\ At(bytes, e + 1) \in {PAD, END}
<1> DEFINE bytes == datagram.options[k].value
           subs == datagram.nested
           b == Encode(subs)
<1>1. /\ Short(datagram.options) /\ Short(subs)
      /\ bytes \in {b, Append(b, END)}
    BY DEF Regular
<1>2. bytes \in Seq(Byte) /\ Len(bytes) < 128
    BY <1>1, ShortIsSmall
<1>3. Small(subs) /\ Len(subs) \in Nat
    BY <1>1, ShortIsSmall
<1>4. b \in Seq(Byte) /\ Len(b) \in Nat
    <2>1. 0 \in 0..Len(subs)
        BY <1>3
    <2>2. b \in Seq(Byte)
        BY <1>3, <2>1, EncodeBegins
    <2> HIDE DEF b
    <2> QED
        BY <2>2
<1>5. ASSUME NEW j \in 0..Len(subs)
      PROVE  Encodings(subs)[j] \in Seq(Byte) /\ Begins(b, Encodings(subs)[j])
    BY <1>3, EncodingsStep, EncodeBegins
<1> HIDE DEF b, bytes
<1>6. Begins(bytes, b) /\ At(bytes, Len(b) + 1) \in {PAD, END}
    <2>1. CASE bytes = b
        <3>1. Begins(b, b) /\ Len(b) + 1 \notin 1..Len(b)
            BY <1>4 DEF Begins
        <3>2. At(b, Len(b) + 1) = 0
            BY <1>4, <3>1 DEF At
        <3> QED
            BY <2>1, <3>1, <3>2 DEF PAD
    <2>2. CASE bytes = Append(b, END)
        <3>1. END \in Byte
            BY DEF END, Byte
        <3>2. /\ Len(bytes) = Len(b) + 1 /\ bytes[Len(b) + 1] = END
              /\ \A j \in 1..Len(b) : bytes[j] = b[j]
            BY <1>4, <2>2, <3>1, AppendProperties
        <3>3. Begins(bytes, b)
            BY <1>4, <3>2 DEF Begins
        <3>4. Len(b) + 1 \in DOMAIN bytes
            <4>1. DOMAIN bytes = 1..Len(bytes)
                BY <1>2
            <4> QED
                BY <1>4, <3>2, <4>1
        <3> QED
            BY <3>2, <3>3, <3>4 DEF At
    <2> QED
        BY <1>1, <2>1, <2>2
<1>7. ASSUME NEW j \in 0..Len(subs)
      PROVE  Begins(bytes, Encodings(subs)[j])
    BY <1>2, <1>4, <1>5, <1>6, BeginsTransitive
<1> QED
    BY <1>1, <1>2, <1>6, <1>7 DEF b, bytes

(***************************************************************************)
(* The map holds options that were sent.                                   *)
(***************************************************************************)
LEMMA CollectedSent ==
    ASSUME NEW list, Short(list), NEW k \in 0..Len(list),
           NEW n \in DOMAIN Collected(list, k)
    PROVE  /\ n \in Byte \ {PAD, END}
           /\ \E j \in 1..Len(list) :
                  list[j].code = n /\ Collected(list, k)[n] = list[j].value
           /\ Collected(list, k)[n] \in Seq(Byte) /\ Len(Collected(list, k)[n]) < 128
<1>1. Len(list) \in Nat /\ k \in Nat
    BY ShortIsSmall
<1>2. n \in {list[j].code : j \in 1..k}
    BY DEF Collected
<1>3. PICK j \in 1..k : j = LastPlace(list, k, n) /\ list[j].code = n
    BY <1>1, <1>2, LastPlaceExists
<1>4. j \in 1..Len(list) /\ Collected(list, k)[n] = list[j].value
    BY <1>1, <1>2, <1>3 DEF Collected
<1>5. /\ list[j].code \in Byte \ {PAD, END}
      /\ list[j].value \in Seq(Byte) /\ Len(list[j].value) < 128
    BY <1>4, ShortIsSmall
<1> QED
    BY <1>3, <1>4, <1>5

(***************************************************************************)
(* The first loop reads the next option and then stands behind it.         *)
(***************************************************************************)
LEMMA NextOption ==
    ASSUME Inv, ReadOption, Regular(datagram)
    PROVE  LET sent == datagram.options
           IN  \E m \in 1..Len(sent) :
                   /\ i = Len(Encodings(sent)[m - 1]) + 1 + Len(Cookie)
                   /\ i' = Len(Encodings(sent)[m]) + 1 + Len(Cookie)
                   /\ options' = Collected(sent, m)
<1> DEFINE sent == datagram.options
<1>1. /\ stage = "walk" /\ InOptions
      /\ options' = AddOption(options, OptionAt(Buffer, i))
      /\ i' = PositionAfter(Buffer, i)
    BY DEF ReadOption
<1>2. datagram \in Datagrams /\ Buffer \in Seq(Byte)
    BY ReceivedBytes DEF Inv, TypeOK
<1>3. /\ Short(sent) /\ Small(sent) /\ Received \in Seq(Byte) /\ Len(sent) \in Nat
      /\ \A k \in 0..Len(sent) : Begins(Received, Encodings(sent)[k])
      /\ LET e == Len(Encode(sent)) IN e + 1 <= Len(Received) => Received[e + 1] = END
    BY <1>2, ReceivedBegins, ShortIsSmall
<1>4. PICK k \in 0..Len(sent) :
          /\ i = Len(Encodings(sent)[k]) + 1 + Len(Cookie)
          /\ options = Collected(sent, k)
    BY <1>1 DEF Inv, Walking
<1>5. PICK p \in Nat \ {0} : p = Len(Encodings(sent)[k]) + 1
    <2>1. Len(Encodings(sent)[k]) \in Nat
        BY <1>3, EncodingsInside
    <2> QED
        BY <2>1
<1>6. /\ Len(Buffer) = Len(Received) + Len(Cookie) /\ Len(Cookie) = 4
      /\ At(Buffer, i) = At(Received, p)
      /\ OptionAt(Buffer, i) = OptionAt(Received, p)
      /\ PositionAfter(Buffer, i) = PositionAfter(Received, p) + Len(Cookie)
    <2>1. Buffer = Cookie \o Received
        BY DEF Buffer
    <2>2. i = p + Len(Cookie)
        BY <1>4, <1>5
    <2>3. PICK r \in Seq(Byte) : r = Received
        BY <1>3
    <2>4. PICK b \in Seq(Byte) : b = Buffer
        BY <1>2
    <2>5. PICK q : q = i
        OBVIOUS
    <2>6. b = Cookie \o r /\ q = p + Len(Cookie)
        BY <2>1, <2>2, <2>3, <2>4, <2>5
    <2>7. ReadsAlike(b, q, r, p)
        BY <2>6, BufferReads
    <2> QED
        BY <2>3, <2>4, <2>5, <2>7 DEF ReadsAlike
<1>7. p <= Len(Received) /\ Received[p] # END
    <2>1. i <= Len(Buffer) /\ At(Received, p) # END
        BY <1>1, <1>6 DEF InOptions
    <2>2. p <= Len(Received)
        <3>1. Len(Received) \in Nat /\ i = p + 4 /\ i <= Len(Received) + 4
            BY <1>3, <1>4, <1>5, <1>6, <2>1
        <3> QED
            BY <3>1
    <2>3. p \in DOMAIN Received
        BY <1>3, <2>2
    <2> QED
        BY <2>1, <2>2, <2>3 DEF At
<1>8. k # Len(sent)
    <2>1. SUFFICES ASSUME k = Len(sent) PROVE FALSE
        OBVIOUS
    <2>2. p = Len(Encode(sent)) + 1
        BY <1>5, <2>1 DEF Encode
    <2> QED
        BY <1>3, <1>7, <2>2
<1> DEFINE m == k + 1
<1>9. m \in 1..Len(sent) /\ m \in 0..Len(sent) /\ m - 1 = k /\ m \in Nat \ {0}
    BY <1>3, <1>4, <1>8
<1> HIDE DEF m
<1>10. StandsAt(sent, m, p)
    BY <1>5, <1>9 DEF StandsAt
<1>11. /\ OptionAt(Received, p) = sent[m]
       /\ PositionAfter(Received, p) = Len(Encodings(sent)[m]) + 1
    BY <1>3, <1>9, <1>10, Turn
<1>12. options' = Collected(sent, m)
    BY <1>1, <1>4, <1>6, <1>9, <1>11, CollectedGrows
<1>13. i' = Len(Encodings(sent)[m]) + 1 + Len(Cookie)
    BY <1>1, <1>6, <1>11
<1> QED
    BY <1>4, <1>9, <1>12, <1>13

(***************************************************************************)
(* What it has read are the first options.                                 *)
(***************************************************************************)
LEMMA ReadOptionKeeps ==
    ASSUME Inv, ReadOption
    PROVE  Inv'
<1> DEFINE sent == datagram.options
<1>1. /\ stage = "walk" /\ stage' = stage /\ datagram' = datagram
      /\ nested' = nested /\ packet' = packet
      /\ options' = AddOption(options, OptionAt(Buffer, i))
      /\ i' = PositionAfter(Buffer, i)
    BY DEF ReadOption
<1>2. TypeOK /\ Buffer \in Seq(Byte) /\ i \in Int
    BY ReceivedBytes DEF Inv, TypeOK
<1>3. PICK o \in OptionSet : o = OptionAt(Buffer, i) /\ Len(o.value) < 256
    BY <1>2, OptionAtType
<1>4. /\ DOMAIN options' = DOMAIN options \cup {o.code}
      /\ \A n \in DOMAIN options' :
             \/ options'[n] = o.value
             \/ n \in DOMAIN options /\ options'[n] = options[n]
    <2>1. options' = [n \in DOMAIN options \cup {o.code} |->
                         IF n = o.code THEN o.value ELSE options[n]]
        BY <1>1, <1>3 DEF AddOption
    <2> QED
        BY <2>1
<1>5. TypeOK'
    <2>1. i' \in Int
        BY <1>1, <1>2, OptionAtType
    <2>2. o.code \in Byte /\ o.value \in Seq(Byte)
        BY DEF OptionSet
    <2>3. /\ DOMAIN options' \subseteq Byte
          /\ \A n \in DOMAIN options' : options'[n] \in Seq(Byte)
        BY <1>2, <1>4, <2>2 DEF TypeOK
    <2> QED
        BY <1>1, <1>2, <2>1, <2>3 DEF TypeOK
<1>6. Kept'
    BY <1>3, <1>4 DEF Inv, Kept
<1>7. InFront'
    <2>1. datagram \in Datagrams /\ i + 127 >= Len(Cookie)
        BY <1>1, <1>2 DEF Inv, InFront, TypeOK
    <2>2. i' + 127 >= Len(Cookie)
        BY <1>1, <1>2, <2>1, StaysInFront
    <2> QED
        BY <2>2 DEF InFront
<1>8. Walking'
    <2>1. ASSUME Regular(datagram)
          PROVE  \E m \in 0..Len(sent) :
                     /\ i' = Len(Encodings(sent)[m]) + 1 + Len(Cookie)
                     /\ options' = Collected(sent, m)
        <3>1. PICK m \in 1..Len(sent) :
                  /\ i' = Len(Encodings(sent)[m]) + 1 + Len(Cookie)
                  /\ options' = Collected(sent, m)
            BY <2>1, NextOption
        <3>2. Len(sent) \in Nat
            BY <2>1, ShortIsSmall DEF Regular
        <3>3. m \in 0..Len(sent)
            BY <3>2
        <3> QED
            BY <3>1, <3>3
    <2> QED
        BY <1>1, <2>1 DEF Walking
<1>9. Unread'
    BY <1>1 DEF Inv, Unread
<1> QED
    BY <1>1, <1>5, <1>6, <1>7, <1>8, <1>9
       DEF Inv, HasNested, Walked, Nesting, NestedAsSent, Mapped, Written, Sent

(***************************************************************************)
(* It ends where the options of a regular datagram end.                    *)
(***************************************************************************)
LEMMA OptionsEnd ==
    ASSUME Inv, stage = "walk", ~InOptions, Regular(datagram)
    PROVE  options = Collected(datagram.options, Len(datagram.options))
<1> DEFINE sent == datagram.options
<1>1. datagram \in Datagrams /\ Buffer \in Seq(Byte)
    BY ReceivedBytes DEF Inv, TypeOK
<1>2. /\ Short(sent) /\ Small(sent) /\ Received \in Seq(Byte) /\ Len(sent) \in Nat
      /\ \A k \in 0..Len(sent) : Begins(Received, Encodings(sent)[k])
    BY <1>1, ReceivedBegins, ShortIsSmall
<1>3. PICK k \in 0..Len(sent) :
          /\ i = Len(Encodings(sent)[k]) + 1 + Len(Cookie)
          /\ options = Collected(sent, k)
    BY DEF Inv, Walking
<1>4. SUFFICES ASSUME k # Len(sent) PROVE FALSE
    BY <1>3
<1>5. PICK p \in Nat \ {0} : p = Len(Encodings(sent)[k]) + 1
    <2>1. Len(Encodings(sent)[k]) \in Nat
        BY <1>2, EncodingsInside
    <2> QED
        BY <2>1
<1> DEFINE m == k + 1
<1>6. m \in 1..Len(sent) /\ m \in 0..Len(sent) /\ m - 1 = k
    BY <1>2, <1>3, <1>4
<1> HIDE DEF m
<1>7. StandsAt(sent, m, p)
    BY <1>5, <1>6 DEF StandsAt
<1>8. p \in 1..Len(Received) /\ At(Received, p) \notin {PAD, END}
    BY <1>2, <1>6, <1>7, Turn
<1>9. /\ Len(Buffer) = Len(Received) + Len(Cookie) /\ Len(Cookie) = 4
      /\ At(Buffer, i) = At(Received, p)
    <2>1. Buffer = Cookie \o Received /\ i = p + Len(Cookie)
        BY <1>3, <1>5 DEF Buffer
    <2>2. ReadsAlike(Buffer, i, Received, p)
        BY <1>1, <1>2, <2>1, BufferReads
    <2> QED
        BY <2>2 DEF ReadsAlike
<1>10. i <= Len(Buffer)
    <2>1. i = p + 4 /\ Len(Received) \in Nat /\ p <= Len(Received)
        BY <1>2, <1>3, <1>5, <1>8, <1>9
    <2> QED
        BY <1>9, <2>1
<1> QED
    BY <1>8, <1>9, <1>10 DEF InOptions

(***************************************************************************)
(* It leaves all it read but the parameter request list.                   *)
(***************************************************************************)
LEMMA EndOptionsKeeps ==
    ASSUME Inv, EndOptions
    PROVE  Inv'
<1> DEFINE sent == datagram.options
<1>1. /\ stage = "walk" /\ ~InOptions /\ datagram' = datagram
      /\ options' = RemoveOptions(options, {55})
      /\ stage' = IF 43 \in DOMAIN options THEN "nested" ELSE "parsed"
      /\ i' = 1 /\ nested' = nested /\ packet' = packet
    BY DEF EndOptions
<1>2. /\ DOMAIN options' = DOMAIN options \ {55}
      /\ \A n \in DOMAIN options' : options'[n] = options[n]
    BY <1>1 DEF RemoveOptions
<1>3. TypeOK' /\ Kept' /\ HasNested'
    BY <1>1, <1>2 DEF Inv, TypeOK, Kept, HasNested, Stages
<1>4. Walked'
    BY <1>1, OptionsEnd DEF Walked
<1>5. Nesting'
    <2>1. SUFFICES ASSUME stage' = "nested", Regular(datagram)
                   PROVE  /\ 43 \in DOMAIN options'
                          /\ \E j \in 0..Len(datagram.nested) :
                                 /\ i' = Len(Encodings(datagram.nested)[j]) + 1
                                 /\ nested' = First(datagram.nested, j)
        BY <1>1 DEF Nesting
    <2>2. 43 \in DOMAIN options'
        BY <1>1, <1>2, <2>1
    <2>3. Short(datagram.nested)
        BY <2>1 DEF Regular
    <2>4. Small(datagram.nested) /\ datagram.nested \in Seq(OptionSet)
        BY <2>3, ShortIsSmall
    <2>5. 0 \in 0..Len(datagram.nested)
        BY <2>4
    <2>6. nested' = First(datagram.nested, 0)
        BY <1>1, <2>4, <2>5, FirstGrows DEF Inv, Unread
    <2>7. Encodings(datagram.nested)[0] = <<>>
        BY <2>4, EncodingsStep
    <2>8. i' = Len(Encodings(datagram.nested)[0]) + 1
        BY <1>1, <2>7
    <2> QED
        BY <2>2, <2>5, <2>6, <2>8
<1>6. NestedAsSent'
    BY <1>1, <1>2 DEF NestedAsSent
<1> QED
    BY <1>1, <1>3, <1>4, <1>5, <1>6
       DEF Inv, InFront, Walking, Unread, Mapped, Written, Sent

(***************************************************************************)
(* What the second loop walks over was sent as option 43.                  *)
(***************************************************************************)
LEMMA NestedBytes ==
    ASSUME Inv, stage = "nested", Regular(datagram)
    PROVE  LET subs == datagram.nested
               e == Len(Encode(subs))
           IN  /\ Short(subs) /\ options[43] \in Seq(Byte) /\ Len(options[43]) < 128
               /\ \A j \in 0..Len(subs) : Begins(options[43], Encodings(subs)[j])
               /\ At(options[43], e + 1) \in {PAD, END}
<1> DEFINE sent == datagram.options
<1>1. datagram \in Datagrams
    BY DEF Inv, TypeOK
<1>2. Short(sent) /\ Len(sent) \in 0..Len(sent)
    <2>1. Short(sent)
        BY DEF Regular
    <2>2. Len(sent) \in Nat
        BY <2>1, ShortIsSmall
    <2> QED
        BY <2>1, <2>2
<1>3. /\ 43 \in DOMAIN options
      /\ options = RemoveOptions(Collected(sent, Len(sent)), {55})
    BY DEF Inv, Nesting, Walked
<1>4. /\ 43 \in DOMAIN Collected(sent, Len(sent))
      /\ options[43] = Collected(sent, Len(sent))[43]
    BY <1>3 DEF RemoveOptions
<1>5. PICK j \in 1..Len(sent) : sent[j].code = 43 /\ options[43] = sent[j].value
    BY <1>2, <1>4, CollectedSent
<1> QED
    BY <1>1, <1>5, NestedBegins

(***************************************************************************)
(* The second loop reads the next option within option 43.                 *)
(***************************************************************************)
LEMMA NextNested ==
    ASSUME Inv, ReadNested, Regular(datagram)
    PROVE  LET subs == datagram.nested
           IN  \E m \in 1..Len(subs) :
                   /\ i = Len(Encodings(subs)[m - 1]) + 1
                   /\ i' = Len(Encodings(subs)[m]) + 1
                   /\ nested' = First(subs, m) /\ nested' \in Seq(OptionSet)
<1> DEFINE subs == datagram.nested
           bytes == options[43]
<1>1. /\ stage = "nested" /\ InNested /\ stage' = stage /\ datagram' = datagram
      /\ nested' = Append(nested, OptionAt(bytes, i))
      /\ i' = PositionAfter(bytes, i)
      /\ options' = options /\ packet' = packet
    BY DEF ReadNested
<1>2. /\ Short(subs) /\ bytes \in Seq(Byte) /\ Len(subs) \in Nat
      /\ \A j \in 0..Len(subs) : Begins(bytes, Encodings(subs)[j])
      /\ LET e == Len(Encode(subs)) IN At(bytes, e + 1) \in {PAD, END}
    BY <1>1, NestedBytes, ShortIsSmall
<1>3. PICK k \in 0..Len(subs) :
          i = Len(Encodings(subs)[k]) + 1 /\ nested = First(subs, k)
    BY <1>1 DEF Inv, Nesting
<1>4. k # Len(subs)
    <2>1. SUFFICES ASSUME k = Len(subs) PROVE FALSE
        OBVIOUS
    <2>2. i = Len(Encode(subs)) + 1
        BY <1>3, <2>1 DEF Encode
    <2> QED
        BY <1>1, <1>2, <2>2 DEF InNested
<1> DEFINE m == k + 1
<1>5. m \in 1..Len(subs) /\ m \in 0..Len(subs) /\ m - 1 = k /\ m # 0
    BY <1>2, <1>3, <1>4
<1> HIDE DEF m, bytes
<1>6. StandsAt(subs, m, i)
    BY <1>3, <1>5 DEF StandsAt
<1>7. /\ OptionAt(bytes, i) = subs[m]
      /\ PositionAfter(bytes, i) = Len(Encodings(subs)[m]) + 1
    BY <1>2, <1>5, <1>6, Turn
<1>8. Small(subs) /\ subs \in Seq(OptionSet)
    BY <1>2, ShortIsSmall
<1>9. nested' = First(subs, m) /\ nested' \in Seq(OptionSet)
    <2>1. /\ First(subs, m) \in Seq(OptionSet)
          /\ Append(First(subs, m - 1), subs[m]) = First(subs, m)
        BY <1>5, <1>8, FirstGrows
    <2>2. First(subs, m - 1) = nested /\ nested' = Append(nested, subs[m])
        BY <1>1, <1>3, <1>5, <1>7 DEF bytes
    <2> QED
        BY <2>1, <2>2
<1>10. i' = Len(Encodings(subs)[m]) + 1
    BY <1>1, <1>7
<1> QED
    BY <1>3, <1>5, <1>9, <1>10

(***************************************************************************)
(* What it has read are the first of them.                                 *)
(***************************************************************************)
LEMMA ReadNestedKeeps ==
    ASSUME Inv, ReadNested
    PROVE  Inv'
<1> DEFINE subs == datagram.nested
           bytes == options[43]
<1>1. /\ stage = "nested" /\ stage' = stage /\ datagram' = datagram
      /\ nested' = Append(nested, OptionAt(bytes, i))
      /\ i' = PositionAfter(bytes, i)
      /\ options' = options /\ packet' = packet
    BY DEF ReadNested
<1>2. TypeOK /\ 43 \in DOMAIN options
    BY <1>1 DEF Inv, HasNested
<1>3. bytes \in Seq(Byte) /\ i \in Int /\ nested \in Seq(OptionSet)
    BY <1>2 DEF TypeOK
<1>4. i' \in Int /\ OptionAt(bytes, i) \in OptionSet
    BY <1>1, <1>3, OptionAtType
<1>5. TypeOK'
    <2>1. nested' \in Seq(OptionSet)
        BY <1>1, <1>3, <1>4
    <2> QED
        BY <1>1, <1>2, <1>4, <2>1 DEF TypeOK
<1>6. Walked' /\ Kept' /\ HasNested'
    BY <1>1 DEF Inv, Walked, Kept, HasNested
<1>7. Nesting'
    <2>1. ASSUME Regular(datagram)
          PROVE  /\ 43 \in DOMAIN options
                 /\ \E m \in 0..Len(subs) :
                        /\ i' = Len(Encodings(subs)[m]) + 1
                        /\ nested' = First(subs, m)
        <3>1. PICK m \in 1..Len(subs) :
                  i' = Len(Encodings(subs)[m]) + 1 /\ nested' = First(subs, m)
            BY <2>1, NextNested
        <3>2. Len(subs) \in Nat
            BY <2>1, ShortIsSmall DEF Regular
        <3>3. m \in 0..Len(subs)
            BY <3>2
        <3> QED
            BY <1>2, <3>1, <3>3
    <2> QED
        BY <1>1, <2>1 DEF Nesting
<1> QED
    BY <1>1, <1>5, <1>6, <1>7
       DEF Inv, InFront, Walking, Unread, NestedAsSent, Mapped, Written, Sent

(***************************************************************************)
(* It ends where the options within option 43 end, and not by its bound.   *)
(***************************************************************************)
LEMMA NestedEnds ==
    ASSUME Inv, EndNested, Regular(datagram)
    PROVE  nested = datagram.nested
<1> DEFINE subs == datagram.nested
           bytes == options[43]
<1>1. /\ stage = "nested" /\ ~InNested /\ stage' = "parsed"
      /\ UNCHANGED <<datagram, i, options, nested, packet>>
    BY DEF EndNested
<1>2. /\ Short(subs) /\ bytes \in Seq(Byte) /\ Len(subs) \in Nat
      /\ Len(bytes) < 128
      /\ \A j \in 0..Len(subs) : Begins(bytes, Encodings(subs)[j])
    BY <1>1, NestedBytes, ShortIsSmall
<1>3. PICK k \in 0..Len(subs) :
          i = Len(Encodings(subs)[k]) + 1 /\ nested = First(subs, k)
    BY <1>1 DEF Inv, Nesting
<1>4. k = Len(subs)
    <2>1. SUFFICES ASSUME k # Len(subs) PROVE FALSE
        OBVIOUS
    <2> DEFINE m == k + 1
    <2>2. m \in 1..Len(subs) /\ m \in 0..Len(subs) /\ m - 1 = k
        BY <1>2, <1>3, <2>1
    <2> HIDE DEF m, bytes
    <2>3. StandsAt(subs, m, i)
        BY <1>3, <2>2 DEF StandsAt
    <2>4. i \in 1..Len(bytes) /\ At(bytes, i) \notin {PAD, END}
        BY <1>2, <2>2, <2>3, Turn
    <2>5. i <= HeaderLength + Len(Received)
        <3>1. datagram \in Datagrams
            BY DEF Inv, TypeOK
        <3>2. Received \in Seq(Byte)
            BY <3>1, ReceivedBytes
        <3>3. Len(Received) \in Nat /\ Len(bytes) \in Nat
            BY <1>2, <3>2
        <3> QED
            BY <1>2, <2>4, <3>3 DEF HeaderLength
    <2> QED
        BY <1>1, <2>4, <2>5 DEF InNested, bytes
<1>5. nested = subs
    <2>1. subs \in Seq(OptionSet)
        BY <1>2, ShortIsSmall
    <2> QED
        BY <1>3, <1>4, <2>1, FirstGrows
<1> QED
    BY <1>5

(***************************************************************************)
(* The map is what it was before the second loop.                          *)
(***************************************************************************)
LEMMA EndNestedKeeps ==
    ASSUME Inv, EndNested
    PROVE  Inv'
<1>1. /\ stage = "nested" /\ stage' = "parsed"
      /\ UNCHANGED <<datagram, i, options, nested, packet>>
    BY DEF EndNested
<1>2. NestedAsSent'
    BY <1>1, NestedEnds DEF NestedAsSent
<1>3. TypeOK' /\ Kept'
    BY <1>1 DEF Inv, TypeOK, Kept, Stages
<1>4. Walked'
    BY <1>1 DEF Inv, Walked
<1> QED
    BY <1>1, <1>2, <1>3, <1>4
       DEF Inv, InFront, HasNested, Walking, Unread, Nesting, Mapped, Written, Sent

(***************************************************************************)
(* A thread that has lost its way has nothing to keep but its types.       *)
(***************************************************************************)
LEMMA LoseNestedKeeps ==
    ASSUME Inv, LoseNested
    PROVE  Inv'
<1>1. /\ stage' = "lost" /\ UNCHANGED <<datagram, i, options, nested, packet>>
    BY DEF LoseNested
<1>2. TypeOK' /\ Kept'
    BY <1>1 DEF Inv, TypeOK, Kept, Stages
<1> QED
    BY <1>1, <1>2
       DEF Inv, InFront, HasNested, Walking, Walked, Unread, Nesting, NestedAsSent,
           Mapped, Written, Sent

(***************************************************************************)
(* The handlers leave a map that can be written, with END in it.           *)
(***************************************************************************)
LEMMA HandleKeeps ==
    ASSUME Inv, Handle
    PROVE  Inv'
<1>1. /\ stage = "parsed" /\ stage' = "handled"
      /\ UNCHANGED <<datagram, i, nested, packet>>
    BY DEF Handle
<1>2. PICK a \in Answers :
          options' = [n \in DOMAIN options \cup DOMAIN a |->
                         IF n \in DOMAIN a THEN a[n] ELSE options[n]]
    BY DEF Handle
<1>3. /\ DOMAIN a \subseteq Byte \ {PAD} /\ END \in DOMAIN a /\ a[END] = <<>>
      /\ \A n \in DOMAIN a : a[n] \in Seq(Byte) /\ Len(a[n]) < 256
    <2>1. \A n \in DOMAIN a : Len(a[n]) \in Byte => Len(a[n]) < 256
        BY DEF Byte
    <2> QED
        BY <2>1, AnswersAssumption
<1>4. ASSUME NEW n \in DOMAIN options
      PROVE  /\ n \in Byte
             /\ options[n] \in Seq(Byte) /\ Len(options[n]) < 256
    BY DEF Inv, TypeOK, Kept
<1>5. /\ DOMAIN options' = DOMAIN options \cup DOMAIN a
      /\ \A n \in DOMAIN a : options'[n] = a[n]
      /\ \A n \in DOMAIN options \ DOMAIN a : options'[n] = options[n]
    BY <1>2
<1>6. Writable(options') /\ END \in DOMAIN options' /\ options'[END] = <<>>
    <2>1. ASSUME NEW n \in DOMAIN options'
          PROVE  /\ n \in Byte
                 /\ options'[n] \in Seq(Byte) /\ Len(options'[n]) < 256
        <3>1. CASE n \in DOMAIN a
            BY <1>3, <1>5, <3>1
        <3>2. CASE n \in DOMAIN options \ DOMAIN a
            BY <1>4, <1>5, <3>2
        <3> QED
            BY <1>5, <2>1, <3>1, <3>2
    <2> QED
        BY <1>3, <1>5, <2>1 DEF Writable
<1>7. TypeOK' /\ Kept'
    BY <1>1, <1>6 DEF Inv, TypeOK, Kept, Stages, Writable
<1>8. Mapped'
    BY <1>6 DEF Mapped, Writable
<1> QED
    BY <1>1, <1>7, <1>8
       DEF Inv, InFront, HasNested, Walking, Walked, Unread, Nesting,
           NestedAsSent, Written, Sent

-----------------------------------------------------------------------------
(***************************************************************************)
(* The options of a map in the order of their codes.                       *)
(***************************************************************************)

\* list[n] holds those with codes below n.
Lists(list, map) ==
    /\ list[0] = <<>>
    /\ \A n \in 1..(END + 1) :
           /\ n - 1 \in DOMAIN map =>
                  list[n] = Append(list[n - 1], [code |-> n - 1, value |-> map[n - 1]])
           /\ n - 1 \notin DOMAIN map => list[n] = list[n - 1]

(***************************************************************************)
(* Listed is what its loop computes.                                       *)
(***************************************************************************)
LEMMA ListedSteps ==
    ASSUME NEW map, Writable(map)
    PROVE  \E list : Lists(list, map) /\ Listed(map) = list[END + 1]
<1> DEFINE last == END + 1
           D == Seq(OptionSet)
           O(m) == [code |-> m, value |-> map[m]]
           Below(n) == {m \in DOMAIN map : m < n}
           Top(B) == CHOOSE m \in B : \A l \in B : l <= m
           Val(f, n) == IF Below(n) = {} THEN <<>>
                        ELSE Append(f[Top(Below(n))], O(Top(Below(n))))
           Is(f) == f = [n \in 0..last |-> Val(f, n)]
           step == [n \in 1..last |-> [s \in D |->
                       IF n - 1 \in DOMAIN map THEN Append(s, O(n - 1)) ELSE s]]
<1>1. last \in Nat /\ <<>> \in D
    BY DEF END
<1>2. ASSUME NEW m \in DOMAIN map, NEW s \in D
      PROVE  Append(s, O(m)) \in D
    <2>1. O(m) \in OptionSet
        BY DEF OptionSet, Writable
    <2> HIDE DEF O
    <2> QED
        BY <2>1, AppendProperties
<1>3. \A m \in DOMAIN map : m \in Nat
    BY DEF Writable, Byte
<1>4. Below(0) = {}
    BY <1>3
<1>5. ASSUME NEW n \in 1..last, n - 1 \in DOMAIN map
      PROVE  Below(n) # {} /\ Top(Below(n)) = n - 1
    <2>1. n - 1 \in Below(n) /\ \A l \in Below(n) : l <= n - 1
        BY <1>3, <1>5
    <2>2. ASSUME NEW m \in Below(n), \A l \in Below(n) : l <= m
          PROVE  m = n - 1
        <3>1. m \in Nat /\ n - 1 \in Nat /\ m <= n - 1 /\ n - 1 <= m
            BY <1>3, <1>5, <2>1, <2>2
        <3> QED
            BY <3>1
    <2> HIDE DEF Below
    <2> QED
        BY <2>1, <2>2
<1>6. ASSUME NEW n \in 1..last, n - 1 \notin DOMAIN map
      PROVE  Below(n) = Below(n - 1)
    <2>1. ASSUME NEW m \in DOMAIN map
          PROVE  m < n <=> m < n - 1
        <3>1. m \in Nat /\ m # n - 1
            BY <1>3, <1>6
        <3> QED
            BY <1>1, <3>1
    <2> QED
        BY <2>1
<1> HIDE DEF D, O, last, Below, Top
<1>7. Stepwise(step, last, D)
    BY <1>2 DEF Stepwise
<1>8. PICK f : Iterates(f, step, <<>>, last, D)
    <2> HIDE DEF step
    <2> QED
        BY <1>1, <1>7, IterationExists
<1>9. /\ f \in [0..last -> D] /\ f[0] = <<>>
      /\ \A n \in 1..last :
             f[n] = IF n - 1 \in DOMAIN map THEN Append(f[n - 1], O(n - 1)) ELSE f[n - 1]
    <2>1. f \in [0..last -> D] /\ f[0] = <<>>
        BY <1>8 DEF Iterates
    <2>2. ASSUME NEW n \in 1..last
          PROVE  f[n] = IF n - 1 \in DOMAIN map THEN Append(f[n - 1], O(n - 1))
                        ELSE f[n - 1]
        <3>1. n - 1 \in 0..last
            BY <1>1
        <3>2. f[n - 1] \in D
            BY <2>1, <3>1
        <3>3. f[n] = step[n][f[n - 1]]
            BY <1>8 DEF Iterates
        <3> QED
            BY <3>2, <3>3
    <2> QED
        BY <2>1, <2>2
<1> HIDE DEF step
<1> DEFINE S == {n \in 0..last : f[n] = Val(f, n)}
<1>10. 0 \in S
    BY <1>1, <1>4, <1>9
<1>11. ASSUME NEW n \in 1..last, n - 1 \in S
       PROVE  n \in S
    <2>1. n \in 0..last /\ f[n - 1] = Val(f, n - 1)
        BY <1>1, <1>11
    <2>2. CASE n - 1 \in DOMAIN map
        BY <1>5, <1>9, <2>1, <2>2
    <2>3. CASE n - 1 \notin DOMAIN map
        <3>1. Val(f, n) = Val(f, n - 1)
            BY <1>6, <2>3
        <3>2. f[n] = f[n - 1]
            BY <1>9, <2>3
        <3> QED
            BY <2>1, <3>1, <3>2
    <2> QED
        BY <2>2, <2>3
<1>12. Is(f)
    <2>1. \A n \in 0..last : n \in S
        <3> HIDE DEF S
        <3> QED
            BY <1>1, <1>10, <1>11, InductionUpTo
    <2>2. \A n \in 0..last : f[n] = Val(f, n)
        BY <2>1
    <2> HIDE DEF Val
    <2> QED
        BY <1>9, <2>2
<1>13. PICK g : Is(g) /\ Listed(map) = g[last]
    <2>1. Listed(map) = (CHOOSE g : Is(g))[last]
        BY DEF Listed, O, last, Below, Top
    <2>2. Is(CHOOSE g : Is(g))
        <3> HIDE DEF Is
        <3> QED
            BY <1>12
    <2> HIDE DEF Is
    <2> QED
        BY <2>1, <2>2
<1>14. ASSUME NEW n \in 0..last
       PROVE  g[n] = Val(g, n)
    <2> HIDE DEF Val
    <2> QED
        BY <1>13
<1>15. ASSUME NEW n \in 1..last
       PROVE  /\ n - 1 \in DOMAIN map => g[n] = Append(g[n - 1], O(n - 1))
              /\ n - 1 \notin DOMAIN map => g[n] = g[n - 1]
    <2>1. n \in 0..last /\ n - 1 \in 0..last
        BY <1>1
    <2>2. g[n] = Val(g, n) /\ g[n - 1] = Val(g, n - 1)
        BY <1>14, <2>1
    <2>3. CASE n - 1 \in DOMAIN map
        BY <1>5, <2>2, <2>3
    <2>4. CASE n - 1 \notin DOMAIN map
        <3>1. Val(g, n) = Val(g, n - 1)
            BY <1>6, <2>4
        <3> QED
            BY <2>2, <2>4, <3>1
    <2> QED
        BY <2>3, <2>4
<1>16. g[0] = <<>>
    <2>1. 0 \in 0..last
        BY <1>1
    <2> QED
        BY <1>4, <1>14, <2>1
<1>17. Lists(g, map)
    BY <1>15, <1>16 DEF Lists, O, last
<1> QED
    BY <1>13, <1>17 DEF last

(***************************************************************************)
(* A list stays small with one more option.                                *)
(***************************************************************************)
LEMMA AppendSmall ==
    ASSUME NEW list, Small(list), NEW o \in OptionSet, Len(o.value) < 256
    PROVE  /\ Small(Append(list, o)) /\ Len(Append(list, o)) = Len(list) + 1
           /\ Append(list, o)[Len(list) + 1] = o
           /\ \A k \in 1..Len(list) : Append(list, o)[k] = list[k]
<1>1. list \in Seq(OptionSet) /\ Len(list) \in Nat
    BY DEF Small
<1> DEFINE more == Append(list, o)
<1>2. /\ more \in Seq(OptionSet) /\ Len(more) = Len(list) + 1
      /\ more[Len(list) + 1] = o
      /\ \A k \in 1..Len(list) : more[k] = list[k]
    BY <1>1, AppendProperties
<1> HIDE DEF more
<1>3. ASSUME NEW k \in 1..Len(more)
      PROVE  Len(more[k].value) < 256
    <2>1. k \in 1..Len(list) \/ k = Len(list) + 1
        BY <1>1, <1>2
    <2>2. CASE k \in 1..Len(list)
        BY <1>2, <2>2 DEF Small
    <2>3. CASE k = Len(list) + 1
        BY <1>2, <2>3
    <2> QED
        BY <2>1, <2>2, <2>3
<1>4. Small(more)
    BY <1>2, <1>3 DEF Small
<1> QED
    BY <1>2, <1>4 DEF more

(***************************************************************************)
(* The list holds options of the map, and they can be written.             *)
(***************************************************************************)
LEMMA ListedSmall ==
    ASSUME NEW map, Writable(map)
    PROVE  /\ Small(Listed(map))
           /\ \A k \in 1..Len(Listed(map)) : Listed(map)[k].code \in DOMAIN map
<1>1. PICK list : Lists(list, map) /\ Listed(map) = list[END + 1]
    BY ListedSteps
<1> DEFINE last == END + 1
           Good(l) == Small(l) /\ \A k \in 1..Len(l) : l[k].code \in DOMAIN map
           S == {n \in 0..last : Good(list[n])}
<1>2. last \in Nat
    BY DEF END
<1>3. Good(<<>>)
    <2>1. <<>> \in Seq(OptionSet) /\ \A k \in 1..Len(<<>>) : FALSE
        OBVIOUS
    <2> QED
        BY <2>1 DEF Small
<1> HIDE DEF last
<1>4. ASSUME NEW n \in 1..last, n - 1 \in S
      PROVE  n \in S
    <2>1. Good(list[n - 1]) /\ n \in 0..last
        BY <1>2, <1>4
    <2>2. CASE n - 1 \notin DOMAIN map
        <3>1. list[n] = list[n - 1]
            BY <1>1, <2>2 DEF Lists, last
        <3> HIDE DEF Good
        <3> QED
            BY <2>1, <3>1
    <2>3. CASE n - 1 \in DOMAIN map
        <3> DEFINE o == [code |-> n - 1, value |-> map[n - 1]]
                   a == list[n - 1]
                   b == Append(a, o)
        <3>1. list[n] = b
            BY <1>1, <2>3 DEF Lists, last
        <3>2. n - 1 \in Byte /\ map[n - 1] \in Seq(Byte) /\ Len(map[n - 1]) < 256
            BY <2>3 DEF Writable
        <3>3. o \in OptionSet /\ Len(o.value) < 256 /\ o.code \in DOMAIN map
            BY <2>3, <3>2 DEF OptionSet
        <3>4. Good(a) /\ Len(a) \in Nat
            BY <2>1 DEF Small
        <3> HIDE DEF o, a
        <3>5. /\ Small(b) /\ Len(b) = Len(a) + 1 /\ b[Len(a) + 1] = o
              /\ \A k \in 1..Len(a) : b[k] = a[k]
            BY <3>3, <3>4, AppendSmall
        <3> HIDE DEF b
        <3>6. ASSUME NEW k \in 1..Len(b)
              PROVE  b[k].code \in DOMAIN map
            <4>1. k \in 1..Len(a) \/ k = Len(a) + 1
                BY <3>4, <3>5
            <4> QED
                BY <3>3, <3>4, <3>5, <4>1
        <3> QED
            BY <2>1, <3>1, <3>5, <3>6
    <2> QED
        BY <2>2, <2>3
<1>5. 0 \in S
    BY <1>1, <1>2, <1>3 DEF Lists
<1>6. last \in S
    <2> HIDE DEF S
    <2> QED
        BY <1>2, <1>4, <1>5, InductionUpTo
<1> QED
    BY <1>1, <1>6 DEF last

(***************************************************************************)
(* END comes last: it has the greatest code.                               *)
(***************************************************************************)
LEMMA ListedEnd ==
    ASSUME NEW map, Writable(map), END \in DOMAIN map, map[END] = <<>>
    PROVE  LET others == RemoveOptions(map, {END})
           IN  /\ Writable(others) /\ END \notin DOMAIN others
               /\ Listed(map) = Append(Listed(others), [code |-> END, value |-> <<>>])
<1> DEFINE others == RemoveOptions(map, {END})
           last == END + 1
<1>1. /\ DOMAIN others = DOMAIN map \ {END}
      /\ \A n \in DOMAIN others : others[n] = map[n]
    BY DEF RemoveOptions
<1> HIDE DEF others
<1>2. Writable(others)
    BY <1>1 DEF Writable
<1>3. PICK list : Lists(list, map) /\ Listed(map) = list[last]
    BY ListedSteps
<1>4. PICK less : Lists(less, others) /\ Listed(others) = less[last]
    BY <1>2, ListedSteps
<1> DEFINE S == {n \in 0..END : list[n] = less[n]}
<1>5. END \in Nat /\ last - 1 = END /\ last \in 1..last
    BY DEF END
<1>6. ASSUME NEW n \in 1..END, n - 1 \in S
      PROVE  n \in S
    <2>1. n \in 1..last /\ n \in 0..END /\ n - 1 # END
        BY <1>5
    <2>2. n - 1 \in DOMAIN map <=> n - 1 \in DOMAIN others
        BY <1>1, <2>1
    <2>3. list[n - 1] = less[n - 1]
        BY <1>6
    <2>4. list[n] = less[n]
        BY <1>1, <1>3, <1>4, <2>1, <2>2, <2>3 DEF Lists
    <2> QED
        BY <2>1, <2>4
<1>7. 0 \in S
    BY <1>3, <1>4, <1>5 DEF Lists
<1>8. END \in S
    <2> HIDE DEF S
    <2> QED
        BY <1>5, <1>6, <1>7, InductionUpTo
<1>9. list[last - 1] = less[last - 1]
    BY <1>5, <1>8
<1>10. list[last] = Append(list[last - 1], [code |-> last - 1, value |-> map[last - 1]])
    BY <1>3, <1>5 DEF Lists
<1>11. less[last] = less[last - 1]
    BY <1>1, <1>4, <1>5 DEF Lists
<1>12. Listed(map) = Append(Listed(others), [code |-> END, value |-> <<>>])
    BY <1>3, <1>4, <1>5, <1>9, <1>10, <1>11
<1> QED
    BY <1>1, <1>2, <1>12 DEF others

-----------------------------------------------------------------------------
(***************************************************************************)
(* The bytes of the reply.                                                 *)
(***************************************************************************)

(***************************************************************************)
(* One more option in the list puts its bytes after the others.            *)
(***************************************************************************)
LEMMA EncodeAppend ==
    ASSUME NEW list, Small(list), NEW o \in OptionSet, Len(o.value) < 256
    PROVE  Encode(Append(list, o)) = Encode(list) \o Encoded(o)
<1> DEFINE more == Append(list, o)
           n == Len(list)
           e == Encodings(list)
           f == Encodings(more)
           S == {k \in 0..n : f[k] = e[k]}
<1>1. /\ Small(more) /\ Len(more) = n + 1 /\ more[n + 1] = o
      /\ \A k \in 1..n : more[k] = list[k]
    BY AppendSmall
<1>2. n \in Nat
    BY DEF Small
<1> HIDE DEF more
<1>3. /\ e[0] = <<>> /\ \A k \in 1..n : e[k] = e[k - 1] \o Encoded(list[k])
      /\ f[0] = <<>> /\ \A k \in 1..(n + 1) : f[k] = f[k - 1] \o Encoded(more[k])
    BY <1>1, EncodingsStep
<1> HIDE DEF n, e, f
<1>4. ASSUME NEW k \in 1..n, k - 1 \in S
      PROVE  k \in S
    <2>1. k \in 0..n /\ k \in 1..(n + 1)
        BY <1>2
    <2>2. f[k - 1] = e[k - 1]
        BY <1>4
    <2>3. f[k] = e[k]
        BY <1>1, <1>3, <2>1, <2>2
    <2> QED
        BY <2>1, <2>3
<1>5. 0 \in S
    BY <1>2, <1>3
<1>6. n \in S
    <2> HIDE DEF S
    <2> QED
        BY <1>2, <1>4, <1>5, InductionUpTo
<1>7. PICK m \in 1..(n + 1) : m = n + 1
    BY <1>2
<1>8. f[m] = f[m - 1] \o Encoded(more[m]) /\ m - 1 = n /\ f[n] = e[n]
    <2>1. f[n] = e[n]
        BY <1>6
    <2>2. m - 1 = n
        BY <1>2, <1>7
    <2>3. f[m] = f[m - 1] \o Encoded(more[m])
        BY <1>3, <1>7, Zenon
    <2> QED
        BY <2>1, <2>2, <2>3
<1>9. f[n + 1] = e[n] \o Encoded(o)
    BY <1>1, <1>7, <1>8
<1> QED
    BY <1>1, <1>9 DEF Encode, e, f, n, more

(***************************************************************************)
(* Writing the packet drops options and leaves END in the map.             *)
(***************************************************************************)
LEMMA WritePacketKeeps ==
    ASSUME Inv, WritePacket
    PROVE  Inv'
<1>1. /\ stage = "handled" /\ stage' = "written" /\ options' = Returned(options)
      /\ packet' = Encode(Listed(options')) \o <<0, 0>>
      /\ UNCHANGED <<datagram, i, nested>>
    BY DEF WritePacket
<1>2. Writable(options) /\ END \in DOMAIN options /\ options[END] = <<>>
    BY <1>1 DEF Inv, Mapped
<1>3. /\ DOMAIN options' = DOMAIN options \ {50, 57, 61, 93, 94}
      /\ \A n \in DOMAIN options' : options'[n] = options[n]
    BY <1>1 DEF Returned, RemoveOptions
<1>4. Writable(options') /\ END \in DOMAIN options' /\ options'[END] = <<>>
    BY <1>2, <1>3 DEF Writable, END
<1>5. packet' \in Seq(Byte)
    <2> DEFINE list == Listed(options')
               b == Encode(list)
    <2>1. Small(list)
        BY <1>4, ListedSmall
    <2>2. 0 \in 0..Len(list)
        BY <2>1 DEF Small
    <2>3. b \in Seq(Byte)
        BY <2>1, <2>2, EncodeBegins
    <2>4. <<0, 0>> \in Seq(Byte)
        BY DEF Byte
    <2> HIDE DEF b
    <2>5. b \o <<0, 0>> \in Seq(Byte)
        BY <2>3, <2>4, BeginsWithFirst
    <2> QED
        BY <1>1, <2>5 DEF b
<1>6. TypeOK' /\ Kept'
    BY <1>1, <1>4, <1>5 DEF Inv, TypeOK, Kept, Stages, Writable
<1>7. Mapped'
    BY <1>4 DEF Mapped, Writable
<1>8. Written'
    BY <1>1 DEF Written
<1> QED
    BY <1>1, <1>6, <1>7, <1>8
       DEF Inv, InFront, HasNested, Walking, Walked, Unread, Nesting,
           NestedAsSent, Sent

(***************************************************************************)
(* The last byte 0xff of the packet is the code of END: what follows it is *)
(* its length and the zeroes.                                              *)
(***************************************************************************)
LEMMA StripKeeps ==
    ASSUME Inv, Strip
    PROVE  Inv'
<1> DEFINE others == RemoveOptions(options, {END})
           list == Listed(others)
           b == Encode(list)
           o == [code |-> END, value |-> <<>>]
           x == Encoded(o)
           zeroes == <<0, 0>>
           e == Len(b)
<1>1. /\ stage = "written" /\ stage' = "sent" /\ packet' = StripPacket(packet)
      /\ UNCHANGED <<datagram, i, options, nested>>
    BY DEF Strip
<1>2. /\ Writable(options) /\ END \in DOMAIN options /\ options[END] = <<>>
      /\ packet = Encode(Listed(options)) \o zeroes
    BY <1>1 DEF Inv, Mapped, Written
<1>3. Writable(others) /\ Listed(options) = Append(list, o)
    BY <1>2, ListedEnd
<1>4. Small(list)
    BY <1>3, ListedSmall
<1>5. b \in Seq(Byte)
    <2>1. 0 \in 0..Len(list)
        BY <1>4 DEF Small
    <2> QED
        BY <1>4, <2>1, EncodeBegins
<1>6. o \in OptionSet /\ Len(o.value) = 0 /\ END \in Byte
    BY DEF OptionSet, END, Byte
<1>7. x \in Seq(Byte) /\ Len(x) = 2 /\ x[1] = END /\ x[2] = 0
    <2>1. Len(o.value) < 256
        BY <1>6
    <2> HIDE DEF x
    <2>2. /\ x \in Seq(Byte) /\ Len(x) = Len(o.value) + 2
          /\ x[1] = o.code /\ x[2] = Len(o.value)
        BY <1>6, <2>1, EncodedFields DEF x
    <2> QED
        BY <1>6, <2>2
<1>8. packet = (b \o x) \o zeroes
    <2>1. Len(o.value) < 256
        BY <1>6
    <2>2. Encode(Append(list, o)) = b \o x
        BY <1>4, <1>6, <2>1, EncodeAppend
    <2> QED
        BY <1>2, <1>3, <2>2
<1>9. zeroes \in Seq(Byte) /\ Len(zeroes) = 2 /\ zeroes[1] = 0 /\ zeroes[2] = 0
    BY DEF Byte
<1> DEFINE both == b \o x
<1> HIDE DEF b, x, zeroes
<1>10. /\ both \in Seq(Byte) /\ Len(both) = e + 2
       /\ \A p \in 1..e : both[p] = b[p]
       /\ both[e + 1] = END /\ both[e + 2] = 0
    <2>1. /\ both \in Seq(Byte) /\ Len(both) = e + Len(x) /\ Begins(both, b)
          /\ \A j \in 1..Len(x) : both[e + j] = x[j]
        BY <1>5, <1>7, BeginsWithFirst
    <2>2. 1 \in 1..Len(x) /\ 2 \in 1..Len(x)
        BY <1>7
    <2>3. both[e + 1] = END /\ both[e + 2] = 0
        BY <1>7, <2>1, <2>2
    <2> QED
        BY <1>7, <2>1, <2>3 DEF Begins
<1> HIDE DEF both
<1>11. e \in Nat
    BY <1>5
<1>12. /\ packet \in Seq(Byte) /\ Len(packet) = e + 2 + 2
       /\ Begins(packet, both)
       /\ packet[e + 2 + 1] = 0 /\ packet[e + 2 + 2] = 0
    <2>1. /\ packet \in Seq(Byte) /\ Len(packet) = Len(both) + Len(zeroes)
          /\ Begins(packet, both)
          /\ \A j \in 1..Len(zeroes) : packet[Len(both) + j] = zeroes[j]
        BY <1>8, <1>9, <1>10, BeginsWithFirst DEF both
    <2>2. 1 \in 1..Len(zeroes) /\ 2 \in 1..Len(zeroes)
        BY <1>9
    <2>3. packet[Len(both) + 1] = 0 /\ packet[Len(both) + 2] = 0
        BY <1>9, <2>1, <2>2
    <2> QED
        BY <1>9, <1>10, <2>1, <2>3
<1> HIDE DEF e
<1>13. /\ \A p \in 1..e : packet[p] = b[p]
       /\ packet[e + 1] = END /\ packet[e + 2] = 0
    <2>1. \A p \in 1..(e + 2) : packet[p] = both[p]
        BY <1>10, <1>12 DEF Begins
    <2>2. 1..e \subseteq 1..(e + 2) /\ e + 1 \in 1..(e + 2) /\ e + 2 \in 1..(e + 2)
        BY <1>11
    <2> QED
        BY <1>10, <2>1, <2>2
<1>14. e + 1 \in Ends(packet) /\ \A q \in Ends(packet) : q <= e + 1
    <2>1. e + 1 \in 1..Len(packet)
        BY <1>11, <1>12
    <2>2. ASSUME NEW q \in Ends(packet)
          PROVE  q <= e + 1
        <3>1. q \in 1..(e + 2 + 2) /\ packet[q] = END
            BY <1>12 DEF Ends
        <3>2. q # e + 2 /\ q # e + 2 + 1 /\ q # e + 2 + 2
            BY <1>12, <1>13, <3>1 DEF END
        <3> QED
            BY <1>11, <3>1, <3>2
    <2> QED
        BY <1>13, <2>1, <2>2 DEF Ends
<1>15. StripPacket(packet) = SubSeq(packet, 1, e + 1)
    <2> DEFINE Last(p) == \A q \in Ends(packet) : q <= p
    <2>1. ASSUME NEW p \in Ends(packet), Last(p)
          PROVE  p = e + 1
        <3>1. p <= e + 1 /\ e + 1 <= p /\ p \in Nat
            BY <1>14, <2>1 DEF Ends
        <3> QED
            BY <1>11, <3>1
    <2>2. Last(e + 1)
        BY <1>14
    <2>3. StripPacket(packet) = SubSeq(packet, 1, CHOOSE p \in Ends(packet) : Last(p))
        BY DEF StripPacket
    <2> HIDE DEF Last
    <2>4. (CHOOSE p \in Ends(packet) : Last(p)) = e + 1
        BY <1>14, <2>1, <2>2
    <2> QED
        BY <2>3, <2>4
<1> DEFINE cut == SubSeq(packet, 1, e + 1)
           end == Append(b, END)
<1>16. cut \in Seq(Byte) /\ cut = end
    <2>1. /\ cut \in Seq(Byte) /\ Len(cut) = e + 1
          /\ \A p \in 1..(e + 1) : cut[p] = packet[p]
        BY <1>11, <1>12
    <2>2. /\ end \in Seq(Byte) /\ Len(end) = e + 1 /\ end[e + 1] = END
          /\ \A p \in 1..e : end[p] = b[p]
        BY <1>5, <1>6, AppendProperties DEF e
    <2> HIDE DEF cut, end
    <2>3. ASSUME NEW p \in 1..(e + 1)
          PROVE  cut[p] = end[p]
        <3>1. p \in 1..e \/ p = e + 1
            BY <1>11
        <3> QED
            BY <1>13, <2>1, <2>2, <3>1
    <2> QED
        BY <2>1, <2>2, <2>3, SeqEqual
<1>17. TypeOK' /\ Kept'
    BY <1>1, <1>15, <1>16 DEF Inv, TypeOK, Kept, Stages
<1>18. Mapped'
    BY <1>1, <1>2 DEF Mapped
<1>19. Sent'
    BY <1>1, <1>15, <1>16 DEF Sent, b, RemoveOptions
<1> QED
    BY <1>1, <1>17, <1>18, <1>19
       DEF Inv, InFront, HasNested, Walking, Walked, Unread, Nesting,
           NestedAsSent, Written

-----------------------------------------------------------------------------
(***************************************************************************)
(* The reader of the reply.                                                *)
(***************************************************************************)

\* What the reader has after k turns; behind the last option it stays.
ReaderAt(list, k) ==
    LET m == IF k <= Len(list) THEN k ELSE Len(list)
    IN  [p |-> Len(Encodings(list)[m]) + 1, found |-> First(list, m)]

(***************************************************************************)
(* Each turn of the reader takes it to the next option, or nowhere from    *)
(* END.                                                                    *)
(***************************************************************************)
LEMMA ReaderMoves ==
    ASSUME NEW list, Small(list), NEW k \in Nat \ {0},
           \A j \in 1..Len(list) : list[j].code \notin {PAD, END}
    PROVE  LET bytes == Append(Encode(list), END)
           IN  ReaderTurn(bytes, ReaderAt(list, k - 1)) = ReaderAt(list, k)
<1> DEFINE n == Len(list)
           e == Encodings(list)
           b == Encode(list)
           bytes == Append(b, END)
           r == ReaderAt(list, k - 1)
<1>1. n \in Nat /\ list \in Seq(OptionSet) /\ n \in 0..n
    BY DEF Small
<1>2. b \in Seq(Byte) /\ Len(b) \in Nat /\ END \in Byte
    <2>1. b \in Seq(Byte)
        BY <1>1, EncodeBegins
    <2> HIDE DEF b
    <2> QED
        BY <2>1 DEF END, Byte
<1> HIDE DEF b, e
<1>3. /\ bytes \in Seq(Byte) /\ Len(bytes) = Len(b) + 1 /\ bytes[Len(b) + 1] = END
      /\ \A p \in 1..Len(b) : bytes[p] = b[p]
    BY <1>2, AppendProperties
<1> HIDE DEF bytes
<1>4. Begins(bytes, b)
    BY <1>2, <1>3 DEF Begins
<1>5. CASE k <= n
    <2>1. k \in 1..n /\ k \in 0..n /\ k - 1 \in 0..n /\ k - 1 <= n
        BY <1>1, <1>5
    <2>2. r = [p |-> Len(e[k - 1]) + 1, found |-> First(list, k - 1)]
        BY <2>1 DEF ReaderAt, e
    <2>3. ReaderAt(list, k) = [p |-> Len(e[k]) + 1, found |-> First(list, k)]
        BY <1>5 DEF ReaderAt, e
    <2>4. StandsAt(list, k, r.p)
        BY <2>2 DEF StandsAt, e
    <2>5. Begins(bytes, e[k])
        <3>1. e[k] \in Seq(Byte) /\ Begins(b, e[k])
            BY <2>1, EncodingsInside, EncodeBegins DEF e, b
        <3> QED
            BY <1>2, <1>3, <1>4, <3>1, BeginsTransitive
    <2> DEFINE p == r.p
               l == Len(list[k].value)
    <2>6. /\ p \in 1..Len(bytes) /\ bytes[p] = list[k].code
          /\ At(bytes, p + 1) = l /\ OptionAt(bytes, p) = list[k]
          /\ p + 1 + l <= Len(bytes) /\ l \in Nat
          /\ Len(e[k]) + 1 = p + 2 + l
        <3> HIDE DEF r
        <3> QED
            BY <1>3, <2>1, <2>4, <2>5, ReadBack DEF e
    <2>7. bytes[p] \notin {PAD, END}
        BY <2>1, <2>6
    <2>8. Append(First(list, k - 1), list[k]) = First(list, k)
        BY <1>1, <2>1, FirstGrows
    <2>9. r.found = First(list, k - 1)
        BY <2>2
    <2> HIDE DEF r, l, n
    <2>10. p + 1 + l + 1 = Len(e[k]) + 1
        BY <1>3, <2>6
    <2>11. ReaderTurn(bytes, r) =
               [p |-> p + 1 + l + 1, found |-> Append(r.found, OptionAt(bytes, p))]
        BY <2>6, <2>7 DEF ReaderTurn
    <2>12. ReaderTurn(bytes, r) = ReaderAt(list, k)
        BY <2>3, <2>6, <2>8, <2>9, <2>10, <2>11
    <2> QED
        BY <2>12 DEF r, bytes, b
<1>6. CASE ~(k <= n)
    <2>1. k - 1 <= n => k - 1 = n
        BY <1>1, <1>6
    <2>2. r = [p |-> Len(e[n]) + 1, found |-> First(list, n)]
        BY <2>1 DEF ReaderAt, e
    <2>3. ReaderAt(list, k) = r
        BY <1>6, <2>2 DEF ReaderAt, e
    <2>4. r.p = Len(b) + 1 /\ bytes[r.p] = END
        BY <1>3, <2>2 DEF Encode, e, b
    <2>5. bytes[r.p] # PAD /\ bytes[r.p] \in {PAD, END}
        BY <2>4 DEF PAD, END
    <2> HIDE DEF r
    <2>6. ReaderTurn(bytes, r) = r
        BY <2>5 DEF ReaderTurn
    <2> QED
        BY <2>3, <2>6 DEF r, bytes, b
<1> QED
    BY <1>5, <1>6

(***************************************************************************)
(* The reader finds all the options that were written and nothing else.    *)
(***************************************************************************)
LEMMA ReaderReads ==
    ASSUME NEW list, Small(list),
           \A j \in 1..Len(list) : list[j].code \notin {PAD, END}
    PROVE  ReadFrom(Append(Encode(list), END)) = list
<1> DEFINE bytes == Append(Encode(list), END)
           t == Len(bytes)
           n == Len(list)
           Is(f) == f = [k \in 0..t |-> IF k = 0 THEN [p |-> 1, found |-> <<>>]
                                        ELSE ReaderTurn(bytes, f[k - 1])]
           g == [k \in 0..t |-> ReaderAt(list, k)]
<1>1. n \in Nat /\ list \in Seq(OptionSet)
    BY DEF Small
<1>2. t \in Nat /\ n <= t
    <2> DEFINE b == Encode(list)
    <2>1. n \in 0..n
        BY <1>1
    <2>2. 2 * n <= Len(Encodings(list)[n]) /\ b \in Seq(Byte)
        BY <2>1, EncodingsInside, EncodeBegins
    <2>3. 2 * n <= Len(b)
        BY <2>2 DEF Encode
    <2> HIDE DEF b
    <2>4. Len(b) \in Nat
        BY <2>2
    <2>5. t = Len(b) + 1
        <3>1. END \in Byte
            BY DEF END, Byte
        <3> QED
            BY <2>2, <3>1, AppendProperties DEF b
    <2> HIDE DEF n, t
    <2> QED
        BY <1>1, <2>3, <2>4, <2>5
<1>3. ReaderAt(list, 0) = [p |-> 1, found |-> <<>>]
    <2>1. 0 <= n /\ 0 \in 0..n
        BY <1>1
    <2>2. Encodings(list)[0] = <<>> /\ First(list, 0) = <<>>
        BY <1>1, <2>1, EncodingsStep, FirstGrows
    <2>3. Len(Encodings(list)[0]) = 0
        BY <2>2
    <2> QED
        BY <2>1, <2>2, <2>3 DEF ReaderAt
<1>4. ASSUME NEW k \in 1..t
      PROVE  ReaderTurn(bytes, ReaderAt(list, k - 1)) = ReaderAt(list, k)
    <2>1. k \in Nat \ {0}
        BY <1>2
    <2> QED
        BY <2>1, ReaderMoves
<1> HIDE DEF bytes, t
<1>5. Is(g)
    <2>1. ASSUME NEW k \in 0..t
          PROVE  g[k] = IF k = 0 THEN [p |-> 1, found |-> <<>>]
                        ELSE ReaderTurn(bytes, g[k - 1])
        <3>1. CASE k = 0
            BY <1>3, <3>1
        <3>2. CASE k # 0
            <4>1. k \in 1..t /\ k - 1 \in 0..t
                BY <1>2, <3>2
            <4>2. g[k] = ReaderAt(list, k) /\ g[k - 1] = ReaderAt(list, k - 1)
                BY <4>1
            <4> QED
                BY <1>4, <3>2, <4>1, <4>2
        <3> QED
            BY <3>1, <3>2
    <2> QED
        BY <2>1, Zenon
<1> DEFINE Still(f, k) == ReaderTurn(bytes, f[k]) = f[k]
<1>6. PICK f : Is(f) /\ ReadFrom(bytes) = f[CHOOSE k \in 0..t : Still(f, k)].found
    <2> DEFINE h == CHOOSE f : Is(f)
    <2>1. ReadFrom(bytes) = h[CHOOSE k \in 0..t : Still(h, k)].found
        BY DEF ReadFrom, t
    <2>2. Is(h)
        <3> HIDE DEF Is
        <3> QED
            BY <1>5
    <2> HIDE DEF Is, h, Still
    <2> QED
        BY <2>1, <2>2
<1> DEFINE S == {k \in 0..t : f[k] = ReaderAt(list, k)}
<1>7. 0 \in S
    <2>1. 0 \in 0..t
        BY <1>2
    <2> QED
        BY <1>3, <1>6, <2>1
<1>8. ASSUME NEW k \in 1..t, k - 1 \in S
      PROVE  k \in S
    <2>1. k \in 0..t /\ k # 0
        BY <1>2
    <2>2. f[k] = ReaderTurn(bytes, f[k - 1])
        BY <1>6, <2>1, Zenon
    <2>3. f[k - 1] = ReaderAt(list, k - 1)
        BY <1>8
    <2>4. f[k] = ReaderAt(list, k)
        BY <1>4, <2>2, <2>3
    <2> QED
        BY <2>1, <2>4
<1>9. ASSUME NEW k \in 0..t
      PROVE  f[k] = ReaderAt(list, k)
    <2>1. \A m \in 0..t : m \in S
        <3> HIDE DEF S
        <3> QED
            BY <1>2, <1>7, <1>8, InductionUpTo
    <2> QED
        BY <2>1
<1>10. ASSUME NEW k \in 0..t
       PROVE  Still(f, k) <=> k >= n
    <2> DEFINE m == k + 1
    <2>1. m \in Nat \ {0} /\ m - 1 = k /\ k \in Nat
        BY <1>2
    <2> HIDE DEF m
    <2>2. ReaderTurn(bytes, f[k]) = ReaderAt(list, m)
        BY <1>9, <2>1, ReaderMoves DEF bytes
    <2>3. CASE k >= n
        <3>1. k <= n => k = n
            BY <1>1, <2>1, <2>3
        <3>2. m > n
            BY <1>1, <2>1, <2>3
        <3>3. ReaderAt(list, m) = ReaderAt(list, k)
            BY <1>1, <2>1, <3>1, <3>2 DEF ReaderAt
        <3> QED
            BY <1>9, <2>2, <2>3, <3>3
    <2>4. CASE k < n
        <3>1. m \in 1..n /\ m <= n /\ k <= n /\ k \in 0..n
            BY <1>1, <2>1, <2>4
        <3> DEFINE before == Len(Encodings(list)[k])
                   after == Len(Encodings(list)[m])
                   v == Len(list[m].value)
        <3>2. before \in Nat /\ v \in Nat /\ after = before + 2 + v
            BY <2>1, <3>1, EncodingsInside, EncodingsGrow
        <3>3. ReaderAt(list, k).p = before + 1 /\ ReaderAt(list, m).p = after + 1
            BY <3>1 DEF ReaderAt
        <3> HIDE DEF before, after, v
        <3>4. ReaderAt(list, m) # ReaderAt(list, k)
            BY <3>2, <3>3
        <3> QED
            BY <1>1, <1>9, <2>1, <2>2, <2>4, <3>4
    <2> QED
        BY <1>1, <2>1, <2>3, <2>4
<1>11. PICK k \in 0..t : k >= n /\ ReadFrom(bytes) = f[k].found
    <2> DEFINE k == CHOOSE k \in 0..t : Still(f, k)
    <2>1. n \in 0..t /\ n >= n
        BY <1>1, <1>2
    <2>2. k \in 0..t /\ Still(f, k)
        <3>1. Still(f, n)
            BY <1>10, <2>1
        <3> HIDE DEF Still
        <3> QED
            BY <2>1, <3>1
    <2> HIDE DEF Still, k
    <2> QED
        BY <1>6, <1>10, <2>2 DEF k
<1>12. f[k].found = First(list, n)
    <2>1. k <= n => k = n
        BY <1>1, <1>2, <1>11
    <2>2. ReaderAt(list, k).found = First(list, n)
        BY <2>1 DEF ReaderAt
    <2> QED
        BY <1>9, <2>2
<1>13. First(list, n) = list
    <2>1. 0 \in 0..n
        BY <1>1
    <2> QED
        BY <1>1, <2>1, FirstGrows
<1> QED
    BY <1>11, <1>12, <1>13 DEF bytes

-----------------------------------------------------------------------------
(***************************************************************************)
(* The theorems.                                                           *)
(***************************************************************************)

(***************************************************************************)
(* Before the loops nothing was read.                                      *)
(***************************************************************************)
LEMMA InitInv ==
    ASSUME Init
    PROVE  Inv
<1> DEFINE sent == datagram.options
<1>1. /\ stage = "walk" /\ datagram \in Datagrams
      /\ i = 1 + Len(Cookie) /\ Len(Cookie) = 4
      /\ options = [n \in {} |-> <<>>] /\ nested = <<>> /\ packet = <<>>
    BY DEF Init, NoOptions, Cookie
<1>2. Small(sent)
    <2>1. Listable(sent)
        BY <1>1, DatagramsAssumption
    <2> QED
        BY <2>1, ListableIsSmall
<1>3. 0 \in 0..Len(sent)
    BY <1>2 DEF Small
<1>4. i = Len(Encodings(sent)[0]) + 1 + Len(Cookie)
    <2>1. Encodings(sent)[0] = <<>>
        BY <1>2, EncodingsStep
    <2> QED
        BY <1>1, <2>1
<1>5. options = Collected(sent, 0)
    <2>1. {sent[j].code : j \in 1..0} = {}
        OBVIOUS
    <2>2. Collected(sent, 0) = [n \in {} |-> sent[LastPlace(sent, 0, n)].value]
        BY <2>1 DEF Collected
    <2> QED
        BY <1>1, <2>2
<1>6. Walking
    BY <1>3, <1>4, <1>5 DEF Walking
<1>7. TypeOK /\ Kept /\ InFront /\ HasNested
    BY <1>1 DEF TypeOK, Kept, InFront, HasNested, Stages
<1> QED
    BY <1>1, <1>6, <1>7
       DEF Inv, Walked, Unread, Nesting, NestedAsSent, Mapped, Written, Sent

(***************************************************************************)
(* The invariant is inductive.                                             *)
(***************************************************************************)
LEMMA NextInv ==
    ASSUME Inv, [Next]_vars
    PROVE  Inv'
<1>1. CASE ReadOption
    BY <1>1, ReadOptionKeeps
<1>2. CASE EndOptions
    BY <1>2, EndOptionsKeeps
<1>3. CASE ReadNested
    BY <1>3, ReadNestedKeeps
<1>4. CASE EndNested
    BY <1>4, EndNestedKeeps
<1>5. CASE Handle
    BY <1>5, HandleKeeps
<1>6. CASE WritePacket
    BY <1>6, WritePacketKeeps
<1>7. CASE Strip
    BY <1>7, StripKeeps
<1>8. CASE UNCHANGED vars
    BY <1>8 DEF vars, Inv, TypeOK, Kept, InFront, HasNested, Walking, Walked, Unread, Nesting, NestedAsSent,
                Mapped, Written, Sent
<1>9. CASE LoseNested
    BY <1>9, LoseNestedKeeps
<1> QED
    BY <1>1, <1>2, <1>3, <1>4, <1>5, <1>6, <1>7, <1>8, <1>9 DEF Next, Finished

(***************************************************************************)
(* The loops stand where an option was written or where the options end,   *)
(* and the packet holds the options of the map, at every moment.           *)
(***************************************************************************)
THEOREM InvHolds == Spec => []Inv
<1> QED
    BY InitInv, NextInv, PTL DEF Spec

(***************************************************************************)
(* The map holds bytes by their codes, and the reply is bytes.             *)
(***************************************************************************)
THEOREM TypeCorrect == Spec => []TypeOK
<1>1. Inv => TypeOK
    BY DEF Inv
<1> QED
    BY <1>1, InvHolds, PTL

(***************************************************************************)
(* However many options a client sends, in whatever order and with         *)
(* whatever bytes in their values, the first loop finds each and takes no  *)
(* byte of a value for an option.                                          *)
(***************************************************************************)
THEOREM AllOptionsFound == Spec => []OptionsAsSent
<1>1. ASSUME Inv PROVE OptionsAsSent
    <2> DEFINE sent == datagram.options
               last == Len(sent)
               map == Collected(sent, last)
               codes == {sent[k].code : k \in 1..last} \ {55}
    <2>1. SUFFICES ASSUME stage \in {"nested", "parsed"}, Regular(datagram)
                   PROVE  options = [n \in codes |-> LastOf(sent, n)]
        BY DEF OptionsAsSent
    <2>2. options = RemoveOptions(map, {55})
        BY <1>1, <2>1 DEF Inv, Walked
    <2>3. map = [n \in {sent[j].code : j \in 1..last} |-> LastOf(sent, n)]
        BY DEF Collected, LastPlace, LastOf
    <2> HIDE DEF map
    <2>4. options = [n \in DOMAIN map \ {55} |-> map[n]]
        BY <2>2 DEF RemoveOptions
    <2>5. DOMAIN map \ {55} = codes /\ \A n \in codes : map[n] = LastOf(sent, n)
        BY <2>3
    <2> QED
        BY <2>4, <2>5
<1> QED
    BY <1>1, InvHolds, PTL

(***************************************************************************)
(* The second loop finds each option within option 43, although neither    *)
(* END nor the length of option 43 need stop it.                           *)
(***************************************************************************)
THEOREM AllNestedFound == Spec => []NestedAsSent
<1>1. Inv => NestedAsSent
    BY DEF Inv
<1> QED
    BY <1>1, InvHolds, PTL

(***************************************************************************)
(* Whatever the handlers set and however many bytes 0xff their values end  *)
(* in, the reply read by the rules of the protocol is the map.             *)
(***************************************************************************)
THEOREM ReplyIsRead == Spec => []ReplyReadsBack
<1>1. ASSUME Inv PROVE ReplyReadsBack
    <2> DEFINE others == RemoveOptions(options, {END})
               list == Listed(others)
               b == Encode(list)
    <2>1. SUFFICES ASSUME stage = "sent", PAD \notin DOMAIN options
                   PROVE  /\ packet # <<>> /\ packet[Len(packet)] = END
                          /\ ReadFrom(packet) = list
        BY DEF ReplyReadsBack
    <2>2. packet = Append(b, END)
        BY <1>1, <2>1 DEF Inv, Sent
    <2>3. Writable(options) /\ END \in DOMAIN options /\ options[END] = <<>>
        BY <1>1, <2>1 DEF Inv, Mapped
    <2>4. /\ Writable(others) /\ END \notin DOMAIN others
          /\ PAD \notin DOMAIN others
        BY <2>1, <2>3, ListedEnd DEF RemoveOptions
    <2>5. /\ Small(list)
          /\ \A j \in 1..Len(list) : list[j].code \in DOMAIN others
        BY <2>4, ListedSmall
    <2>6. \A j \in 1..Len(list) : list[j].code \notin {PAD, END}
        BY <2>4, <2>5
    <2>7. ReadFrom(packet) = list
        BY <2>2, <2>5, <2>6, ReaderReads
    <2>8. b \in Seq(Byte) /\ END \in Byte
        <3>1. 0 \in 0..Len(list)
            BY <2>5 DEF Small
        <3> QED
            BY <2>5, <3>1, EncodeBegins DEF END, Byte
    <2>9. packet # <<>> /\ packet[Len(packet)] = END
        <3> HIDE DEF b
        <3>1. /\ packet \in Seq(Byte) /\ Len(packet) = Len(b) + 1
              /\ packet[Len(b) + 1] = END /\ Len(b) \in Nat
            BY <2>2, <2>8, AppendProperties
        <3> QED
            BY <3>1
    <2> QED
        BY <2>7, <2>9
<1> QED
    BY <1>1, InvHolds, PTL

\* In a regular datagram a turn takes a loop on by two bytes or more, and not
\* out of what it walks over.  In any other one a turn that does not take it on
\* is over an option of 128 to 254 bytes, and the first loop goes back to the
\* boot file name at most.
Advances ==
    /\ ReadOption \/ ReadNested => i < i' \/ (TurnsBack /\ ~Regular(datagram))
    /\ ReadOption => i' + 127 >= Len(Cookie)
    /\ Regular(datagram) =>
           /\ ReadOption => i + 2 <= i' /\ i' <= Len(Buffer) + 1
           /\ ReadNested => i + 2 <= i' /\ i' <= Len(options[43]) + 1

(***************************************************************************)
(* How much further one turn of a loop takes it that reads what was sent.  *)
(***************************************************************************)
LEMMA TurnLength ==
    ASSUME NEW list, Small(list), NEW m \in 1..Len(list),
           NEW bytes \in Seq(Byte), Begins(bytes, Encodings(list)[m]),
           NEW p, p = Len(Encodings(list)[m - 1]) + 1,
           NEW q, q = Len(Encodings(list)[m]) + 1
    PROVE  p \in Nat /\ q \in Nat /\ p + 2 <= q /\ q <= Len(bytes) + 1
<1> DEFINE before == Len(Encodings(list)[m - 1])
           after == Len(Encodings(list)[m])
           v == Len(list[m].value)
           l == Len(bytes)
<1>1. v \in Nat /\ after = before + 2 + v
    BY EncodingsGrow
<1>2. before \in Nat
    <2>1. m - 1 \in 0..Len(list)
        BY DEF Small
    <2> QED
        BY <2>1, EncodingsInside
<1>3. l \in Nat /\ after <= l
    BY DEF Begins
<1>4. p = before + 1 /\ q = after + 1
    OBVIOUS
<1> HIDE DEF before, after, v, l
<1>5. p \in Nat /\ q \in Nat /\ p + 2 <= q /\ q <= l + 1
    BY <1>1, <1>2, <1>3, <1>4
<1> QED
    BY <1>5 DEF l

(***************************************************************************)
(* A turn over an option whose length is none of those goes forward.       *)
(***************************************************************************)
LEMMA ForwardOrBack ==
    ASSUME NEW bytes \in Seq(Byte), NEW p \in Int
    PROVE  p < PositionAfter(bytes, p) \/ At(bytes, p + 1) \in 128..254
<1>1. PICK n \in Byte : n = At(bytes, p + 1)
    BY OptionAtType
<1>2. n \in Nat /\ n < 256
    BY DEF Byte
<1>3. PositionAfter(bytes, p) = p + 2 + (IF n < 128 THEN n ELSE n - 256)
    BY <1>1 DEF PositionAfter, Signed
<1>4. CASE n < 128
    BY <1>2, <1>3, <1>4
<1>5. CASE n = 255
    BY <1>3, <1>5
<1>6. CASE n \in 128..254
    BY <1>1, <1>6
<1> QED
    BY <1>2, <1>4, <1>5, <1>6

(***************************************************************************)
(* Whatever the datagram, a turn goes forward unless the length of the     *)
(* option it reads is one of 128 to 254, and then the datagram is not      *)
(* regular: the loops end after finitely many turns over every regular     *)
(* one.  Over any other the first loop stays within the buffer.            *)
(***************************************************************************)
THEOREM LoopsAdvance == Spec => [][Advances]_vars
<1>1. ASSUME Inv, ReadOption, Regular(datagram)
      PROVE  i < i' /\ i + 2 <= i' /\ i' <= Len(Buffer) + 1
    <2> DEFINE sent == datagram.options
    <2>1. PICK m \in 1..Len(sent) :
              /\ i = Len(Encodings(sent)[m - 1]) + 1 + Len(Cookie)
              /\ i' = Len(Encodings(sent)[m]) + 1 + Len(Cookie)
        BY <1>1, NextOption
    <2>2. /\ Short(sent) /\ Received \in Seq(Byte) /\ Buffer \in Seq(Byte)
          /\ \A k \in 0..Len(sent) : Begins(Received, Encodings(sent)[k])
        BY <1>1, ReceivedBegins, ReceivedBytes DEF Inv, TypeOK
    <2>3. Small(sent) /\ Begins(Received, Encodings(sent)[m])
        <3>1. Small(sent) /\ Len(sent) \in Nat
            BY <2>2, ShortIsSmall
        <3>2. m \in 0..Len(sent)
            BY <3>1
        <3> QED
            BY <2>2, <3>1, <3>2
    <2>4. PICK p, q : /\ p = Len(Encodings(sent)[m - 1]) + 1
                      /\ q = Len(Encodings(sent)[m]) + 1
        OBVIOUS
    <2>5. p \in Nat /\ q \in Nat /\ p + 2 <= q /\ q <= Len(Received) + 1
        BY <2>2, <2>3, <2>4, TurnLength
    <2>6. /\ Len(Buffer) = Len(Received) + 4 /\ Len(Received) \in Nat
          /\ Len(Cookie) = 4
        <3>1. Cookie \in Seq(Byte) /\ Len(Cookie) = 4
            BY DEF Cookie, Byte
        <3>2. Len(Buffer) = Len(Cookie) + Len(Received)
            BY <2>2, <3>1, BeginsWithFirst DEF Buffer
        <3> QED
            BY <2>2, <3>1, <3>2
    <2>7. i = p + 4 /\ i' = q + 4
        BY <2>1, <2>4, <2>6
    <2> QED
        BY <2>5, <2>6, <2>7
<1>2. ASSUME Inv, ReadNested, Regular(datagram)
      PROVE  i < i' /\ i + 2 <= i' /\ i' <= Len(options[43]) + 1
    <2> DEFINE subs == datagram.nested
    <2>1. PICK m \in 1..Len(subs) :
              /\ i = Len(Encodings(subs)[m - 1]) + 1
              /\ i' = Len(Encodings(subs)[m]) + 1
        BY <1>2, NextNested
    <2>2. stage = "nested"
        BY <1>2 DEF ReadNested
    <2>3. /\ Short(subs) /\ options[43] \in Seq(Byte)
          /\ \A k \in 0..Len(subs) : Begins(options[43], Encodings(subs)[k])
        BY <1>2, <2>2, NestedBytes
    <2>4. Small(subs) /\ Begins(options[43], Encodings(subs)[m])
        <3>1. Small(subs) /\ Len(subs) \in Nat
            BY <2>3, ShortIsSmall
        <3>2. m \in 0..Len(subs)
            BY <3>1
        <3> QED
            BY <2>3, <3>1, <3>2
    <2>5. i \in Nat /\ i' \in Nat /\ i + 2 <= i' /\ i' <= Len(options[43]) + 1
        BY <2>1, <2>3, <2>4, TurnLength
    <2> QED
        BY <2>5
<1>3. ASSUME Inv, ReadOption
      PROVE  /\ i < i' \/ (TurnsBack /\ ~Regular(datagram))
             /\ i' + 127 >= Len(Cookie)
    <2>1. /\ stage = "walk" /\ InOptions /\ i' = PositionAfter(Buffer, i)
          /\ datagram \in Datagrams /\ i \in Int /\ i + 127 >= Len(Cookie)
        BY <1>3 DEF ReadOption, Inv, TypeOK, InFront
    <2>2. Buffer \in Seq(Byte)
        BY <2>1, ReceivedBytes
    <2>3. i < i' \/ At(Buffer, i + 1) \in 128..254
        BY <2>1, <2>2, ForwardOrBack
    <2>4. i < i' \/ (TurnsBack /\ ~Regular(datagram))
        BY <1>1, <1>3, <2>1, <2>3 DEF TurnsBack
    <2> QED
        BY <2>1, <2>4, StaysInFront
<1>4. ASSUME Inv, ReadNested
      PROVE  i < i' \/ (TurnsBack /\ ~Regular(datagram))
    <2>1. /\ stage = "nested" /\ InNested /\ i' = PositionAfter(options[43], i)
        BY <1>4 DEF ReadNested
    <2>2. options[43] \in Seq(Byte) /\ i \in Int
        BY <1>4, <2>1 DEF Inv, TypeOK, HasNested
    <2>3. i < i' \/ At(options[43], i + 1) \in 128..254
        BY <2>1, <2>2, ForwardOrBack
    <2> QED
        BY <1>2, <1>4, <2>1, <2>3 DEF TurnsBack
<1>5. ASSUME Inv, [Next]_vars
      PROVE  [Advances]_vars
    BY <1>1, <1>2, <1>3, <1>4, <1>5 DEF Advances
<1> QED
    BY <1>5, InvHolds, PTL DEF Spec

\* A loop stands at an option of 254 bytes.
Stuck ==
    \/ stage = "walk" /\ InOptions /\ At(Buffer, i + 1) = 254
    \/ stage = "nested" /\ InNested /\ At(options[43], i + 1) = 254

(***************************************************************************)
(* A loop that has come to such an option never leaves it: its thread      *)
(* makes no reply, and ends only when the second loop fills the memory.    *)
(***************************************************************************)
THEOREM StuckForGood == Spec => [][Stuck => Stuck' \/ stage' = "lost"]_vars
<1>1. ASSUME Inv, [Next]_vars, Stuck
      PROVE  Stuck' \/ stage' = "lost" \/ vars' = vars
    <2>1. CASE ReadOption
        <3>1. /\ stage = "walk" /\ InOptions /\ At(Buffer, i + 1) = 254
              /\ stage' = stage /\ datagram' = datagram
              /\ i' = PositionAfter(Buffer, i) /\ i \in Int
            BY <1>1, <2>1 DEF ReadOption, Stuck, Inv, TypeOK
        <3>2. i' = i
            BY <3>1 DEF PositionAfter, Signed
        <3>3. Buffer' = Buffer
            BY <3>1 DEF Buffer, Received
        <3>4. InOptions' /\ At(Buffer, i + 1)' = 254
            BY <3>1, <3>2, <3>3 DEF InOptions
        <3> QED
            BY <3>1, <3>4 DEF Stuck
    <2>2. CASE ReadNested
        <3>1. /\ stage = "nested" /\ InNested /\ At(options[43], i + 1) = 254
              /\ stage' = stage /\ datagram' = datagram /\ options' = options
              /\ i' = PositionAfter(options[43], i) /\ i \in Int
            BY <1>1, <2>2 DEF ReadNested, Stuck, Inv, TypeOK
        <3>2. i' = i
            BY <3>1 DEF PositionAfter, Signed
        <3>3. Received' = Received
            BY <3>1 DEF Received
        <3>4. InNested' /\ At(options[43], i + 1)' = 254
            BY <3>1, <3>2, <3>3 DEF InNested
        <3> QED
            BY <3>1, <3>4 DEF Stuck
    <2>3. CASE LoseNested
        BY <2>3 DEF LoseNested
    <2>4. ~(EndOptions \/ EndNested \/ Handle \/ WritePacket \/ Strip)
        BY <1>1 DEF Stuck, EndOptions, EndNested, Handle, WritePacket, Strip
    <2> QED
        BY <1>1, <2>1, <2>2, <2>3, <2>4 DEF Next, Finished
<1>2. Inv /\ [Next]_vars => [Stuck => Stuck' \/ stage' = "lost"]_vars
    BY <1>1
<1> QED
    BY <1>2, InvHolds, PTL DEF Spec
=============================================================================

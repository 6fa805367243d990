---------------------------- MODULE MCOptionField ----------------------------
(***************************************************************************)
(* The instance of OptionField for TLC.                                    *)
(***************************************************************************)
EXTENDS OptionField

Opt(code, value) == [code |-> code, value |-> value]

\* Values that are empty, short, look like END, padding or options, or are
\* as long as the loops can step over.
MCValues == {<<>>, <<1>>, <<255>>, <<0, 255>>, <<53, 1, 3>>,
             [k \in 1..127 |-> 200]}

\* Up to two options, twice the same or one of each kind.
MCPlain ==
    {<<>>} \cup {<<Opt(53, v)>> : v \in MCValues}
           \cup {<<Opt(m, v), Opt(n, w)>> : m \in {53, 55}, n \in {53, 61, 254},
                                            v \in MCValues, w \in MCValues}

MCNested ==
    {<<>>, <<Opt(71, <<0, 1, 0, 0>>)>>, <<Opt(1, <<>>), Opt(71, <<255, 0, 0, 0>>)>>,
     <<Opt(12, [k \in 1..100 |-> 255]), Opt(12, <<0>>)>>}

MCRests == {<<>>, <<255, 0, 0>>, <<255, 53, 7>>}

MCRegular ==
    {[options |-> plain, nested |-> <<>>, rest |-> rest] :
        plain \in MCPlain, rest \in MCRests}
    \cup
    UNION {{[options |-> <<Opt(n, v), Opt(43, Encode(subs) \o end)>>,
             nested |-> subs, rest |-> rest] :
                n \in {53, 60}, v \in {<<>>, <<255>>},
                end \in {<<>>, <<END>>}, rest \in MCRests} : subs \in MCNested}

\* Lengths at which the position goes forward, back, stays and goes forward.
MCLengths == {0, 1, 127, 128, 129, 200, 253, 254, 255}

Filled(n, byte) == [k \in 1..n |-> byte]

\* Long options, alone and between others, and padding in both places.
MCIrregular ==
    {[options |-> <<Opt(n, Filled(len, 7))>>, nested |-> <<>>, rest |-> rest] :
        n \in {53, 61}, len \in MCLengths, rest \in MCRests}
    \cup
    {[options |-> <<Opt(53, Filled(before, 7)), Opt(61, Filled(len, byte))>>,
      nested |-> <<>>, rest |-> <<255>>] :
        before \in {1, 2, 120}, len \in MCLengths, byte \in {0, 7, 255}}
    \cup
    {[options |-> <<Opt(53, <<1>>)>>, nested |-> <<>>,
      rest |-> Filled(pad, 0) \o more] :
        pad \in 1..3, more \in {<<255>>, <<61, 1, 9, 255>>, <<61, 254>>, <<61>>}}

\* Option 43 with a long option in it, at its beginning and after another, cut
\* off by its own length.
MCIrregularNested ==
    {[options |-> <<Opt(43, before \o <<71, len, 1, 2>>)>>, nested |-> <<>>,
      rest |-> <<255>>] :
        before \in {<<>>, <<8, 1, 5>>, <<8, 120>> \o Filled(120, 8)},
        len \in MCLengths}
    \cup
    {[options |-> <<Opt(43, Filled(len, 60))>>, nested |-> <<>>, rest |-> <<>>] :
        len \in MCLengths}

MCDatagrams == MCRegular \cup MCIrregular \cup MCIrregularNested

\* A release, to which nothing but END is set, an offer, and a longer
\* acknowledgement whose last bytes are 0xff.
MCAnswers ==
    {[n \in {255} |-> <<>>],
     [n \in {53, 255} |-> IF n = 53 THEN <<2>> ELSE <<>>],
     [n \in {43, 53, 254, 255} |->
         CASE n = 43 -> [k \in 1..254 |-> 255] [] n = 53 -> <<5>>
           [] n = 254 -> <<0, 255>> [] n = 255 -> <<>>]}
=============================================================================

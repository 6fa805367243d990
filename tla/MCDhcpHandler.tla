---------------------------- MODULE MCDhcpHandler ----------------------------
(***************************************************************************)
(* Instances of DhcpHandler for TLC.  Threads and Idents are sets of model *)
(* values.                                                                 *)
(***************************************************************************)
EXTENDS DhcpHandler

CONSTANTS m1, m2   \* the hardware addresses

Pkt(i, relayed, class, msg) ==
    [ident |-> i, relayed |-> relayed, class |-> class, msg |-> msg]

\* What overlapping threads do to each other: one erases its record twice,
\* one throws, one leaves its record in the table, and those of a second
\* client are about another record of the same map.
MCOverlapPackets ==
    {Pkt(m1, FALSE, "PXEClient", "RELEASE"),
     Pkt(m1, FALSE, "PXEClient", "none"),
     Pkt(m1, FALSE, "none", "DISCOVER"),
     Pkt(m2, FALSE, "PXEClient", "RELEASE"),
     Pkt(m2, TRUE, "PXEClient", "DISCOVER")}

\* What clients that stop and wait send one after the other.
MCFewPackets ==
    UNION {{Pkt(i, FALSE, "PXEClient", "DISCOVER"),
            Pkt(i, TRUE, "PXEClient", "RELEASE"),
            Pkt(i, FALSE, "PXEClient", "RELEASE"),
            Pkt(i, FALSE, "none", "DISCOVER")} : i \in Idents}

\* With a vendor class that leaves the vendor uninitialised.
MCSerialPackets == MCFewPackets \cup {Pkt(m1, FALSE, "other", "DISCOVER")}
=============================================================================

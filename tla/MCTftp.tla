------------------------------- MODULE MCTftp -------------------------------
(***************************************************************************)
(* An instance of Tftp for TLC: two hosts, one of which sends every kind   *)
(* of datagram from two ports.                                             *)
(***************************************************************************)
EXTENDS Tftp

CONSTANTS h1, h2, p1, p2

MCFileNames == {"a", "b", "missing", ""}

MCFileSize == [a |-> 7, b |-> 9]

Read(h, p, file, blksize) ==
    [host |-> h, port |-> p, opcode |-> "TFTP_Read", file |-> file,
     blksize |-> blksize, octet |-> TRUE]

Other(h, p, opcode) ==
    [host |-> h, port |-> p, opcode |-> opcode, file |-> "", blksize |-> <<>>,
     octet |-> FALSE]

\* Two files, read with and without a block size of 1456; a file that is not
\* there; an acknowledgement, which like a read in another mode lacks the word.
MCPackets ==
    {Read(h1, p1, "a", <<49, 52>>),
     Read(h1, p2, "b", <<>>),
     Read(h1, p1, "missing", <<>>),
     Other(h1, p1, "TFTP_Ack"),
     Read(h2, p1, "a", <<>>)}
=============================================================================

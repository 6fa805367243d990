----------------------------- MODULE MCDhcpReply -----------------------------
(***************************************************************************)
(* Instances of DhcpReply for TLC.                                         *)
(***************************************************************************)
EXTENDS DhcpReply

\* No choice from the menu, local boot, this server, another server on
\* layer 1, and an item whose low byte is zero.
MCChoices ==
    {<<>>, <<0, 0, 0, 0>>, <<0, 1, 0, 0>>, <<0, 2, 0, 1>>, <<1, 0, 0, 0>>}

\* BIOS, EFI IA32 (no file), EFI BC and x64, alone and together.
MCArchs == {<<>>, <<0>>, <<6>>, <<7>>, <<9, 7>>, <<7, 9>>}

MCRequests ==
    [service : {"DHCP", "BOOTP"}, relayed : BOOLEAN, class : Classes,
     msg : Messages, choice : MCChoices, archs : MCArchs,
     codes : {{}, {50, 54, 55, 57, 61, 77, 94, 97, 175}}]

\* One class and message each, for the runs that look for one behaviour.
MCFewRequests ==
    {r \in MCRequests :
        r.class = "PXEClient" /\ r.service = "DHCP" /\ r.archs = <<0>>
            /\ r.codes = {}}

\* The names of serverlist.txt, and of a list with one server more.
MCServerLengths == <<16, 17, 17, 17, 19>>

MCLongerList == MCServerLengths \o <<17>>
=============================================================================

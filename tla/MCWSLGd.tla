------------------------------ MODULE MCWSLGd ------------------------------
(* Instances of WSLGd for TLC. *)
EXTENDS WSLGd

CONSTANTS weston, rdpClient, pulse, p1, p2, p3, p4

MCCmd == {weston, rdpClient, pulse}
MCServices == <<weston, rdpClient, pulse>>
MCPid == {p1, p2, p3, p4}

NoAdjustments == {}
=============================================================================

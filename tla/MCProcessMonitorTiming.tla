----------------------- MODULE MCProcessMonitorTiming -----------------------
(* Instances of ProcessMonitorTiming for TLC. *)
EXTENDS ProcessMonitorTiming

CONSTANTS c1, c2, p1, p2, p3

MCCmd == {c1, c2}
MCPid == {p1, p2, p3}

BackAndForth == {-2, 2}

Symmetry == Permutations(MCCmd) \cup Permutations(MCPid)
=============================================================================

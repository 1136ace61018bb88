-------------------------- MODULE MCProcessMonitor --------------------------
(* Instances of ProcessMonitor for TLC. *)
EXTENDS ProcessMonitor, TLC

CONSTANTS c1, c2, p1, p2, p3

MCCmd == {c1, c2}
MCPid == {p1, p2, p3}

NoAdjustments == {}
BackAndForth  == {-2, 2}

\* Commands and pids are interchangeable: sound for the invariants only.
Symmetry == Permutations(MCCmd) \cup Permutations(MCPid)
=============================================================================

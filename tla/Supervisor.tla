----------------------------- MODULE Supervisor -----------------------------
(***************************************************************************)
(* What WSLGd promises about the services it launches, without pids,       *)
(* process tables or exit counting: a service goes up once, and each time  *)
(* it goes down it is put up again or abandoned for good.  The supervisor  *)
(* itself halts only when every service is abandoned, or, if MayFail, when *)
(* the system refuses it a resource.                                       *)
(***************************************************************************)
CONSTANTS Service, MayFail

VARIABLES
    status, \* "absent", "up", "down" or "abandoned", per service
    halted

vars == <<status, halted>>

Init == /\ status = [s \in Service |-> "absent"]
        /\ halted = FALSE

Move(s, from, to) == /\ status[s] = from
                     /\ status' = [status EXCEPT ![s] = to]
                     /\ UNCHANGED halted

Start(s)   == ~halted /\ Move(s, "absent", "up")
Restart(s) == ~halted /\ Move(s, "down", "up")
Abandon(s) == ~halted /\ Move(s, "down", "abandoned")
Fail(s)    == Move(s, "up", "down")

Halt == /\ ~halted
        /\ MayFail \/ \A s \in Service : status[s] = "abandoned"
        /\ halted' = TRUE
        /\ UNCHANGED status

Next == \/ \E s \in Service : Start(s) \/ Restart(s) \/ Abandon(s) \/ Fail(s)
        \/ Halt

\* Every service is started, and one that is down does not stay down while
\* the supervisor is there.
Fairness == \A s \in Service : /\ WF_vars(Start(s))
                               /\ WF_vars(Restart(s) \/ Abandon(s))

Spec == Init /\ [][Next]_vars /\ Fairness
=============================================================================

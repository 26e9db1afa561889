---------------------------- MODULE LaunchPromise ----------------------------
(***************************************************************************)
(* What the runner promises of one launch: its agent is started at most    *)
(* once, and the launch is recorded as ended only when none of the agent's *)
(* processes is left, after which nothing starts.  Launches implements it. *)
(***************************************************************************)
EXTENDS Sequences

CONSTANT Commands       \* what an agent may be run with

VARIABLES
    starts,             \* the commands agents were started with, in order
    alive,              \* a process of the launch runs
    over                \* the launch is recorded as ended

vars == <<starts, alive, over>>

Init == starts = <<>> /\ alive = FALSE /\ over = FALSE

Start ==
    /\ starts = <<>>
    /\ ~over
    /\ \E c \in Commands : starts' = <<c>>
    /\ alive' = TRUE
    /\ UNCHANGED over

End == alive' = FALSE /\ UNCHANGED <<starts, over>>

Record == ~alive /\ over' = TRUE /\ UNCHANGED <<starts, alive>>

Next == Start \/ End \/ Record

Spec == Init /\ [][Next]_vars
=============================================================================

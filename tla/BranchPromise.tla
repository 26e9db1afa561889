---------------------------- MODULE BranchPromise ----------------------------
(***************************************************************************)
(* What Code promises about the work branch of one unit, whoever pushes to *)
(* it and whatever fails: the branch belongs to one writer at a time, only *)
(* that writer's commits extend it, each extends the commit Code has on    *)
(* record, and it changes hands only when the record and Git agree.        *)
(***************************************************************************)
EXTENDS Naturals

CONSTANT
    Base            \* the commit the unit starts from

VARIABLES
    tip,            \* the commit the branch names in Git
    told,           \* the commit Code has on record
    owner           \* the generation the branch belongs to

vars == <<tip, told, owner>>

\* A commit is its writer's generation and its number among that writer's commits.
Writer(commit) == commit[1]
Number(commit) == commit[2]

Start == tip = Base /\ told = Base /\ owner = 0

HandOver ==
    /\ told = tip
    /\ owner' = owner + 1
    /\ UNCHANGED <<tip, told>>

Extend ==
    /\ told = tip
    /\ Writer(tip') = owner
    /\ Writer(tip) = owner => Number(tip') > Number(tip)
    /\ UNCHANGED <<told, owner>>

Learn ==
    /\ told' = tip
    /\ UNCHANGED <<tip, owner>>

Keep == HandOver \/ Extend \/ Learn

Promise == Start /\ [][Keep]_vars
=============================================================================

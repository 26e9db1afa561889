------------------------------ MODULE MCDispatch ------------------------------
(* Small instances of Dispatch: every request is of one runner. *)
EXTENDS Dispatch

OneRunner == [q \in Requests |-> CHOOSE r \in Runners : TRUE]
=============================================================================

----------------------------- MODULE MCModelLedger -----------------------------
(* Small instances of ModelLedger: every grant is of one person, and g1 alone has a budget. *)
EXTENDS ModelLedger

CONSTANTS g1, p1

OnePerson == [g \in Grants |-> p1]
OneBudget == [g \in Grants |-> IF g = g1 THEN 1 ELSE None]
=============================================================================

---------------------------- MODULE MCWorkLeases ----------------------------
(* A small instance of WorkLeases.                                         *)
EXTENDS WorkLeases

CONSTANTS ann, rob

Members == {ann, rob}
Roster == [p \in Members |-> IF p = ann THEN "operator" ELSE "reviewer"]
=============================================================================

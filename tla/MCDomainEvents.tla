--------------------------- MODULE MCDomainEvents ---------------------------
(* Small instances of DomainEvents.                                        *)
EXTENDS DomainEvents, TLC

CONSTANTS ta, tb

Symmetric == Permutations(Runtimes) \cup Permutations(Consumers)

TwoTypes == {ta, tb}
SymmetricTypes == Symmetric \cup Permutations(TwoTypes)

BothDefinitions == {{ta}, {ta, tb}}
EitherDefinition == {{ta}, {tb}}
OneDefinition == {{ta}}
=============================================================================

--------------------------- MODULE EventDelivery ---------------------------
(***************************************************************************)
(* What Domain Events promises its consumers, without a dispatcher: one    *)
(* append-only log, and for every installed consumer a cursor that visits  *)
(* the events of its types one by one, in order, committing each handler's *)
(* effect together with the move.  DomainEvents implements this module.    *)
(***************************************************************************)
EXTENDS Naturals, Sequences

CONSTANTS
    Consumers,      \* the stable consumer IDs
    Types,          \* event types
    Definitions,    \* the sets of types a consumer may subscribe to
    None            \* no definition: the consumer was never installed

VARIABLES
    log,            \* the committed events' types; an event's ID is its place
    definition,     \* the types each consumer was installed with, or None
    cursor,         \* the last event each consumer is past
    effects         \* the events whose handler's effects committed, in that order

vars == <<log, definition, cursor, effects>>

\* No event of the consumer's types lies in from+1..to.
Quiet(types, from, to) == \A e \in (from + 1)..to : log[e] \notin types

Init ==
    /\ log = <<>>
    /\ definition = [c \in Consumers |-> None]
    /\ cursor = [c \in Consumers |-> 0]
    /\ effects = [c \in Consumers |-> <<>>]

Publish ==
    /\ \E t \in Types : log' = Append(log, t)
    /\ UNCHANGED <<definition, cursor, effects>>

\* A first installation starts at the beginning or at the head.
Install(c) ==
    /\ definition[c] = None
    /\ \E types \in Definitions : definition' = [definition EXCEPT ![c] = types]
    /\ \E start \in {0, Len(log)} : cursor' = [cursor EXCEPT ![c] = start]
    /\ UNCHANGED <<log, effects>>

\* The next event of the consumer's types; its handler may publish in turn.
Handle(c) ==
    \E e \in 1..Len(log) :
        /\ definition[c] # None
        /\ cursor[c] < e
        /\ log[e] \in definition[c]
        /\ Quiet(definition[c], cursor[c], e - 1)
        /\ effects' = [effects EXCEPT ![c] = Append(@, e)]
        /\ cursor' = [cursor EXCEPT ![c] = e]
        /\ \/ log' = log
           \/ \E t \in Types : log' = Append(log, t)
        /\ UNCHANGED definition

\* Consumers pass events they do not subscribe to, several at once.
PassOver ==
    \E to \in 0..Len(log), passed \in SUBSET Consumers :
        /\ \A c \in passed :
              /\ definition[c] # None
              /\ cursor[c] <= to
              /\ Quiet(definition[c], cursor[c], to)
        /\ cursor' = [c \in Consumers |-> IF c \in passed THEN to ELSE cursor[c]]
        /\ UNCHANGED <<log, definition, effects>>

Next ==
    \/ Publish
    \/ PassOver
    \/ \E c \in Consumers : Install(c) \/ Handle(c)

Spec == Init /\ [][Next]_vars
=============================================================================

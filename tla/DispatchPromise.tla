--------------------------- MODULE DispatchPromise ---------------------------
(***************************************************************************)
(* What Sessions promises about automatic work, whatever order its         *)
(* requests, failures and controls come in: a request is answered with one *)
(* session for ever, a step has one live session at a time, and a step that *)
(* failed too often is offered by hand only, until somebody gives the word. *)
(***************************************************************************)
EXTENDS Naturals

CONSTANTS
    Steps,          \* steps of work
    Requests,       \* requests of runners
    Cap,            \* failures that hold a step
    None            \* no session

VARIABLES
    answer,         \* the session each automatic request was answered with
    worker,         \* the live session of each step
    made,           \* how many sessions there were so far
    failures,       \* of each step, since somebody gave the word
    held,           \* the steps that wait for somebody
    open            \* whether automatic work is on

vars == <<answer, worker, made, failures, held, open>>

Start ==
    /\ answer = [q \in Requests |-> None]
    /\ worker = [t \in Steps |-> None]
    /\ failures = [t \in Steps |-> 0]
    /\ made = 0 /\ held = {}

\* The workers of some steps end.
Ended(to) == [t \in Steps |-> IF t \in to THEN None ELSE worker[t]]

\* A step that has no worker is given the next session.
Takes(t) ==
    /\ worker[t] = None
    /\ made' = made + 1
    /\ worker' = [worker EXCEPT ![t] = made']

Answer(q, t) ==
    /\ UNCHANGED <<failures, held, open>>
    /\ open /\ t \notin held /\ answer[q] = None
    /\ Takes(t)
    /\ answer' = [answer EXCEPT ![q] = made']

ByHand(t) ==
    /\ UNCHANGED <<answer, failures, held, open>>
    /\ Takes(t)

\* A failure is counted, of the worker that ends or of an offer that was never made.  It holds
\* the step at the cap, and may (its agent stopped twice) from the second on.
Fail(t) ==
    /\ UNCHANGED <<answer, made, open>>
    /\ failures' = [failures EXCEPT ![t] = IF @ < Cap THEN @ + 1 ELSE Cap]
    /\ worker' \in {worker, Ended({t})}
    /\ \/ held' = held /\ (failures'[t] = Cap => t \in held)
       \/ held' = held \cup {t} /\ (failures'[t] = Cap \/ failures[t] > 0)

End ==
    /\ UNCHANGED <<answer, made, failures, held, open>>
    /\ \E to \in SUBSET Steps : worker' = Ended(to)

\* The word for a step.
GoAhead(t) ==
    /\ UNCHANGED <<answer, worker, made, open>>
    /\ failures' = [failures EXCEPT ![t] = 0]
    /\ held' = held \ {t}

\* Switching automatic work on or off is the word for every step, and may end every worker.
Switch ==
    /\ UNCHANGED <<answer, made>>
    /\ open' = ~open
    /\ failures' = [t \in Steps |-> 0] /\ held' = {}
    /\ worker' \in {worker, Ended(Steps)}

Keep ==
    \/ \E t \in Steps : ByHand(t) \/ Fail(t) \/ GoAhead(t) \/ \E q \in Requests : Answer(q, t)
    \/ End \/ Switch

Promise == Start /\ [][Keep]_vars
=============================================================================

---------------------------- MODULE DomainEvents ----------------------------
(***************************************************************************)
(* The durable event dispatcher (packages/domain-events) over State's log. *)
(* Every Runtime is one process with its own State connection and its own  *)
(* DurableEvents object on the shared database; a write transaction holds  *)
(* the database's writer lock, so it is one step.  A step of the in-memory *)
(* object is the code between two awaits.                                  *)
(*                                                                         *)
(* Time: a row's retry_at is kept as `waiting` (still in the future), and  *)
(* RetryDue lets it pass.  A timer is armed or not; it may fire any time.  *)
(***************************************************************************)
EXTENDS Naturals, Sequences

CONSTANTS
    Runtimes,       \* processes with a dispatcher on the one database
    Consumers,      \* stable consumer IDs
    Types,          \* event types
    Definitions,    \* the sets of types an installation may subscribe to
    Callers,        \* outside callers of drain()
    None,           \* absent: no row, no registration, no current consumer
    BatchSize,      \* deliveries of one consumer in one pass (100 in the code)
    DrainPasses,    \* DRAIN_PASSES (16 in the code)
    Publishers,     \* the runtimes that publish; None is another connection
    StorageFaults,  \* may a delivery transaction fail outside its handler?
    MaxEvents,      \* bound: events in the log
    MaxFaults       \* bound: failures and crashes in a behaviour

ASSUME ConstantsAssumption ==
    /\ Definitions \subseteq SUBSET Types
    /\ None \notin Definitions
    /\ None \notin Consumers \cup Runtimes
    /\ Publishers \subseteq Runtimes \cup {None}
    /\ None \notin Nat
    /\ BatchSize \in Nat \ {0}
    /\ DrainPasses \in Nat
    /\ StorageFaults \in BOOLEAN
    /\ MaxEvents \in Nat
    /\ MaxFaults \in Nat

VARIABLES
    \* the database
    log,            \* events: the types of the committed events, by ID
    definition,     \* event_consumers.definition_hash, None without a row
    cursor,         \* event_consumers.cursor
    attempts,       \* event_consumers.attempts
    waiting,        \* event_consumers.retry_at > Date.now()
    effects,        \* what the handlers' own writes committed, in order
    installed,      \* (history) the cursor the row was inserted with
    blamed,         \* (history) the event the last recorded failure is about
    \* one DurableEvents object per runtime
    mode,           \* "down", "up" (initialized) or "closing"
    registering,    \* subscribe() transactions in flight, with their types
    held,           \* this.consumers: the active registrations, with their types
    leaving,        \* disposers joined to an admitted transaction
    wakes,          \* commits of its State whose wake() has still to run
    timer,          \* this.timer is armed
    wakeRequested,  \* this.wakeRequested
    phase,          \* where the running pass stands, "idle" without one
    pass,           \* the locals of deliver()
    \* the outside
    calls,          \* drain() calls
    faults          \* failures so far

database == <<log, definition, cursor, attempts, waiting, effects, installed, blamed>>
subscriptions == <<mode, registering, held, leaving, wakes>>
dispatcher == <<timer, wakeRequested, phase, pass>>
vars == <<database, subscriptions, dispatcher, calls, faults>>

Phases == {"idle", "begun", "read", "quiet", "loop", "admitted", "failed"}

NoConsumers == [c \in Consumers |-> None]
NoPass == [head |-> 0, seen |-> [c \in Consumers |-> 0], quiet |-> {},
           todo |-> NoConsumers, gone |-> {}, current |-> None, count |-> 0,
           attempted |-> None, event |-> None, backlog |-> FALSE]
NoCall == [at |-> None, left |-> 0, owed |-> NoConsumers]

LogType ==
    /\ log \in Seq(Types)
    /\ definition \in [Consumers -> Definitions \cup {None}]
    /\ cursor \in [Consumers -> 0..Len(log)]
    /\ installed \in [Consumers -> 0..Len(log)]
    /\ effects \in [Consumers -> Seq(Nat)]

RetryType ==
    /\ attempts \in [Consumers -> Nat]
    /\ waiting \in [Consumers -> BOOLEAN]
    /\ faults \in Nat

SubscriptionType ==
    /\ mode \in [Runtimes -> {"down", "up", "closing"}]
    /\ registering \in [Runtimes -> [Consumers -> Definitions \cup {None}]]
    /\ held \in [Runtimes -> [Consumers -> Definitions \cup {None}]]
    /\ leaving \in [Runtimes -> SUBSET Consumers]

Passes == [head : Nat, seen : [Consumers -> Nat], quiet : SUBSET Consumers,
           todo : [Consumers -> Definitions \cup {None}], gone : SUBSET Consumers,
           current : Consumers \cup {None}, count : Nat,
           attempted : Nat \cup {None}, event : Nat \cup {None}, backlog : BOOLEAN]

DispatcherType ==
    /\ timer \in [Runtimes -> BOOLEAN]
    /\ wakeRequested \in [Runtimes -> BOOLEAN]
    /\ phase \in [Runtimes -> Phases]
    /\ pass \in [Runtimes -> Passes]

Calls == [at : Runtimes \cup {None}, left : Nat, owed : [Consumers -> Nat \cup {None}]]

TypeOK ==
    /\ LogType
    /\ RetryType
    /\ SubscriptionType
    /\ DispatcherType
    /\ blamed \in [Consumers -> Nat \cup {None}]
    /\ wakes \in [Runtimes -> Nat]
    /\ calls \in [Callers -> Calls]

-----------------------------------------------------------------------------
(* State: the log read by a dispatcher.                                    *)

EventHead == Len(log)

\* nextEvent finds nothing in from+1..to.
Quiet(types, from, to) == \A e \in (from + 1)..to : log[e] \notin types

\* nextEvent(after, types) = e
IsNextEvent(e, after, types) ==
    /\ e \in (after + 1)..EventHead
    /\ log[e] \in types
    /\ Quiet(types, after, e - 1)

Init ==
    /\ log = <<>>
    /\ definition = NoConsumers
    /\ cursor = [c \in Consumers |-> 0]
    /\ attempts = [c \in Consumers |-> 0]
    /\ waiting = [c \in Consumers |-> FALSE]
    /\ effects = [c \in Consumers |-> <<>>]
    /\ installed = [c \in Consumers |-> 0]
    /\ blamed = NoConsumers
    /\ mode = [r \in Runtimes |-> "down"]
    /\ registering = [r \in Runtimes |-> NoConsumers]
    /\ held = [r \in Runtimes |-> NoConsumers]
    /\ leaving = [r \in Runtimes |-> {}]
    /\ wakes = [r \in Runtimes |-> 0]
    /\ timer = [r \in Runtimes |-> FALSE]
    /\ wakeRequested = [r \in Runtimes |-> FALSE]
    /\ phase = [r \in Runtimes |-> "idle"]
    /\ pass = [r \in Runtimes |-> NoPass]
    /\ calls = [d \in Callers |-> NoCall]
    /\ faults = 0

Running(r) == phase[r] # "idle"

\* wake(0): a running pass is asked for another one, else the timer is armed.
Wake(r) ==
    /\ wakeRequested' = [wakeRequested EXCEPT ![r] = @ \/ (mode[r] = "up" /\ Running(r))]
    /\ timer' = [timer EXCEPT ![r] = @ \/ (mode[r] = "up" /\ ~Running(r))]

NoWake == UNCHANGED <<wakeRequested, timer>>

Fault == faults < MaxFaults /\ faults' = faults + 1

-----------------------------------------------------------------------------
(* Publishers.  A commit that wrote an event wakes the dispatcher of the   *)
(* same State, but only once its answer is back: until then every pool     *)
(* reads the event and no wake has come.  A commit of another connection,  *)
(* or one whose answer is lost, wakes nobody and is found by a later pass. *)

Publish(r) ==
    /\ EventHead < MaxEvents
    /\ \E t \in Types : log' = Append(log, t)
    /\ wakes' = IF r = None THEN wakes ELSE [wakes EXCEPT ![r] = @ + 1]
    /\ UNCHANGED <<definition, cursor, attempts, waiting, effects, installed, blamed,
                   mode, registering, held, leaving, dispatcher, calls, faults>>

\* The microtask queued after COMMIT's answer calls the event listeners.
WakeArrives(r) ==
    /\ wakes[r] > 0
    /\ wakes' = [wakes EXCEPT ![r] = @ - 1]
    /\ Wake(r)
    /\ UNCHANGED <<database, mode, registering, held, leaving, phase, pass, calls, faults>>

-----------------------------------------------------------------------------
(* Lifecycle and subscriptions of one runtime.                             *)

Initialize(r) ==
    /\ mode[r] = "down"
    /\ mode' = [mode EXCEPT ![r] = "up"]
    /\ timer' = [timer EXCEPT ![r] = TRUE]
    /\ UNCHANGED <<database, registering, held, leaving, wakes, wakeRequested, phase,
                   pass, calls, faults>>

\* subscribe() up to its transaction.  The owner of a consumer ID registers it
\* again only after its earlier disposer has resolved.
Subscribe(r, c) ==
    /\ mode[r] = "up"
    /\ held[r][c] = None
    /\ registering[r][c] = None
    /\ c \notin leaving[r]
    /\ \E types \in Definitions : registering' = [registering EXCEPT ![r][c] = types]
    /\ UNCHANGED <<database, mode, held, leaving, wakes, dispatcher, calls, faults>>

\* mutant: a consumer may change its types under its old cursor
Mutant_MayInstall(c, types) == TRUE

\* The types of an installed consumer never change (consumer_changed).
MayInstall(c, types) == definition[c] \in {None, types}

\* subscribe()'s transaction commits, or is refused, and the call continues.
Registered(r, c) ==
    LET types == registering[r][c]
        accepted == MayInstall(c, types)
    IN  /\ types # None
        /\ registering' = [registering EXCEPT ![r][c] = None]
        /\ IF definition[c] = None
           THEN \E start \in {0, EventHead} :
                    /\ definition' = [definition EXCEPT ![c] = types]
                    /\ cursor' = [cursor EXCEPT ![c] = start]
                    /\ installed' = [installed EXCEPT ![c] = start]
           ELSE UNCHANGED <<definition, cursor, installed>>
        /\ IF accepted /\ mode[r] = "up"
           THEN held' = [held EXCEPT ![r][c] = types] /\ Wake(r)
           ELSE UNCHANGED held /\ NoWake
        /\ UNCHANGED <<log, attempts, waiting, effects, blamed, mode, leaving, wakes,
                       phase, pass, calls, faults>>

RegistrationFails(r, c) ==
    /\ registering[r][c] # None
    /\ Fault
    /\ registering' = [registering EXCEPT ![r][c] = None]
    /\ UNCHANGED <<database, mode, held, leaving, wakes, dispatcher, calls>>

\* The running pass admits none of these registrations any more.
Withdraw(r, cs) ==
    pass' = [pass EXCEPT ![r] =
                [pass[r] EXCEPT !.gone = @ \cup {c \in cs : pass[r].todo[c] # None}]]

\* mutant: the disposer joins nothing
Mutant_Admitted(r) == {}

\* The registration whose transaction this.admitted names.
Admitted(r) ==
    IF phase[r] = "admitted" THEN {pass[r].current} \ pass[r].gone ELSE {}

\* (history) A drain() at r is owed nothing for registrations withdrawn since.
Owed(d, r, cs) ==
    [c \in Consumers |-> IF calls[d].at = r /\ c \in cs THEN None ELSE calls[d].owed[c]]

\* The disposer: withdrawn at once, and resolved after an admitted handler.
Dispose(r, c) ==
    /\ held[r][c] # None
    /\ held' = [held EXCEPT ![r][c] = None]
    /\ Withdraw(r, {c})
    /\ leaving' = [leaving EXCEPT ![r] = @ \cup ({c} \cap Admitted(r))]
    /\ calls' = [d \in Callers |-> [calls[d] EXCEPT !.owed = Owed(d, r, {c})]]
    /\ UNCHANGED <<database, mode, registering, wakes, timer, wakeRequested, phase,
                   faults>>

DisposerResolves(r, c) ==
    /\ c \in leaving[r]
    /\ ~(phase[r] = "admitted" /\ pass[r].current = c)
    /\ leaving' = [leaving EXCEPT ![r] = @ \ {c}]
    /\ UNCHANGED <<database, mode, registering, held, wakes, dispatcher, calls, faults>>

Close(r) ==
    /\ mode[r] = "up"
    /\ mode' = [mode EXCEPT ![r] = "closing"]
    /\ timer' = [timer EXCEPT ![r] = FALSE]
    /\ held' = [held EXCEPT ![r] = NoConsumers]
    /\ Withdraw(r, Consumers)
    /\ calls' = [d \in Callers |-> [calls[d] EXCEPT !.owed = Owed(d, r, Consumers)]]
    /\ UNCHANGED <<database, registering, leaving, wakes, wakeRequested, phase, faults>>

\* close() resolves: it joined the registrations and the running pass.
Closed(r) ==
    /\ mode[r] = "closing"
    /\ registering[r] = NoConsumers
    /\ ~Running(r)
    /\ mode' = [mode EXCEPT ![r] = "down"]
    /\ wakeRequested' = [wakeRequested EXCEPT ![r] = FALSE]
    /\ wakes' = [wakes EXCEPT ![r] = 0]
    /\ UNCHANGED <<database, registering, held, leaving, timer, phase, pass, calls, faults>>

\* The calls pending at r end: they return, or their process is gone.
CallsEnd(r) == calls' = [d \in Callers |-> IF calls[d].at = r THEN NoCall ELSE calls[d]]

Crash(r) ==
    /\ mode[r] # "down"
    /\ Fault
    /\ mode' = [mode EXCEPT ![r] = "down"]
    /\ registering' = [registering EXCEPT ![r] = NoConsumers]
    /\ held' = [held EXCEPT ![r] = NoConsumers]
    /\ leaving' = [leaving EXCEPT ![r] = {}]
    /\ wakes' = [wakes EXCEPT ![r] = 0]
    /\ timer' = [timer EXCEPT ![r] = FALSE]
    /\ wakeRequested' = [wakeRequested EXCEPT ![r] = FALSE]
    /\ phase' = [phase EXCEPT ![r] = "idle"]
    /\ pass' = [pass EXCEPT ![r] = NoPass]
    /\ CallsEnd(r)
    /\ UNCHANGED database

-----------------------------------------------------------------------------
(* drain() and its passes.                                                 *)

\* A pass begins: deliver() copies the registrations it will offer.
BeginPass(r) ==
    /\ wakeRequested' = [wakeRequested EXCEPT ![r] = FALSE]
    /\ phase' = [phase EXCEPT ![r] = IF held[r] = NoConsumers THEN "loop" ELSE "begun"]
    /\ pass' = [pass EXCEPT ![r] = [NoPass EXCEPT !.todo = held[r]]]

\* mutant: the pass begun before the call counts
Mutant_CallBound == DrainPasses

\* bounded(): at most one pass begun before the call and DRAIN_PASSES after it.
CallBound == DrainPasses + 1

Drain(d, r) ==
    /\ calls[d].at = None
    /\ mode[r] = "up" \/ Running(r)
    /\ IF Running(r)
       THEN /\ wakeRequested' = [wakeRequested EXCEPT ![r] = TRUE]
            /\ UNCHANGED <<timer, phase, pass>>
       ELSE BeginPass(r) /\ timer' = [timer EXCEPT ![r] = FALSE]
    /\ calls' = [calls EXCEPT ![d] =
            [at |-> r, left |-> CallBound,
             owed |-> [c \in Consumers |-> IF held[r][c] = None THEN None ELSE EventHead]]]
    /\ UNCHANGED <<database, subscriptions, faults>>

TimerFires(r) ==
    /\ timer[r]
    /\ timer' = [timer EXCEPT ![r] = FALSE]
    /\ BeginPass(r)
    /\ UNCHANGED <<database, subscriptions, calls, faults>>

ReadHead(r) ==
    /\ phase[r] = "begun"
    /\ phase' = [phase EXCEPT ![r] = "read"]
    /\ pass' = [pass EXCEPT ![r] = [pass[r] EXCEPT !.head = EventHead]]
    /\ UNCHANGED <<database, subscriptions, timer, wakeRequested, calls, faults>>

\* The consumers the lock-free reads find with nothing to handle up to the head.
QuietConsumers(r) ==
    {c \in Consumers : /\ pass[r].todo[c] # None
                       /\ ~waiting[c]
                       /\ cursor[c] < pass[r].head
                       /\ Quiet(pass[r].todo[c], cursor[c], pass[r].head)}

\* The progress rows and each consumer's next event, read without the lock.  A
\* consumer read as waiting is skipped unless its retry is due when its turn comes.
ReadRows(r) ==
    /\ phase[r] = "read"
    /\ \E skipped \in SUBSET {c \in Consumers : waiting[c]} :
         LET quiet == QuietConsumers(r)
             behind == {c \in Consumers : cursor[c] < pass[r].head}
         IN  /\ phase' = [phase EXCEPT ![r] = IF quiet = {} THEN "loop" ELSE "quiet"]
             /\ pass' = [pass EXCEPT ![r] = [pass[r] EXCEPT
                    !.quiet = quiet,
                    !.seen = [c \in Consumers |-> IF c \in quiet THEN cursor[c] ELSE 0],
                    !.todo = [c \in Consumers |->
                                 IF c \in behind \ skipped THEN pass[r].todo[c] ELSE None]]]
    /\ UNCHANGED <<database, subscriptions, timer, wakeRequested, calls, faults>>

\* mutant: the quiet consumers are moved whatever their rows say now
Mutant_Unchanged(r, c) == TRUE

\* Only a row that still reads as it did is passed.
Unchanged(r, c) == cursor[c] = pass[r].seen[c] /\ ~waiting[c]

\* One statement moves the quiet consumers to the head.
PassQuiet(r) ==
    LET passed == {c \in pass[r].quiet : Unchanged(r, c)}
    IN  /\ phase[r] = "quiet"
        /\ phase' = [phase EXCEPT ![r] = "loop"]
        /\ cursor' = [c \in Consumers |-> IF c \in passed THEN pass[r].head ELSE cursor[c]]
        /\ attempts' = [c \in Consumers |-> IF c \in passed THEN 0 ELSE attempts[c]]
        /\ pass' = [pass EXCEPT ![r] = [pass[r] EXCEPT
                !.quiet = {},
                !.seen = [c \in Consumers |-> 0],
                !.todo = [c \in Consumers |->
                             IF c \in passed THEN None ELSE pass[r].todo[c]]]]
        /\ UNCHANGED <<log, definition, waiting, effects, installed, blamed,
                       subscriptions, timer, wakeRequested, calls, faults>>

\* The next delivery of the current consumer, or the first of another one.
Admit(r, c) ==
    /\ phase[r] = "loop"
    /\ pass[r].todo[c] # None
    /\ c \notin pass[r].gone
    /\ pass[r].current \in {None, c} \cup pass[r].gone
    /\ phase' = [phase EXCEPT ![r] = "admitted"]
    /\ pass' = [pass EXCEPT ![r] = [pass[r] EXCEPT
            !.current = c,
            !.count = IF pass[r].current = c THEN pass[r].count ELSE 0]]
    /\ UNCHANGED <<database, subscriptions, timer, wakeRequested, calls, faults>>

\* The pass has nothing more to do for its current consumer.
Leave(r, c) == [pass[r] EXCEPT !.todo[c] = None, !.gone = @ \ {c}, !.current = None,
                               !.count = 0, !.attempted = None, !.event = None]

\* A delivery transaction: the handler and advance() to its event commit together.
CommitDelivery(c, e) ==
    /\ effects' = [effects EXCEPT ![c] = Append(@, e)]
    /\ cursor' = [cursor EXCEPT ![c] = e]
    /\ attempts' = [attempts EXCEPT ![c] = 0]
    /\ waiting' = [waiting EXCEPT ![c] = FALSE]

\* The handler may have published an event of its own in the transaction.  The commit's
\* wake is queued before the pass goes on, which until then waits for the answer.
HandlerPublishes == EventHead < MaxEvents /\ \E t \in Types : log' = Append(log, t)

\* A handler may withdraw its own registration; nothing waits for it then.
Detach(r, c, detached) ==
    /\ detached => c \notin pass[r].gone
    /\ held' = IF detached THEN [held EXCEPT ![r][c] = None] ELSE held
    /\ calls' = IF detached
                THEN [d \in Callers |-> [calls[d] EXCEPT !.owed = Owed(d, r, {c})]]
                ELSE calls

Deliver(r) ==
    LET c == pass[r].current
        types == pass[r].todo[c]
    IN  /\ phase[r] = "admitted"
        /\ ~waiting[c]
        /\ \E e \in 1..EventHead, detached \in BOOLEAN :
             LET more == pass[r].count + 1 < BatchSize /\ ~detached /\ c \notin pass[r].gone
                 backlog == pass[r].backlog
                               \/ (pass[r].count = BatchSize - 1 /\ e < pass[r].head)
             IN  /\ IsNextEvent(e, cursor[c], types)
                 /\ CommitDelivery(c, e)
                 /\ Detach(r, c, detached)
                 /\ pass' = [pass EXCEPT ![r] =
                        IF more
                        THEN [pass[r] EXCEPT !.count = @ + 1]
                        ELSE [Leave(r, c) EXCEPT !.backlog = backlog]]
        /\ \/ HandlerPublishes /\ Wake(r)
           \/ log' = log /\ NoWake
        /\ phase' = [phase EXCEPT ![r] = "loop"]
        /\ UNCHANGED <<definition, installed, blamed, mode, registering, leaving, wakes,
                       faults>>

\* No event of the consumer's types is left: the cursor moves to the head read under
\* the lock, unless it stands there.
MoveToHead(c, types) ==
    /\ ~waiting[c]
    /\ Quiet(types, cursor[c], EventHead)
    /\ cursor' = [cursor EXCEPT ![c] = EventHead]
    /\ attempts' = [attempts EXCEPT ![c] = IF cursor[c] < EventHead THEN 0 ELSE @]

\* The transaction finds a retry not yet due, or no event left.
NothingLeft(r) ==
    LET c == pass[r].current
    IN  /\ phase[r] = "admitted"
        /\ \/ waiting[c] /\ UNCHANGED <<cursor, attempts>>
           \/ MoveToHead(c, pass[r].todo[c])
        /\ phase' = [phase EXCEPT ![r] = "loop"]
        /\ pass' = [pass EXCEPT ![r] = Leave(r, c)]
        /\ UNCHANGED <<log, definition, waiting, effects, installed, blamed, subscriptions,
                       timer, wakeRequested, calls, faults>>

\* The transaction rejects: attemptedCursor if it read its row, attemptedEvent if it
\* found an event.
Attempted(r, from, event) ==
    /\ Fault
    /\ phase' = [phase EXCEPT ![r] = "failed"]
    /\ pass' = [pass EXCEPT ![r] = [pass[r] EXCEPT !.attempted = from, !.event = event]]

\* The handler rejects, or COMMIT does: effects and cursor roll back.
HandlerFails(r) ==
    LET c == pass[r].current
    IN  /\ phase[r] = "admitted"
        /\ ~waiting[c]
        /\ \E e \in 1..EventHead : /\ IsNextEvent(e, cursor[c], pass[r].todo[c])
                                   /\ Attempted(r, cursor[c], e)
        /\ \E detached \in BOOLEAN : Detach(r, c, detached)
        /\ UNCHANGED <<database, mode, registering, leaving, wakes, timer, wakeRequested>>

\* A statement fails between reading the row and finding an event, or, where there is
\* none, while the cursor moves to the head: everything rolls back.
LookupFails(r) ==
    LET c == pass[r].current
    IN  /\ StorageFaults
        /\ phase[r] = "admitted"
        /\ ~waiting[c]
        /\ Attempted(r, cursor[c], None)
        /\ UNCHANGED <<database, subscriptions, timer, wakeRequested, calls>>

\* The delivery commits, but its connection is lost before the answer.
AnswerLost(r) ==
    LET c == pass[r].current
    IN  /\ StorageFaults
        /\ phase[r] = "admitted"
        /\ ~waiting[c]
        /\ \E e \in 1..EventHead : /\ IsNextEvent(e, cursor[c], pass[r].todo[c])
                                   /\ CommitDelivery(c, e)
                                   /\ Attempted(r, cursor[c], e)
        /\ \/ HandlerPublishes
           \/ log' = log
        /\ UNCHANGED <<definition, installed, blamed, subscriptions, timer, wakeRequested,
                       calls>>

\* So is the answer of a transaction that found no event.
MoveAnswerLost(r) ==
    LET c == pass[r].current
    IN  /\ StorageFaults
        /\ phase[r] = "admitted"
        /\ MoveToHead(c, pass[r].todo[c])
        /\ Attempted(r, cursor[c], None)
        /\ UNCHANGED <<log, definition, waiting, effects, installed, blamed, subscriptions,
                       timer, wakeRequested, calls>>

\* The writer lock is not granted in time: the transaction never read its row.  One that
\* found its retry not yet due and fails then leaves no trace either.
LockTimesOut(r) ==
    /\ StorageFaults
    /\ phase[r] = "admitted"
    /\ Attempted(r, None, None)
    /\ UNCHANGED <<database, subscriptions, timer, wakeRequested, calls>>

\* mutant: a failure is recorded wherever the cursor stands by then
Mutant_StillFailing(r) == TRUE

\* The row is where the failed delivery found it: nobody delivered meanwhile.
StillFailing(r) == cursor[pass[r].current] = pass[r].attempted

RecordFailure(r) ==
    LET c == pass[r].current
    IN  /\ phase[r] = "failed"
        /\ IF StillFailing(r)
           THEN /\ attempts' = [attempts EXCEPT ![c] = @ + 1]
                /\ waiting' = [waiting EXCEPT ![c] = TRUE]
                /\ blamed' = [blamed EXCEPT ![c] = pass[r].event]
           ELSE UNCHANGED <<attempts, waiting, blamed>>
        /\ phase' = [phase EXCEPT ![r] = "loop"]
        /\ pass' = [pass EXCEPT ![r] = Leave(r, c)]
        /\ UNCHANGED <<log, definition, cursor, effects, installed, subscriptions, timer,
                       wakeRequested, calls, faults>>

\* Every consumer of the pass had its turn or was withdrawn.
PassDone(r) ==
    /\ phase[r] = "loop"
    /\ \A c \in Consumers : pass[r].todo[c] = None \/ c \in pass[r].gone

\* mutant: a commit during the pass asks for no further pass
Mutant_AnotherPass(r) == mode[r] = "up" /\ pass[r].backlog

AnotherPass(r) == mode[r] = "up" /\ (pass[r].backlog \/ wakeRequested[r])

\* mutant: covered passes answer no call
Mutant_Covered(r) == calls

\* covered++ and the bounded calls it answers.
Covered(r) ==
    [d \in Callers |->
        IF calls[d].at # r \/ pass[r].backlog THEN calls[d]
        ELSE IF calls[d].left <= 1 THEN NoCall
        ELSE [calls[d] EXCEPT !.left = @ - 1]]

NextPass(r) ==
    /\ PassDone(r)
    /\ AnotherPass(r)
    /\ calls' = Covered(r)
    /\ BeginPass(r)
    /\ UNCHANGED <<database, subscriptions, timer, faults>>

\* mutant: no poll follows the passes
Mutant_Rest(r) ==
    /\ phase' = [phase EXCEPT ![r] = "idle"]
    /\ pass' = [pass EXCEPT ![r] = NoPass]
    /\ CallsEnd(r)
    /\ UNCHANGED timer

\* The slow poll: whatever ended the passes, an open dispatcher looks again.
Rest(r) ==
    /\ phase' = [phase EXCEPT ![r] = "idle"]
    /\ pass' = [pass EXCEPT ![r] = NoPass]
    /\ timer' = [timer EXCEPT ![r] = mode[r] = "up"]
    /\ CallsEnd(r)

PassesEnd(r) ==
    /\ PassDone(r)
    /\ ~AnotherPass(r)
    /\ Rest(r)
    /\ UNCHANGED <<database, subscriptions, wakeRequested, faults>>

\* A read or a transaction of the dispatcher itself fails: drain() rejects.
StorageFails(r) ==
    /\ phase[r] \in {"begun", "read", "quiet", "failed"}
    /\ Fault
    /\ Rest(r)
    /\ UNCHANGED <<database, subscriptions, wakeRequested>>

\* Time reaches the row's retry_at.
RetryDue(c) ==
    /\ waiting[c]
    /\ waiting' = [waiting EXCEPT ![c] = FALSE]
    /\ UNCHANGED <<log, definition, cursor, attempts, effects, installed, blamed,
                   subscriptions, dispatcher, calls, faults>>

\* What a running pass does next while nothing fails.
PassStep(r) ==
    \/ ReadHead(r) \/ ReadRows(r) \/ PassQuiet(r)
    \/ \E c \in Consumers : Admit(r, c)
    \/ Deliver(r) \/ NothingLeft(r) \/ RecordFailure(r)
    \/ NextPass(r) \/ PassesEnd(r)

Failure(r) ==
    \/ HandlerFails(r) \/ LookupFails(r) \/ AnswerLost(r) \/ MoveAnswerLost(r)
    \/ LockTimesOut(r) \/ StorageFails(r) \/ Crash(r)

RuntimeStep(r) ==
    \/ Initialize(r) \/ Close(r) \/ Closed(r)
    \/ \E c \in Consumers : \/ Subscribe(r, c) \/ Registered(r, c) \/ RegistrationFails(r, c)
                            \/ Dispose(r, c) \/ DisposerResolves(r, c)
    \/ \E d \in Callers : Drain(d, r)
    \/ TimerFires(r)
    \/ PassStep(r)
    \/ Failure(r)

Next ==
    \/ \E r \in Publishers : Publish(r)
    \/ \E r \in Runtimes : WakeArrives(r) \/ RuntimeStep(r)
    \/ \E c \in Consumers : RetryDue(c)

Spec == Init /\ [][Next]_vars

\* Event-loop callbacks, timers and database answers arrive; a stopped process is
\* restarted; a retry deadline passes.  Nothing external has to happen.
Fairness ==
    /\ \A r \in Runtimes :
         /\ WF_vars(Initialize(r))
         /\ WF_vars(Closed(r))
         /\ WF_vars(WakeArrives(r))
         /\ WF_vars(TimerFires(r))
         /\ WF_vars(PassStep(r))
         /\ \A c \in Consumers : WF_vars(Registered(r, c)) /\ WF_vars(DisposerResolves(r, c))
    /\ \A c \in Consumers : WF_vars(RetryDue(c))

FairSpec == Spec /\ Fairness

-----------------------------------------------------------------------------
(* Properties.                                                             *)

\* Event IDs a consumer owes its handler between two cursors.
Subscribed(c, from, to) == {e \in (from + 1)..to : log[e] \in definition[c]}

Elements(seq) == {seq[i] : i \in DOMAIN seq}

Increasing(seq) == \A i, j \in DOMAIN seq : i < j => seq[i] < seq[j]

\* Whatever the dispatchers, failures, retries, reloads and crashes: the effects a
\* consumer's handler committed are those of exactly the events of its types between
\* the start of its installation and its cursor, each once and in log order.
ExactlyOnceInOrder ==
    \A c \in Consumers :
        /\ Increasing(effects[c])
        /\ Elements(effects[c]) =
               IF definition[c] = None THEN {} ELSE Subscribed(c, installed[c], cursor[c])

\* A consumer in retry is held back by the event its failure is reported for: that event
\* is still the next one it owes, so a failure that lost the race with another dispatcher's
\* (or its own lost) commit puts nothing into retry.  Only a failing database leaves a
\* failure that names no event, and with it perhaps a consumer in retry with nothing left.
RetryHasWork ==
    \A c \in Consumers :
        attempts[c] > 0 =>
            IF blamed[c] = None THEN StorageFaults
            ELSE IsNextEvent(blamed[c], cursor[c], definition[c])

\* A handler transaction is in flight only for a registration that is still active, or
\* whose disposer (or close()) has not resolved yet; a stopped dispatcher does nothing.
NoWorkOutlivesItsOwner ==
    \A r \in Runtimes :
        /\ mode[r] = "down" =>
               ~Running(r) /\ ~timer[r] /\ registering[r] = NoConsumers
        /\ phase[r] = "admitted" =>
               \/ mode[r] = "closing"
               \/ pass[r].current \in leaving[r]
               \/ /\ pass[r].current \notin pass[r].gone
                  /\ held[r][pass[r].current] # None

\* An open dispatcher with no pass running has its timer armed: it never goes to sleep.
NeverAsleep == \A r \in Runtimes : mode[r] = "up" => Running(r) \/ timer[r]

\* A drain() that returns (a rejection or a crash counts a fault) has delivered all that
\* was committed before the call, but to consumers in retry and to registrations
\* withdrawn since: it is answered neither by a pass begun before the call nor by a
\* pass that left a backlog.
DrainDelivers ==
    [][\A d \in Callers :
          calls[d].at # None /\ calls'[d].at = None /\ faults' = faults =>
              \A c \in Consumers :
                  calls[d].owed[c] # None =>
                      \/ attempts[c] > 0
                      \/ definition[c] # None /\ Subscribed(c, cursor[c], calls[d].owed[c]) = {}]_vars

\* With every event published through this runtime, its passes end only when no active
\* consumer that is not in retry has anything left, or while the wake of a commit is still
\* to come: whenever a wake arrives between the steps of a pass, it is not lost.
SettledAtRest ==
    [][\A r \in Runtimes :
          phase[r] # "idle" /\ phase'[r] = "idle" /\ mode[r] = "up" /\ faults' = faults =>
              \/ wakes[r] > 0
              \/ \A c \in Consumers :
                    held[r][c] # None => attempts[c] > 0 \/ Subscribed(c, cursor[c], EventHead) = {}]_vars

Active(c) == \E r \in Runtimes : held[r][c] # None

\* Every committed event of an active consumer's types is handled in the end, unless the
\* consumer is withdrawn, although handlers fail and dispatchers restart.
Handled ==
    \A c \in Consumers, e \in 1..MaxEvents :
        (Active(c) /\ e <= EventHead) ~> (cursor[c] >= e \/ ~Active(c))

\* drain() returns although commits and registrations keep waking further passes.
DrainReturns == \A d \in Callers : (calls[d].at # None) ~> (calls[d].at = None)

Promise == INSTANCE EventDelivery
Delivery == Promise!Spec
=============================================================================

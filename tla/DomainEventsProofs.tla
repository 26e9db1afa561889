------------------------- MODULE DomainEventsProofs -------------------------
(***************************************************************************)
(* For any number of runtimes, consumers, events and faults: DomainEvents  *)
(* is type correct, delivers exactly once and in order, and implements     *)
(* EventDelivery.  The three follow from one inductive invariant; who a    *)
(* dispatcher works for and what is in retry are two more, that build on it.*)
(***************************************************************************)
EXTENDS DomainEvents, TLAPS

\* What the promise is about.  Everything else decides when it moves.
core == <<log, definition, cursor, installed, effects>>

Busy(ph) == ph \in {"admitted", "failed"}

\* With log lg and definitions df: a pass knows a head that was committed, offers
\* registrations with the types of their rows, and has seen that its quiet consumers
\* have nothing to handle up to that head.
PassFits(lg, df, ph, p) ==
    /\ p \in Passes
    /\ p.head <= Len(lg)
    /\ Busy(ph) => p.current \in Consumers /\ p.todo[p.current] # None
    /\ \A c \in Consumers : p.todo[c] \in {None, df[c]}
    /\ p.quiet # {} => ph = "quiet"
    /\ \A c \in p.quiet : /\ df[c] # None
                          /\ p.seen[c] <= p.head
                          /\ \A e \in (p.seen[c] + 1)..p.head : lg[e] \notin df[c]

PassInv ==
    /\ timer \in [Runtimes -> BOOLEAN]
    /\ wakeRequested \in [Runtimes -> BOOLEAN]
    /\ phase \in [Runtimes -> Phases]
    /\ pass \in [Runtimes -> Passes]
    /\ \A r \in Runtimes : PassFits(log, definition, phase[r], pass[r])

HeldInv ==
    /\ SubscriptionType
    /\ \A r \in Runtimes, c \in Consumers : held[r][c] \in {None, definition[c]}

CoreInv ==
    /\ LogType
    /\ \A c \in Consumers : /\ installed[c] <= cursor[c]
                            /\ definition[c] = None => effects[c] = <<>>

IInv ==
    /\ CoreInv
    /\ HeldInv
    /\ PassInv
    /\ RetryType
    /\ blamed \in [Consumers -> Nat \cup {None}]
    /\ wakes \in [Runtimes -> Nat]
    /\ calls \in [Callers -> Calls]
    /\ ExactlyOnceInOrder

-----------------------------------------------------------------------------
(* Which steps move the core, and how far.                                 *)

CoreStep ==
    \/ \E r \in Publishers : Publish(r)
    \/ \E r \in Runtimes, c \in Consumers : Registered(r, c)
    \/ \E r \in Runtimes : \/ PassQuiet(r) \/ Deliver(r) \/ AnswerLost(r)
                           \/ NothingLeft(r) \/ MoveAnswerLost(r)

\* Every other step leaves log, cursors and effects alone.
LEMMA CoreSteps == [Next]_vars => CoreStep \/ UNCHANGED core
<1> SUFFICES ASSUME [Next]_vars, ~CoreStep PROVE UNCHANGED core
  OBVIOUS
<1> USE DEF core, database
<1>1. CASE UNCHANGED vars
  BY <1>1 DEF vars
<1>2. ASSUME NEW c \in Consumers, RetryDue(c) PROVE UNCHANGED core
  BY <1>2 DEF RetryDue
<1>4. ASSUME NEW r \in Runtimes, WakeArrives(r) PROVE UNCHANGED core
  BY <1>4 DEF WakeArrives
<1>3. ASSUME NEW r \in Runtimes, RuntimeStep(r) PROVE UNCHANGED core
  <2>1. CASE Initialize(r) \/ Close(r) \/ Closed(r) \/ TimerFires(r) \/ Crash(r)
    BY <2>1 DEF Initialize, Close, Closed, TimerFires, Crash
  <2>2. ASSUME NEW c \in Consumers,
               \/ Subscribe(r, c) \/ RegistrationFails(r, c)
               \/ Dispose(r, c) \/ DisposerResolves(r, c)
        PROVE  UNCHANGED core
    BY <2>2 DEF Subscribe, RegistrationFails, Dispose, DisposerResolves
  <2>3. ASSUME NEW d \in Callers, Drain(d, r) PROVE UNCHANGED core
    BY <2>3 DEF Drain
  <2>4. ASSUME NEW c \in Consumers, Admit(r, c) PROVE UNCHANGED core
    BY <2>4 DEF Admit
  <2>5. CASE ReadHead(r) \/ ReadRows(r) \/ RecordFailure(r) \/ NextPass(r) \/ PassesEnd(r)
    BY <2>5 DEF ReadHead, ReadRows, RecordFailure, NextPass, PassesEnd
  <2>6. CASE HandlerFails(r) \/ LookupFails(r) \/ LockTimesOut(r) \/ StorageFails(r)
    BY <2>6 DEF HandlerFails, LookupFails, LockTimesOut, StorageFails
  <2> QED BY <1>3, <2>1, <2>2, <2>3, <2>4, <2>5, <2>6
          DEF RuntimeStep, PassStep, Failure, CoreStep
<1> QED BY <1>1, <1>2, <1>3, <1>4 DEF Next, CoreStep

\* The log only grows, and a definition never changes once it is there.
Grows ==
    /\ Len(log') \in Nat
    /\ Len(log) <= Len(log')
    /\ \A e \in 1..Len(log) : log'[e] = log[e]
    /\ \A c \in Consumers : definition[c] = None \/ definition'[c] = definition[c]

LEMMA AppendGrows ==
    ASSUME LogType, NEW t \in Types, log' = Append(log, t)
    PROVE  /\ log' \in Seq(Types)
           /\ Len(log') = Len(log) + 1
           /\ \A e \in 1..Len(log) : log'[e] = log[e]
BY DEF LogType

LEMMA LogGrows == ASSUME LogType, [Next]_vars PROVE Grows
<1>1. CASE UNCHANGED core
  BY <1>1 DEF core, Grows, LogType
<1>2. ASSUME NEW r \in Publishers, Publish(r) PROVE Grows
  BY <1>2, AppendGrows DEF Publish, Grows, LogType
<1>3. ASSUME NEW r \in Runtimes, NEW c \in Consumers, Registered(r, c) PROVE Grows
  BY <1>3 DEF Registered, Grows, LogType
<1>4. ASSUME NEW r \in Runtimes, PassQuiet(r) \/ NothingLeft(r) \/ MoveAnswerLost(r)
      PROVE  Grows
  BY <1>4 DEF PassQuiet, NothingLeft, MoveAnswerLost, Grows, LogType
<1>5. ASSUME NEW r \in Runtimes, Deliver(r) \/ AnswerLost(r) PROVE Grows
  <2>1. definition' = definition /\ (HandlerPublishes \/ log' = log)
    BY <1>5 DEF Deliver, AnswerLost
  <2> QED BY <2>1, AppendGrows DEF HandlerPublishes, Grows, LogType
<1> QED BY <1>1, <1>2, <1>3, <1>4, <1>5, CoreSteps DEF CoreStep

-----------------------------------------------------------------------------
(* Registrations carry the types of their rows.                            *)

LEMMA HeldKept ==
    ASSUME HeldInv, Grows, SubscriptionType',
           \A r \in Runtimes, c \in Consumers : held'[r][c] \in {None, held[r][c]}
    PROVE  HeldInv'
<1>1. \A r \in Runtimes, c \in Consumers : held[r][c] \in {None, definition[c]}
  BY DEF HeldInv
<1>2. \A r \in Runtimes, c \in Consumers : held'[r][c] \in {None, definition'[c]}
  BY <1>1 DEF Grows
<1> QED BY <1>2 DEF HeldInv

LEMMA HeldWithdrawn ==
    ASSUME HeldInv, NEW r \in Runtimes, NEW c,
           held' = held \/ held' = [held EXCEPT ![r][c] = None]
    PROVE  /\ held' \in [Runtimes -> [Consumers -> Definitions \cup {None}]]
           /\ \A q \in Runtimes, d \in Consumers : held'[q][d] \in {None, held[q][d]}
<1>1. held \in [Runtimes -> [Consumers -> Definitions \cup {None}]]
  BY DEF HeldInv, SubscriptionType
<1>2. CASE held' = held
  BY <1>1, <1>2
<1>3. CASE held' = [held EXCEPT ![r][c] = None]
  <2>1. held' \in [Runtimes -> [Consumers -> Definitions \cup {None}]]
    BY <1>1, <1>3
  <2>2. \A q \in Runtimes, d \in Consumers : held'[q][d] \in {None, held[q][d]}
    BY <1>1, <1>3
  <2> QED BY <2>1, <2>2
<1> QED BY <1>2, <1>3

LEMMA HeldStep == ASSUME CoreInv, HeldInv, [Next]_vars PROVE HeldInv'
<1>1. Grows
  BY LogGrows DEF CoreInv
<1>2. ASSUME UNCHANGED <<mode, registering, held, leaving>> PROVE HeldInv'
  <2>1. SubscriptionType'
    BY <1>2 DEF HeldInv, SubscriptionType
  <2> QED BY <1>1, <1>2, <2>1, HeldKept
<1>3. CASE UNCHANGED vars
  BY <1>2, <1>3 DEF vars, subscriptions
<1>4. ASSUME NEW c \in Consumers, RetryDue(c) PROVE HeldInv'
  BY <1>2, <1>4 DEF RetryDue, subscriptions
<1>5. ASSUME NEW r \in Publishers, Publish(r) PROVE HeldInv'
  BY <1>2, <1>5 DEF Publish
<1>7. ASSUME NEW r \in Runtimes, WakeArrives(r) PROVE HeldInv'
  BY <1>2, <1>7 DEF WakeArrives
<1>6. ASSUME NEW r \in Runtimes, RuntimeStep(r) PROVE HeldInv'
  <2>0. SubscriptionType
    BY DEF HeldInv
  <2>1. CASE Initialize(r) \/ Closed(r)
    <3>1. /\ UNCHANGED <<registering, held, leaving>>
          /\ mode' = [mode EXCEPT ![r] = "up"] \/ mode' = [mode EXCEPT ![r] = "down"]
      BY <2>1 DEF Initialize, Closed
    <3>2. SubscriptionType'
      BY <3>1, <2>0 DEF SubscriptionType
    <3> QED BY <3>1, <3>2, <1>1, HeldKept
  <2>2. CASE Close(r) \/ Crash(r)
    <3>1. /\ mode' = [mode EXCEPT ![r] = "closing"] \/ mode' = [mode EXCEPT ![r] = "down"]
          /\ held' = [held EXCEPT ![r] = NoConsumers]
          /\ registering' = registering \/ registering' = [registering EXCEPT ![r] = NoConsumers]
          /\ leaving' = leaving \/ leaving' = [leaving EXCEPT ![r] = {}]
      BY <2>2 DEF Close, Crash
    <3>2. SubscriptionType'
      <4>1. mode' \in [Runtimes -> {"down", "up", "closing"}]
        BY <3>1, <2>0 DEF SubscriptionType
      <4>2. held' \in [Runtimes -> [Consumers -> Definitions \cup {None}]]
        BY <3>1, <2>0 DEF SubscriptionType, NoConsumers
      <4>3. registering' \in [Runtimes -> [Consumers -> Definitions \cup {None}]]
        BY <3>1, <2>0 DEF SubscriptionType, NoConsumers
      <4>4. leaving' \in [Runtimes -> SUBSET Consumers]
        BY <3>1, <2>0 DEF SubscriptionType
      <4> QED BY <4>1, <4>2, <4>3, <4>4 DEF SubscriptionType
    <3>3. \A q \in Runtimes, c \in Consumers : held'[q][c] \in {None, held[q][c]}
      BY <3>1, <2>0 DEF SubscriptionType, NoConsumers
    <3> QED BY <3>2, <3>3, <1>1, HeldKept
  <2>3. ASSUME NEW c \in Consumers, Subscribe(r, c) \/ RegistrationFails(r, c) PROVE HeldInv'
    <3>1. /\ UNCHANGED <<mode, held, leaving>>
          /\ \E types \in Definitions \cup {None} :
                registering' = [registering EXCEPT ![r][c] = types]
      BY <2>3 DEF Subscribe, RegistrationFails
    <3>2. SubscriptionType'
      BY <3>1, <2>0 DEF SubscriptionType
    <3> QED BY <3>1, <3>2, <1>1, HeldKept
  <2>4. ASSUME NEW c \in Consumers, Registered(r, c) PROVE HeldInv'
    <3> DEFINE types == registering[r][c]
    <3>1. types \in Definitions /\ types # None
      BY <2>4, <2>0, ConstantsAssumption DEF Registered, SubscriptionType
    <3>2. registering' = [registering EXCEPT ![r][c] = None] /\ UNCHANGED <<mode, leaving>>
      BY <2>4 DEF Registered
    <3>3. CASE UNCHANGED held
      <4>1. SubscriptionType'
        BY <3>2, <3>3, <2>0 DEF SubscriptionType
      <4> QED BY <3>3, <4>1, <1>1, HeldKept
    <3>4. CASE MayInstall(c, types) /\ held' = [held EXCEPT ![r][c] = types]
      <4>1. definition'[c] = types
        BY <2>4, <3>1, <3>4 DEF Registered, MayInstall, CoreInv, LogType
      <4>2. SubscriptionType'
        BY <3>1, <3>2, <3>4, <2>0 DEF SubscriptionType
      <4>3. \A q \in Runtimes, d \in Consumers :
                held'[q][d] = IF q = r /\ d = c THEN types ELSE held[q][d]
        BY <3>4, <2>0 DEF SubscriptionType
      <4>4. \A q \in Runtimes, d \in Consumers : held'[q][d] \in {None, definition'[d]}
        BY <4>1, <4>3, <1>1 DEF HeldInv, Grows
      <4> QED BY <4>2, <4>4 DEF HeldInv
    <3> QED BY <2>4, <3>3, <3>4 DEF Registered
  <2>5. ASSUME NEW c \in Consumers, Dispose(r, c) \/ DisposerResolves(r, c) PROVE HeldInv'
    <3>1. /\ UNCHANGED <<mode, registering>>
          /\ held' = held \/ held' = [held EXCEPT ![r][c] = None]
          /\ \/ leaving' = [leaving EXCEPT ![r] = @ \cup ({c} \cap Admitted(r))]
             \/ leaving' = [leaving EXCEPT ![r] = @ \ {c}]
      BY <2>5 DEF Dispose, DisposerResolves
    <3>2. leaving' \in [Runtimes -> SUBSET Consumers]
      <4>1. leaving \in [Runtimes -> SUBSET Consumers]
        BY <2>0 DEF SubscriptionType
      <4>2. /\ leaving[r] \cup ({c} \cap Admitted(r)) \in SUBSET Consumers
            /\ leaving[r] \ {c} \in SUBSET Consumers
        BY <4>1
      <4> QED BY <3>1, <4>1, <4>2
    <3>3. SubscriptionType'
      BY <3>1, <3>2, <2>0, HeldWithdrawn DEF SubscriptionType
    <3> QED BY <3>1, <3>3, <1>1, HeldWithdrawn, HeldKept
  <2>6. ASSUME NEW d \in Callers, Drain(d, r) PROVE HeldInv'
    BY <2>6, <1>2 DEF Drain, subscriptions
  <2>7. CASE TimerFires(r)
    BY <2>7, <1>2 DEF TimerFires, subscriptions
  <2>8. CASE PassStep(r) /\ ~Deliver(r)
    BY <2>8, <1>2 DEF PassStep, ReadHead, ReadRows, PassQuiet, Admit, NothingLeft,
                      RecordFailure, NextPass, PassesEnd, subscriptions
  <2>9. CASE Deliver(r) \/ HandlerFails(r)
    <3> DEFINE c == pass[r].current
    <3>1. /\ UNCHANGED <<mode, registering, leaving>>
          /\ held' = held \/ held' = [held EXCEPT ![r][c] = None]
      <4>1. CASE Deliver(r)
        BY <4>1 DEF Deliver, Detach
      <4>2. CASE HandlerFails(r)
        BY <4>2 DEF HandlerFails, Detach
      <4> QED BY <2>9, <4>1, <4>2
    <3>2. SubscriptionType'
      BY <3>1, <2>0, HeldWithdrawn DEF SubscriptionType
    <3> QED BY <3>1, <3>2, <1>1, HeldWithdrawn, HeldKept
  <2>10. CASE \/ LookupFails(r) \/ AnswerLost(r) \/ MoveAnswerLost(r)
              \/ LockTimesOut(r) \/ StorageFails(r)
    BY <2>10, <1>2 DEF LookupFails, AnswerLost, MoveAnswerLost, LockTimesOut, StorageFails,
                       subscriptions
  <2> QED BY <1>6, <2>1, <2>2, <2>3, <2>4, <2>5, <2>6, <2>7, <2>8, <2>9, <2>10
          DEF RuntimeStep, Failure
<1> QED BY <1>3, <1>4, <1>5, <1>6, <1>7 DEF Next

-----------------------------------------------------------------------------
(* What a pass knows stays true while others move.                         *)

LEMMA PassFitsGrows ==
    ASSUME LogType, Grows, NEW ph, NEW p, PassFits(log, definition, ph, p)
    PROVE  PassFits(log', definition', ph, p)
<1>1. /\ p.quiet \subseteq Consumers
      /\ p.head \in Nat
      /\ p.seen \in [Consumers -> Nat]
  BY DEF PassFits, Passes
<1>2. p.head <= Len(log')
  BY <1>1 DEF PassFits, Grows, LogType
<1>3. ASSUME NEW c \in p.quiet
      PROVE  /\ definition'[c] # None
             /\ \A e \in (p.seen[c] + 1)..p.head : log'[e] \notin definition'[c]
  <2>1. /\ definition[c] # None
        /\ \A e \in (p.seen[c] + 1)..p.head : log[e] \notin definition[c]
        /\ p.head <= Len(log)
    BY DEF PassFits
  <2>2. definition'[c] = definition[c]
    BY <1>1, <2>1 DEF Grows
  <2>3. \A e \in (p.seen[c] + 1)..p.head : e \in 1..Len(log)
    BY <1>1, <2>1 DEF LogType
  <2> QED BY <2>1, <2>2, <2>3 DEF Grows
<1> QED BY <1>1, <1>2, <1>3 DEF PassFits, Grows

\* One runtime's pass moves; the others keep what they know.
LEMMA PassMoves ==
    ASSUME LogType, Grows, PassInv,
           NEW r \in Runtimes, NEW ph \in Phases, NEW p, PassFits(log', definition', ph, p),
           phase' = [phase EXCEPT ![r] = ph], pass' = [pass EXCEPT ![r] = p],
           timer' \in [Runtimes -> BOOLEAN], wakeRequested' \in [Runtimes -> BOOLEAN]
    PROVE  PassInv'
<1>1. p \in Passes
  BY DEF PassFits
<1>2. phase' \in [Runtimes -> Phases] /\ pass' \in [Runtimes -> Passes]
  BY <1>1 DEF PassInv
<1>3. ASSUME NEW q \in Runtimes PROVE PassFits(log', definition', phase'[q], pass'[q])
  <2>1. CASE q = r
    BY <2>1 DEF PassInv
  <2>2. CASE q # r
    <3>1. phase'[q] = phase[q] /\ pass'[q] = pass[q]
      BY <2>2 DEF PassInv
    <3>2. PassFits(log, definition, phase[q], pass[q])
      BY DEF PassInv
    <3> QED BY <3>1, <3>2, PassFitsGrows
  <2> QED BY <2>1, <2>2
<1> QED BY <1>2, <1>3 DEF PassInv

LEMMA PassesRest ==
    ASSUME LogType, Grows, PassInv, UNCHANGED <<phase, pass>>,
           timer' \in [Runtimes -> BOOLEAN], wakeRequested' \in [Runtimes -> BOOLEAN]
    PROVE  PassInv'
<1>1. \A q \in Runtimes : PassFits(log', definition', phase'[q], pass'[q])
  BY PassFitsGrows DEF PassInv
<1> QED BY <1>1 DEF PassInv

LEMMA WakeType ==
    ASSUME PassInv, NEW r \in Runtimes, Wake(r) \/ NoWake
    PROVE  timer' \in [Runtimes -> BOOLEAN] /\ wakeRequested' \in [Runtimes -> BOOLEAN]
<1>1. CASE NoWake
  BY <1>1 DEF PassInv, NoWake
<1>2. CASE Wake(r)
  <2>1. timer' \in [Runtimes -> BOOLEAN]
    BY <1>2 DEF PassInv, Wake
  <2>2. wakeRequested' \in [Runtimes -> BOOLEAN]
    BY <1>2 DEF PassInv, Wake
  <2> QED BY <2>1, <2>2
<1> QED BY <1>1, <1>2

\* The shapes of pass that deliver() makes out of one another.
LEMMA Idle ==
    ASSUME LogType, NEW ph, ~Busy(ph)
    PROVE  PassFits(log, definition, ph, NoPass)
<1>1. NoPass \in Passes
  BY ConstantsAssumption DEF NoPass, NoConsumers, Passes
<1> QED BY <1>1 DEF PassFits, NoPass, NoConsumers, LogType

LEMMA Begun ==
    ASSUME LogType, HeldInv, NEW r \in Runtimes, NEW ph, ~Busy(ph)
    PROVE  PassFits(log, definition, ph, [NoPass EXCEPT !.todo = held[r]])
<1>1. held[r] \in [Consumers -> Definitions \cup {None}]
  BY DEF HeldInv, SubscriptionType
<1>2. NoPass \in Passes
  BY ConstantsAssumption DEF NoPass, NoConsumers, Passes
<1>3. [NoPass EXCEPT !.todo = held[r]] \in Passes
  BY <1>1, <1>2 DEF Passes
<1> QED BY <1>1, <1>3 DEF PassFits, NoPass, HeldInv, LogType

LEMMA Left ==
    ASSUME NEW lg, NEW df, NEW r \in Runtimes, NEW c \in Consumers, NEW ph, NEW qh,
           ~Busy(ph), Busy(qh), PassFits(lg, df, qh, pass[r])
    PROVE  PassFits(lg, df, ph, Leave(r, c))
<1>1. Leave(r, c) \in Passes
  BY ConstantsAssumption DEF PassFits, Leave, Passes
<1>2. /\ Leave(r, c).head = pass[r].head
      /\ Leave(r, c).quiet = pass[r].quiet
      /\ Leave(r, c).seen = pass[r].seen
      /\ \A d \in Consumers : Leave(r, c).todo[d] \in {None, pass[r].todo[d]}
  BY DEF Leave, PassFits, Passes
<1>3. pass[r].quiet = {}
  BY DEF PassFits, Busy
<1> QED BY <1>1, <1>2, <1>3 DEF PassFits

LEMMA PassStepInv == ASSUME CoreInv, HeldInv, PassInv, [Next]_vars PROVE PassInv'
<1>1. Grows /\ LogType
  BY LogGrows DEF CoreInv
<1>2. ASSUME UNCHANGED <<phase, pass, timer, wakeRequested>> PROVE PassInv'
  BY <1>1, <1>2, PassesRest DEF PassInv
<1>3. CASE UNCHANGED vars
  BY <1>2, <1>3 DEF vars, dispatcher
<1>4. ASSUME NEW c \in Consumers, RetryDue(c) PROVE PassInv'
  BY <1>2, <1>4 DEF RetryDue, dispatcher
<1>5. ASSUME NEW r \in Publishers, Publish(r) PROVE PassInv'
  BY <1>2, <1>5 DEF Publish, dispatcher
<1>7. ASSUME NEW r \in Runtimes, WakeArrives(r) PROVE PassInv'
  <2>1. UNCHANGED <<phase, pass>> /\ Wake(r)
    BY <1>7 DEF WakeArrives
  <2> QED BY <1>1, <2>1, WakeType, PassesRest
<1>6. ASSUME NEW r \in Runtimes, RuntimeStep(r) PROVE PassInv'
  <2> DEFINE p == pass[r]
             ph == phase[r]
             c == p.current
  <2>1. /\ p \in Passes
        /\ ph \in Phases
        /\ PassFits(log, definition, ph, p)
        /\ PassFits(log', definition', ph, p)
        /\ timer \in [Runtimes -> BOOLEAN]
        /\ wakeRequested \in [Runtimes -> BOOLEAN]
    BY <1>1, PassFitsGrows DEF PassInv
  <2>2. Busy(ph) => c \in Consumers
    BY <2>1 DEF PassFits
  <2>3. ASSUME BeginPass(r), log' = log, definition' = definition,
               timer' = timer \/ timer' = [timer EXCEPT ![r] = FALSE]
        PROVE  PassInv'
    <3>1. \E n \in {"loop", "begun"} : phase' = [phase EXCEPT ![r] = n]
      BY <2>3 DEF BeginPass
    <3>2. PICK n \in {"loop", "begun"} : phase' = [phase EXCEPT ![r] = n]
      BY <3>1
    <3>3. pass' = [pass EXCEPT ![r] = [NoPass EXCEPT !.todo = held[r]]]
      BY <2>3 DEF BeginPass
    <3>4. PassFits(log', definition', n, [NoPass EXCEPT !.todo = held[r]])
      BY <2>3, <1>1, Begun DEF Busy
    <3>5. timer' \in [Runtimes -> BOOLEAN] /\ wakeRequested' \in [Runtimes -> BOOLEAN]
      BY <2>1, <2>3 DEF BeginPass
    <3> QED BY <1>1, <3>2, <3>3, <3>4, <3>5, PassMoves DEF Phases
  <2>4. ASSUME Rest(r), log' = log, definition' = definition, UNCHANGED wakeRequested
        PROVE  PassInv'
    <3>1. /\ phase' = [phase EXCEPT ![r] = "idle"]
          /\ pass' = [pass EXCEPT ![r] = NoPass]
          /\ timer' \in [Runtimes -> BOOLEAN]
      BY <2>1, <2>4 DEF Rest
    <3>2. PassFits(log', definition', "idle", NoPass)
      BY <2>4, <1>1, Idle DEF Busy
    <3> QED BY <1>1, <2>1, <2>4, <3>1, <3>2, PassMoves DEF Phases
  <2>5. ASSUME NEW cs \in SUBSET Consumers, Withdraw(r, cs),
               log' = log, definition' = definition, UNCHANGED <<phase, wakeRequested>>,
               timer' = timer \/ timer' = [timer EXCEPT ![r] = FALSE]
        PROVE  PassInv'
    <3> DEFINE gone == p.gone \cup {d \in cs : p.todo[d] # None}
               w == [p EXCEPT !.gone = gone]
    <3>1. pass' = [pass EXCEPT ![r] = w] /\ phase' = [phase EXCEPT ![r] = ph]
      BY <2>5 DEF Withdraw, PassInv
    <3>2. gone \in SUBSET Consumers
      BY <2>1 DEF Passes
    <3>3. /\ w \in Passes
          /\ w.head = p.head /\ w.current = c /\ w.todo = p.todo
          /\ w.quiet = p.quiet /\ w.seen = p.seen
      BY <2>1, <3>2 DEF Passes
    <3>4. PassFits(log', definition', ph, w)
      BY <2>1, <3>3 DEF PassFits
    <3>5. timer' \in [Runtimes -> BOOLEAN] /\ wakeRequested' \in [Runtimes -> BOOLEAN]
      BY <2>1, <2>5
    <3> QED BY <1>1, <2>1, <3>1, <3>4, <3>5, PassMoves
  \* The pass keeps all it knows but its current consumer, count and failure.
  <2>6. ASSUME NEW n \in Phases, NEW q,
               phase' = [phase EXCEPT ![r] = n], pass' = [pass EXCEPT ![r] = q],
               q \in Passes, q.head = p.head, q.todo = p.todo, q.quiet = p.quiet,
               q.seen = p.seen, (q.current \in Consumers /\ q.todo[q.current] # None) \/ ~Busy(n),
               ph # "quiet", UNCHANGED <<timer, wakeRequested>>
        PROVE  PassInv'
    <3>1. PassFits(log', definition', n, q)
      BY <2>1, <2>6 DEF PassFits
    <3> QED BY <1>1, <2>1, <2>6, <3>1, PassMoves
  <2>7. CASE Initialize(r) \/ Closed(r) \/ Crash(r)
    <3>1. CASE Initialize(r)
      BY <1>1, <2>1, <3>1, PassesRest DEF Initialize
    <3>2. CASE Closed(r)
      BY <1>1, <2>1, <3>2, PassesRest DEF Closed
    <3>3. CASE Crash(r)
      <4>1. /\ phase' = [phase EXCEPT ![r] = "idle"]
            /\ pass' = [pass EXCEPT ![r] = NoPass]
            /\ timer' \in [Runtimes -> BOOLEAN]
            /\ wakeRequested' \in [Runtimes -> BOOLEAN]
            /\ log' = log /\ definition' = definition
        BY <2>1, <3>3 DEF Crash, database
      <4>2. PassFits(log', definition', "idle", NoPass)
        BY <4>1, <1>1, Idle DEF Busy
      <4> QED BY <1>1, <4>1, <4>2, PassMoves DEF Phases
    <3> QED BY <2>7, <3>1, <3>2, <3>3
  <2>8. ASSUME NEW d \in Consumers,
               \/ Subscribe(r, d) \/ RegistrationFails(r, d) \/ DisposerResolves(r, d)
        PROVE  PassInv'
    BY <1>2, <2>8 DEF Subscribe, RegistrationFails, DisposerResolves, dispatcher
  <2>9. ASSUME NEW d \in Consumers, Registered(r, d) PROVE PassInv'
    <3>1. UNCHANGED <<phase, pass>> /\ (Wake(r) \/ NoWake)
      BY <2>9 DEF Registered
    <3> QED BY <1>1, <3>1, WakeType, PassesRest
  <2>10. ASSUME NEW d \in Consumers, Dispose(r, d) PROVE PassInv'
    BY <2>5, <2>10 DEF Dispose, database
  <2>11. CASE Close(r)
    BY <2>5, <2>11 DEF Close, database
  <2>12. ASSUME NEW d \in Callers, Drain(d, r) PROVE PassInv'
    <3>1. log' = log /\ definition' = definition
      BY <2>12 DEF Drain, database
    <3>2. CASE Running(r)
      BY <1>1, <2>1, <2>12, <3>2, PassesRest DEF Drain
    <3>3. CASE ~Running(r)
      BY <2>3, <2>12, <3>1, <3>3 DEF Drain
    <3> QED BY <3>2, <3>3
  <2>13. CASE TimerFires(r)
    BY <2>3, <2>13 DEF TimerFires, database
  <2>14. CASE NextPass(r)
    BY <2>3, <2>14 DEF NextPass, database
  <2>15. CASE PassesEnd(r) \/ StorageFails(r)
    BY <2>4, <2>15 DEF PassesEnd, StorageFails, database
  <2>16. CASE ReadHead(r)
    <3> DEFINE q == [p EXCEPT !.head = EventHead]
    <3>1. /\ pass' = [pass EXCEPT ![r] = q] /\ phase' = [phase EXCEPT ![r] = "read"]
          /\ ph = "begun"
          /\ UNCHANGED <<timer, wakeRequested, log, definition>>
      BY <2>16 DEF ReadHead, database
    <3>0. EventHead = Len(log) /\ EventHead \in Nat
      BY <1>1 DEF EventHead, LogType
    <3>2. q \in Passes /\ q.head = EventHead /\ q.todo = p.todo /\ q.quiet = p.quiet
      BY <2>1, <3>0 DEF Passes
    <3>3. PassFits(log', definition', "read", q)
      BY <2>1, <3>0, <3>1, <3>2 DEF PassFits, Busy
    <3> QED BY <1>1, <2>1, <3>1, <3>3, PassMoves DEF Phases
  <2>17. CASE ReadRows(r)
    <3> DEFINE quiet == QuietConsumers(r)
               seen == [d \in Consumers |-> IF d \in quiet THEN cursor[d] ELSE 0]
    <3>1. PICK skipped \in SUBSET {d \in Consumers : waiting[d]} :
             LET behind == {d \in Consumers : cursor[d] < p.head}
             IN  pass' = [pass EXCEPT ![r] = [p EXCEPT
                    !.quiet = quiet,
                    !.seen = seen,
                    !.todo = [d \in Consumers |->
                                 IF d \in behind \ skipped THEN p.todo[d] ELSE None]]]
      BY <2>17 DEF ReadRows
    <3> DEFINE behind == {d \in Consumers : cursor[d] < p.head}
               todo == [d \in Consumers |-> IF d \in behind \ skipped THEN p.todo[d] ELSE None]
               q == [p EXCEPT !.quiet = quiet, !.seen = seen, !.todo = todo]
               n == IF quiet = {} THEN "loop" ELSE "quiet"
    <3>2. /\ pass' = [pass EXCEPT ![r] = q] /\ phase' = [phase EXCEPT ![r] = n]
          /\ UNCHANGED <<timer, wakeRequested, log, definition>>
      BY <2>17, <3>1 DEF ReadRows, database
    <3>3. /\ quiet \in SUBSET Consumers
          /\ seen \in [Consumers -> Nat]
          /\ todo \in [Consumers -> Definitions \cup {None}]
      BY <1>1, <2>1 DEF QuietConsumers, LogType, Passes
    <3>4. q \in Passes /\ q.head = p.head /\ q.todo = todo /\ q.quiet = quiet /\ q.seen = seen
      BY <2>1, <3>3 DEF Passes
    <3>5. \A d \in quiet : /\ definition[d] # None
                           /\ seen[d] <= p.head
                           /\ \A e \in (seen[d] + 1)..p.head : log[e] \notin definition[d]
      <4> SUFFICES ASSUME NEW d \in quiet
                   PROVE  /\ definition[d] # None
                          /\ seen[d] <= p.head
                          /\ \A e \in (seen[d] + 1)..p.head : log[e] \notin definition[d]
        OBVIOUS
      <4>1. /\ d \in Consumers /\ p.todo[d] # None /\ cursor[d] < p.head
            /\ Quiet(p.todo[d], cursor[d], p.head)
        BY DEF QuietConsumers
      <4>2. seen[d] = cursor[d] /\ cursor[d] \in Nat /\ p.head \in Nat
        BY <1>1, <2>1, <4>1 DEF LogType, Passes
      <4>3. p.todo[d] = definition[d]
        BY <2>1, <4>1 DEF PassFits
      <4> QED BY <4>1, <4>2, <4>3 DEF Quiet
    <3>6. \A d \in Consumers : todo[d] \in {None, definition[d]}
      BY <2>1 DEF PassFits
    <3>8. n \in Phases /\ ~Busy(n) /\ (quiet # {} => n = "quiet")
      BY DEF Phases, Busy
    <3>7. PassFits(log, definition, n, q)
      <4>1. p.head <= Len(log)
        BY <2>1 DEF PassFits
      <4> QED BY <3>4, <3>5, <3>6, <3>8, <4>1 DEF PassFits
    <3> QED BY <1>1, <2>1, <3>2, <3>7, <3>8, PassMoves
  <2>18. CASE PassQuiet(r)
    <3> DEFINE passed == {d \in p.quiet : Unchanged(r, d)}
               seen == [d \in Consumers |-> 0]
               todo == [d \in Consumers |-> IF d \in passed THEN None ELSE p.todo[d]]
               q == [p EXCEPT !.quiet = {}, !.seen = seen, !.todo = todo]
    <3>1. /\ pass' = [pass EXCEPT ![r] = q] /\ phase' = [phase EXCEPT ![r] = "loop"]
          /\ UNCHANGED <<timer, wakeRequested, log, definition>>
      BY <2>18 DEF PassQuiet
    <3>2. seen \in [Consumers -> Nat] /\ todo \in [Consumers -> Definitions \cup {None}]
      BY <2>1 DEF Passes
    <3>3. q \in Passes /\ q.head = p.head /\ q.todo = todo /\ q.quiet = {}
      BY <2>1, <3>2 DEF Passes
    <3>4. PassFits(log', definition', "loop", q)
      BY <2>1, <3>1, <3>3 DEF PassFits, Busy
    <3> QED BY <1>1, <2>1, <3>1, <3>4, PassMoves DEF Phases
  <2>19. ASSUME NEW d \in Consumers, Admit(r, d) PROVE PassInv'
    <3> DEFINE q == [p EXCEPT !.current = d, !.count = IF c = d THEN p.count ELSE 0]
    <3>1. /\ pass' = [pass EXCEPT ![r] = q] /\ phase' = [phase EXCEPT ![r] = "admitted"]
          /\ ph = "loop" /\ p.todo[d] # None
          /\ UNCHANGED <<timer, wakeRequested>>
      BY <2>19 DEF Admit
    <3>2. (IF c = d THEN p.count ELSE 0) \in Nat
      BY <2>1 DEF Passes
    <3>3. /\ q \in Passes /\ q.head = p.head /\ q.todo = p.todo /\ q.quiet = p.quiet
          /\ q.seen = p.seen /\ q.current = d
      BY <2>1, <3>2 DEF Passes
    <3> QED BY <2>6, <3>1, <3>3 DEF Phases
  <2>20. ASSUME Busy(ph), NEW from \in Nat \cup {None}, NEW event \in Nat \cup {None},
                Attempted(r, from, event), UNCHANGED <<timer, wakeRequested>>
         PROVE  PassInv'
    <3> DEFINE q == [p EXCEPT !.attempted = from, !.event = event]
    <3>1. pass' = [pass EXCEPT ![r] = q] /\ phase' = [phase EXCEPT ![r] = "failed"]
      BY <2>20 DEF Attempted
    <3>2. /\ q \in Passes /\ q.head = p.head /\ q.todo = p.todo /\ q.quiet = p.quiet
          /\ q.seen = p.seen /\ q.current = c
      BY <2>1 DEF Passes
    <3>3. q.current \in Consumers /\ q.todo[q.current] # None
      BY <2>1, <2>20, <3>2 DEF PassFits
    <3>4. ph # "quiet"
      BY <2>20 DEF Busy
    <3> QED BY <2>6, <2>20, <3>1, <3>2, <3>3, <3>4 DEF Phases
  <2>21. CASE \/ HandlerFails(r) \/ LookupFails(r) \/ AnswerLost(r) \/ MoveAnswerLost(r)
              \/ LockTimesOut(r)
    <3>1. Busy(ph) /\ UNCHANGED <<timer, wakeRequested>>
      BY <2>21 DEF HandlerFails, LookupFails, AnswerLost, MoveAnswerLost, LockTimesOut, Busy
    <3>2. cursor[c] \in Nat /\ EventHead \in Nat
      BY <1>1, <2>2, <3>1 DEF LogType, EventHead
    <3>3. \E from \in Nat \cup {None}, event \in Nat \cup {None} : Attempted(r, from, event)
      <4>1. CASE HandlerFails(r) \/ AnswerLost(r)
        <5>1. PICK e \in 1..EventHead : Attempted(r, cursor[c], e)
          BY <4>1 DEF HandlerFails, AnswerLost
        <5> QED BY <3>2, <5>1
      <4>2. CASE LookupFails(r) \/ MoveAnswerLost(r)
        BY <3>2, <4>2 DEF LookupFails, MoveAnswerLost
      <4>3. CASE LockTimesOut(r)
        BY <4>3 DEF LockTimesOut
      <4> QED BY <2>21, <4>1, <4>2, <4>3
    <3> QED BY <2>20, <3>1, <3>3
  \* The current consumer is done with.
  <2>22. ASSUME Busy(ph), NEW b \in BOOLEAN,
                phase' = [phase EXCEPT ![r] = "loop"],
                \/ pass' = [pass EXCEPT ![r] = Leave(r, c)]
                \/ pass' = [pass EXCEPT ![r] = [Leave(r, c) EXCEPT !.backlog = b]],
                Wake(r) \/ NoWake
         PROVE  PassInv'
    <3> DEFINE q == Leave(r, c)
               s == [q EXCEPT !.backlog = b]
    <3>1. PassFits(log', definition', "loop", q)
      BY <2>1, <2>2, <2>22, Left DEF Busy
    <3>2. /\ s \in Passes /\ s.head = q.head /\ s.todo = q.todo /\ s.quiet = q.quiet
          /\ s.seen = q.seen
      BY <3>1 DEF PassFits, Passes
    <3>3. PassFits(log', definition', "loop", s)
      BY <3>1, <3>2 DEF PassFits, Busy
    <3>4. timer' \in [Runtimes -> BOOLEAN] /\ wakeRequested' \in [Runtimes -> BOOLEAN]
      BY <2>22, WakeType
    <3> QED BY <1>1, <2>22, <3>1, <3>3, <3>4, PassMoves DEF Phases
  <2>23. CASE NothingLeft(r) \/ RecordFailure(r)
    BY <2>22, <2>23 DEF NothingLeft, RecordFailure, Busy, NoWake
  <2>24. CASE Deliver(r)
    <3> DEFINE more(detached) == p.count + 1 < BatchSize /\ ~detached /\ c \notin p.gone
               backlog(e) == p.backlog \/ (p.count = BatchSize - 1 /\ e < p.head)
               q == [p EXCEPT !.count = @ + 1]
    <3>1. /\ phase' = [phase EXCEPT ![r] = "loop"]
          /\ ph = "admitted"
          /\ Wake(r) \/ NoWake
      BY <2>24 DEF Deliver
    <3>2. PICK e \in 1..EventHead, detached \in BOOLEAN :
             pass' = [pass EXCEPT ![r] =
                        IF more(detached) THEN q
                        ELSE [Leave(r, c) EXCEPT !.backlog = backlog(e)]]
      BY <2>24 DEF Deliver
    <3>3. CASE more(detached)
      <4>1. pass' = [pass EXCEPT ![r] = q]
        BY <3>2, <3>3
      <4>2. /\ q \in Passes /\ q.head = p.head /\ q.todo = p.todo /\ q.quiet = p.quiet
            /\ q.seen = p.seen
        BY <2>1 DEF Passes
      <4>3. p.quiet = {}
        BY <2>1, <3>1 DEF PassFits
      <4>4. PassFits(log', definition', "loop", q)
        BY <2>1, <4>2, <4>3 DEF PassFits, Busy
      <4>5. timer' \in [Runtimes -> BOOLEAN] /\ wakeRequested' \in [Runtimes -> BOOLEAN]
        BY <3>1, WakeType
      <4> QED BY <1>1, <3>1, <4>1, <4>4, <4>5, PassMoves DEF Phases
    <3>4. CASE ~more(detached)
      <4>1. pass' = [pass EXCEPT ![r] = [Leave(r, c) EXCEPT !.backlog = backlog(e)]]
        BY <3>2, <3>4
      <4>2. backlog(e) \in BOOLEAN
        BY <2>1 DEF Passes
      <4> QED BY <2>22, <3>1, <4>1, <4>2 DEF Busy
    <3> QED BY <3>3, <3>4
  <2> QED
    BY <1>6, <2>7, <2>8, <2>9, <2>10, <2>11, <2>12, <2>13, <2>14, <2>15, <2>16, <2>17, <2>18,
       <2>19, <2>21, <2>23, <2>24 DEF RuntimeStep, PassStep, Failure
<1> QED BY <1>3, <1>4, <1>5, <1>6, <1>7 DEF Next

-----------------------------------------------------------------------------
(* The core: what is handled, and in which order.                          *)

\* The events of the given types between two places of a log.
Due(lg, types, from, to) == {x \in (from + 1)..to : lg[x] \in types}

\* Handling e next keeps what ExactlyOnceInOrder says of one consumer.
LEMMA HandledNext ==
    ASSUME NEW lg \in Seq(Types), NEW types, NEW start \in 0..Len(lg), NEW at \in 0..Len(lg),
           NEW done \in Seq(Nat), NEW e \in 1..Len(lg), start <= at, at < e,
           lg[e] \in types, Due(lg, types, at, e - 1) = {},
           Increasing(done),
           Elements(done) = Due(lg, types, start, at)
    PROVE  /\ Append(done, e) \in Seq(Nat)
           /\ Increasing(Append(done, e))
           /\ Elements(Append(done, e)) = Due(lg, types, start, e)
<1> DEFINE next == Append(done, e)
<1>1. /\ next \in Seq(Nat)
      /\ Len(next) = Len(done) + 1
      /\ DOMAIN next = 1..(Len(done) + 1)
      /\ \A i \in 1..Len(done) : next[i] = done[i]
      /\ next[Len(done) + 1] = e
      /\ DOMAIN done = 1..Len(done)
      /\ Len(done) \in Nat
  OBVIOUS
<1>2. \A i \in 1..Len(done) : done[i] < e /\ done[i] \in Nat
  <2>1. ASSUME NEW i \in 1..Len(done) PROVE done[i] \in Elements(done)
    BY <1>1 DEF Elements
  <2> QED BY <2>1 DEF Due
<1>3. Increasing(next)
  BY <1>1, <1>2 DEF Increasing
<1>4. Elements(next) = Elements(done) \cup {e}
  <2>1. ASSUME NEW x \in Elements(next) PROVE x \in Elements(done) \cup {e}
    BY <1>1 DEF Elements
  <2>2. ASSUME NEW x \in Elements(done) PROVE x \in Elements(next)
    <3>1. PICK i \in 1..Len(done) : x = done[i]
      BY <1>1 DEF Elements
    <3>2. i \in DOMAIN next /\ next[i] = x
      BY <1>1, <3>1
    <3> QED BY <3>2 DEF Elements
  <2>3. e \in Elements(next)
    <3>1. Len(done) + 1 \in DOMAIN next
      BY <1>1
    <3> QED BY <1>1, <3>1 DEF Elements
  <2> QED BY <2>1, <2>2, <2>3
<1>5. Due(lg, types, start, e) = Due(lg, types, start, at) \cup {e}
  BY DEF Due
<1> QED BY <1>1, <1>3, <1>4, <1>5

\* What one consumer is due for a log, a definition and the places of its cursor.
Exact(lg, types, start, at, done) ==
    /\ start <= at
    /\ done \in Seq(Nat)
    /\ Increasing(done)
    /\ types = None => done = <<>>
    /\ types # None => Elements(done) = Due(lg, types, start, at)

LEMMA ExactHandles ==
    ASSUME NEW lg \in Seq(Types), NEW types, types # None, NEW start \in 0..Len(lg),
           NEW at \in 0..Len(lg), NEW e \in 1..Len(lg), NEW done,
           Exact(lg, types, start, at, done), at < e, lg[e] \in types,
           Due(lg, types, at, e - 1) = {}
    PROVE  Exact(lg, types, start, e, Append(done, e))
<1>1. /\ start <= at /\ done \in Seq(Nat) /\ Increasing(done)
      /\ Elements(done) = Due(lg, types, start, at)
  BY DEF Exact
<1>2. /\ Append(done, e) \in Seq(Nat)
      /\ Increasing(Append(done, e))
      /\ Elements(Append(done, e)) = Due(lg, types, start, e)
  BY <1>1, HandledNext
<1>3. start <= e
  BY <1>1
<1> QED BY <1>2, <1>3 DEF Exact

\* Passing over quiet events, and a longer log, keep it too.
LEMMA ExactPasses ==
    ASSUME NEW lg \in Seq(Types), NEW more \in Seq(Types), NEW types, NEW start \in 0..Len(lg),
           NEW at \in 0..Len(lg), NEW to \in 0..Len(more), NEW done,
           Len(lg) <= Len(more), \A e \in 1..Len(lg) : more[e] = lg[e],
           Exact(lg, types, start, at, done), at <= to,
           types # None => \A e \in (at + 1)..to : more[e] \notin types
    PROVE  Exact(more, types, start, to, done)
<1>1. CASE types = None
  BY <1>1 DEF Exact
<1>2. CASE types # None
  <2>1. Due(more, types, start, to) = Due(lg, types, start, at)
    <3>1. start <= at /\ at \in Nat /\ start \in Nat /\ to \in Nat /\ Len(lg) \in Nat
      BY DEF Exact
    <3>2. ASSUME NEW x \in (start + 1)..at PROVE x \in (start + 1)..to /\ more[x] = lg[x]
      <4>1. x \in 1..Len(lg)
        BY <3>1
      <4> QED BY <3>1, <4>1
    <3>3. ASSUME NEW x \in (start + 1)..to, more[x] \in types PROVE x \in (start + 1)..at
      <4>1. x \notin (at + 1)..to
        BY <1>2, <3>3
      <4> QED BY <3>1, <4>1
    <3>4. \A x : x \in (start + 1)..to /\ more[x] \in types
                    <=> x \in (start + 1)..at /\ lg[x] \in types
      BY <3>2, <3>3
    <3> QED BY <3>4 DEF Due
  <2> QED BY <1>2, <2>1 DEF Exact
<1> QED BY <1>1, <1>2

\* A cursor that stays and a log that may have grown.
LEMMA ExactStays ==
    ASSUME LogType, Grows, log' \in Seq(Types), NEW c \in Consumers,
           Exact(log, definition[c], installed[c], cursor[c], effects[c])
    PROVE  Exact(log', definition[c], installed[c], cursor[c], effects[c])
<1>1. /\ log \in Seq(Types) /\ installed[c] \in 0..Len(log) /\ cursor[c] \in 0..Len(log)
      /\ cursor[c] \in 0..Len(log') /\ Len(log) <= Len(log')
      /\ \A e \in 1..Len(log) : log'[e] = log[e]
  BY DEF LogType, Grows
<1>2. cursor[c] <= cursor[c] /\ \A e \in (cursor[c] + 1)..cursor[c] : log'[e] \notin definition[c]
  BY <1>1
<1> QED BY <1>1, <1>2, ExactPasses

LEMMA ExactNow ==
    ASSUME CoreInv, ExactlyOnceInOrder, NEW c \in Consumers
    PROVE  Exact(log, definition[c], installed[c], cursor[c], effects[c])
<1>1. /\ installed[c] <= cursor[c]
      /\ effects[c] \in Seq(Nat)
      /\ definition[c] = None => effects[c] = <<>>
  BY DEF CoreInv, LogType
<1>2. Increasing(effects[c])
  BY DEF ExactlyOnceInOrder
<1>3. definition[c] # None => Elements(effects[c]) = Subscribed(c, installed[c], cursor[c])
  BY DEF ExactlyOnceInOrder
<1> QED BY <1>1, <1>2, <1>3 DEF Exact, Subscribed, Due

LEMMA ExactNext ==
    ASSUME LogType',
           \A c \in Consumers :
               Exact(log', definition'[c], installed'[c], cursor'[c], effects'[c])
    PROVE  CoreInv' /\ ExactlyOnceInOrder'
<1>1. ASSUME NEW c \in Consumers
      PROVE  /\ installed'[c] <= cursor'[c]
             /\ definition'[c] = None => effects'[c] = <<>>
             /\ Increasing(effects'[c])
             /\ Elements(effects'[c]) =
                    IF definition'[c] = None THEN {}
                    ELSE Due(log', definition'[c], installed'[c], cursor'[c])
  <2>1. Elements(<<>>) = {}
    BY DEF Elements
  <2> QED BY <2>1 DEF Exact
<1>2. CoreInv'
  BY <1>1 DEF CoreInv
<1>3. ExactlyOnceInOrder'
  BY <1>1 DEF ExactlyOnceInOrder, Subscribed, Due
<1> QED BY <1>2, <1>3

\* One consumer's cursor and effects move (at most); the log may grow.
LEMMA ExactMoves ==
    ASSUME CoreInv, ExactlyOnceInOrder, Grows, log' \in Seq(Types),
           UNCHANGED <<definition, installed>>,
           NEW c \in Consumers, NEW to \in 0..Len(log'), NEW done \in Seq(Nat),
           cursor' = [cursor EXCEPT ![c] = to],
           effects' = [effects EXCEPT ![c] = done],
           Exact(log', definition[c], installed[c], to, done)
    PROVE  CoreInv' /\ ExactlyOnceInOrder'
<1>1. LogType
  BY DEF CoreInv
<1>2. LogType'
  <2>1. cursor' \in [Consumers -> 0..Len(log')]
    BY <1>1 DEF LogType, Grows
  <2>2. installed' \in [Consumers -> 0..Len(log')]
    BY <1>1 DEF LogType, Grows
  <2>3. effects' \in [Consumers -> Seq(Nat)]
    BY <1>1 DEF LogType
  <2> QED BY <1>1, <2>1, <2>2, <2>3 DEF LogType
<1>3. ASSUME NEW d \in Consumers
      PROVE  Exact(log', definition'[d], installed'[d], cursor'[d], effects'[d])
  <2>1. CASE d = c
    BY <1>1, <2>1 DEF LogType
  <2>2. CASE d # c
    <3>1. cursor'[d] = cursor[d] /\ effects'[d] = effects[d]
      BY <1>1, <2>2 DEF LogType
    <3> QED BY <1>1, <3>1, ExactNow, ExactStays
  <2> QED BY <2>1, <2>2
<1> QED BY <1>2, <1>3, ExactNext

LEMMA CoreStepInv ==
    ASSUME CoreInv, HeldInv, PassInv, ExactlyOnceInOrder, [Next]_vars
    PROVE  CoreInv' /\ ExactlyOnceInOrder'
<1>1. LogType /\ Grows
  BY LogGrows DEF CoreInv
<1>2. CASE UNCHANGED core
  BY <1>2 DEF core, CoreInv, LogType, ExactlyOnceInOrder, Subscribed
<1>3. ASSUME NEW r \in Publishers, Publish(r) PROVE CoreInv' /\ ExactlyOnceInOrder'
  <2>1. /\ log' \in Seq(Types)
        /\ UNCHANGED <<definition, cursor, installed, effects>>
    BY <1>1, <1>3, AppendGrows DEF Publish
  <2>2. LogType'
    BY <1>1, <2>1 DEF LogType, Grows
  <2>3. \A c \in Consumers : Exact(log', definition'[c], installed'[c], cursor'[c], effects'[c])
    BY <1>1, <2>1, ExactNow, ExactStays
  <2> QED BY <2>2, <2>3, ExactNext
<1>4. ASSUME NEW r \in Runtimes, NEW c \in Consumers, Registered(r, c)
      PROVE  CoreInv' /\ ExactlyOnceInOrder'
  <2>1. CASE definition[c] # None
    <3>1. UNCHANGED core
      BY <1>4, <2>1 DEF Registered, core
    <3> QED BY <1>2, <3>1
  <2>2. CASE definition[c] = None
    <3>1. registering[r][c] \in Definitions
      BY <1>4 DEF Registered, HeldInv, SubscriptionType
    <3>2. PICK start \in {0, EventHead} :
             /\ definition' = [definition EXCEPT ![c] = registering[r][c]]
             /\ cursor' = [cursor EXCEPT ![c] = start]
             /\ installed' = [installed EXCEPT ![c] = start]
      BY <1>4, <2>2 DEF Registered
    <3>3. log' = log /\ effects' = effects /\ start \in 0..Len(log)
      BY <1>1, <1>4 DEF Registered, EventHead, LogType
    <3>4. LogType'
      BY <1>1, <3>1, <3>2, <3>3 DEF LogType
    <3>5. ASSUME NEW d \in Consumers
          PROVE  Exact(log', definition'[d], installed'[d], cursor'[d], effects'[d])
      <4>1. CASE d # c
        <5>1. definition'[d] = definition[d] /\ cursor'[d] = cursor[d] /\ installed'[d] = installed[d]
          BY <1>1, <3>2, <4>1 DEF LogType
        <5> QED BY <3>3, <5>1, ExactNow
      <4>2. CASE d = c
        <5>1. definition'[d] = registering[r][c] /\ cursor'[d] = start /\ installed'[d] = start
          BY <1>1, <3>2, <4>2 DEF LogType
        <5>2. effects'[d] = <<>>
          BY <2>2, <3>3, <4>2 DEF CoreInv
        <5>3. Increasing(<<>>) /\ Elements(<<>>) = {}
          BY DEF Increasing, Elements
        <5>4. Due(log', registering[r][c], start, start) = {}
          BY <3>3 DEF Due
        <5> QED BY <3>1, <3>3, <5>1, <5>2, <5>3, <5>4, ConstantsAssumption DEF Exact
      <4> QED BY <4>1, <4>2
    <3> QED BY <3>4, <3>5, ExactNext
  <2> QED BY <2>1, <2>2
<1>5. ASSUME NEW r \in Runtimes, PassQuiet(r) PROVE CoreInv' /\ ExactlyOnceInOrder'
  <2> DEFINE p == pass[r]
             passed == {c \in p.quiet : Unchanged(r, c)}
  <2>1. /\ p \in Passes /\ p.head \in 0..Len(log)
        /\ \A c \in p.quiet : /\ c \in Consumers
                              /\ definition[c] # None
                              /\ p.seen[c] <= p.head
                              /\ \A e \in (p.seen[c] + 1)..p.head : log[e] \notin definition[c]
    BY <1>1 DEF PassInv, PassFits, Passes, LogType
  <2>2. /\ cursor' = [c \in Consumers |-> IF c \in passed THEN p.head ELSE cursor[c]]
        /\ UNCHANGED <<log, definition, installed, effects>>
    BY <1>5 DEF PassQuiet
  <2>3. LogType'
    BY <1>1, <2>1, <2>2 DEF LogType
  <2>4. ASSUME NEW c \in Consumers
        PROVE  Exact(log', definition'[c], installed'[c], cursor'[c], effects'[c])
    <3>1. CASE c \notin passed
      BY <2>2, <3>1, ExactNow
    <3>2. CASE c \in passed
      <4>1. cursor[c] = p.seen[c] /\ cursor'[c] = p.head
        BY <2>2, <3>2 DEF Unchanged
      <4>2. cursor[c] <= p.head /\ \A e \in (cursor[c] + 1)..p.head : log[e] \notin definition[c]
        BY <2>1, <3>2, <4>1
      <4>3. /\ log \in Seq(Types) /\ installed[c] \in 0..Len(log) /\ cursor[c] \in 0..Len(log)
            /\ Len(log) <= Len(log)
        BY <1>1 DEF LogType
      <4>4. Exact(log, definition[c], installed[c], p.head, effects[c])
        BY <2>1, <4>2, <4>3, ExactNow, ExactPasses
      <4> QED BY <2>2, <4>1, <4>4
    <3> QED BY <3>1, <3>2
  <2> QED BY <2>3, <2>4, ExactNext
\* The registration in hand carries its row's types.
<1>6. ASSUME NEW r \in Runtimes, Busy(phase[r])
      PROVE  LET c == pass[r].current
             IN  c \in Consumers /\ pass[r].todo[c] = definition[c] /\ definition[c] # None
  BY <1>6 DEF PassInv, PassFits
<1>7. ASSUME NEW r \in Runtimes, NothingLeft(r) \/ MoveAnswerLost(r)
      PROVE  CoreInv' /\ ExactlyOnceInOrder'
  <2> DEFINE c == pass[r].current
  <2>0. Busy(phase[r]) /\ UNCHANGED <<log, definition, installed, effects>>
    BY <1>7 DEF NothingLeft, MoveAnswerLost, Busy
  <2>1. CASE cursor' = cursor
    <3>1. UNCHANGED core
      BY <2>0, <2>1 DEF core
    <3> QED BY <1>2, <3>1
  <2>2. CASE Quiet(definition[c], cursor[c], EventHead) /\ cursor' = [cursor EXCEPT ![c] = EventHead]
    <3>1. c \in Consumers /\ definition[c] # None
      BY <1>6, <2>0
    <3>2. UNCHANGED <<log, definition, installed, effects>>
      BY <2>0
    <3>3. /\ log \in Seq(Types) /\ installed[c] \in 0..Len(log) /\ cursor[c] \in 0..Len(log)
          /\ Len(log) <= Len(log) /\ Len(log) \in 0..Len(log) /\ cursor[c] <= Len(log)
          /\ effects[c] \in Seq(Nat) /\ effects' = [effects EXCEPT ![c] = effects[c]]
      BY <1>1, <3>1, <3>2 DEF LogType
    <3>4. Exact(log, definition[c], installed[c], Len(log), effects[c])
      BY <2>2, <3>1, <3>3, ExactNow, ExactPasses DEF Quiet, EventHead
    <3> QED BY <1>1, <2>2, <3>1, <3>2, <3>3, <3>4, ExactMoves DEF EventHead
  <2> QED BY <1>6, <1>7, <2>0, <2>1, <2>2 DEF NothingLeft, MoveAnswerLost, MoveToHead
<1>8. ASSUME NEW r \in Runtimes, Deliver(r) \/ AnswerLost(r)
      PROVE  CoreInv' /\ ExactlyOnceInOrder'
  <2> DEFINE c == pass[r].current
  <2>1. c \in Consumers /\ pass[r].todo[c] = definition[c] /\ definition[c] # None
    BY <1>6, <1>8 DEF Deliver, AnswerLost, Busy
  <2>2. PICK e \in 1..EventHead : IsNextEvent(e, cursor[c], definition[c]) /\ CommitDelivery(c, e)
    BY <1>8, <2>1 DEF Deliver, AnswerLost
  <2>3. /\ UNCHANGED <<definition, installed>>
        /\ HandlerPublishes \/ log' = log
    BY <1>8 DEF Deliver, AnswerLost
  <2>4. log' \in Seq(Types) /\ Len(log) <= Len(log')
    BY <1>1, <2>3, AppendGrows DEF HandlerPublishes, LogType, Grows
  <2>5. /\ e \in 1..Len(log) /\ cursor[c] < e /\ log[e] \in definition[c]
        /\ Due(log, definition[c], cursor[c], e - 1) = {}
    BY <1>1, <2>1, <2>2 DEF IsNextEvent, EventHead, Quiet, LogType, Due
  <2>6. /\ cursor' = [cursor EXCEPT ![c] = e]
        /\ effects' = [effects EXCEPT ![c] = Append(effects[c], e)]
    BY <2>2 DEF CommitDelivery
  <2>7. /\ log \in Seq(Types) /\ installed[c] \in 0..Len(log) /\ cursor[c] \in 0..Len(log)
    BY <1>1, <2>1 DEF LogType
  <2>8. Exact(log, definition[c], installed[c], e, Append(effects[c], e))
    <3>1. Exact(log, definition[c], installed[c], cursor[c], effects[c])
      BY <2>1, ExactNow
    <3> QED BY <2>1, <2>5, <2>7, <3>1, ExactHandles
  <2>9. e \in 0..Len(log) /\ e \in 0..Len(log') /\ e <= e
        /\ \A x \in (e + 1)..e : log'[x] \notin definition[c]
    BY <2>4, <2>5, <2>7, <1>1 DEF Grows
  <2>10. Exact(log', definition[c], installed[c], e, Append(effects[c], e))
    BY <1>1, <2>4, <2>7, <2>8, <2>9, ExactPasses DEF Grows
  <2>11. Append(effects[c], e) \in Seq(Nat)
    BY <2>8 DEF Exact
  <2> QED BY <1>1, <2>1, <2>3, <2>4, <2>6, <2>9, <2>10, <2>11, ExactMoves
<1> QED BY <1>2, <1>3, <1>4, <1>5, <1>7, <1>8, CoreSteps DEF CoreStep

-----------------------------------------------------------------------------
(* Rows in retry and calls keep their types.                               *)

LEMMA RetryStep == ASSUME RetryType, [Next]_vars PROVE RetryType'
<1>1. ASSUME UNCHANGED <<attempts, waiting>>, faults' = faults \/ Fault PROVE RetryType'
  BY <1>1 DEF RetryType, Fault
<1>2. CASE UNCHANGED vars
  BY <1>1, <1>2 DEF vars, database
<1>3. ASSUME NEW c \in Consumers, RetryDue(c) PROVE RetryType'
  BY <1>3 DEF RetryDue, RetryType
<1>4. ASSUME NEW r \in Publishers, Publish(r) PROVE RetryType'
  BY <1>1, <1>4 DEF Publish
<1>6. ASSUME NEW r \in Runtimes, WakeArrives(r) PROVE RetryType'
  BY <1>1, <1>6 DEF WakeArrives, database
<1>5. ASSUME NEW r \in Runtimes, RuntimeStep(r) PROVE RetryType'
  <2>1. CASE Initialize(r) \/ Close(r) \/ Closed(r) \/ TimerFires(r) \/ Crash(r)
    BY <1>1, <2>1 DEF Initialize, Close, Closed, TimerFires, Crash, database
  <2>2. ASSUME NEW c \in Consumers,
               \/ Subscribe(r, c) \/ Registered(r, c) \/ RegistrationFails(r, c)
               \/ Dispose(r, c) \/ DisposerResolves(r, c)
        PROVE  RetryType'
    BY <1>1, <2>2
       DEF Subscribe, Registered, RegistrationFails, Dispose, DisposerResolves, database
  <2>3. ASSUME NEW d \in Callers, Drain(d, r) PROVE RetryType'
    BY <1>1, <2>3 DEF Drain, database
  <2>4. ASSUME NEW c \in Consumers, Admit(r, c) PROVE RetryType'
    BY <1>1, <2>4 DEF Admit, database
  <2>5. CASE ReadHead(r) \/ ReadRows(r) \/ NextPass(r) \/ PassesEnd(r)
    BY <1>1, <2>5 DEF ReadHead, ReadRows, NextPass, PassesEnd, database
  <2>6. CASE HandlerFails(r) \/ LookupFails(r) \/ LockTimesOut(r) \/ StorageFails(r)
    BY <1>1, <2>6 DEF HandlerFails, LookupFails, LockTimesOut, Attempted, StorageFails, database
  <2>7. CASE PassQuiet(r)
    BY <2>7 DEF PassQuiet, RetryType
  <2>8. CASE Deliver(r) \/ AnswerLost(r)
    <3>1. /\ attempts' = [attempts EXCEPT ![pass[r].current] = 0]
          /\ waiting' = [waiting EXCEPT ![pass[r].current] = FALSE]
          /\ faults' = faults \/ Fault
      BY <2>8 DEF Deliver, AnswerLost, Attempted, CommitDelivery
    <3>2. attempts' \in [Consumers -> Nat] /\ waiting' \in [Consumers -> BOOLEAN]
      BY <3>1 DEF RetryType
    <3>3. faults' \in Nat
      BY <3>1 DEF RetryType, Fault
    <3> QED BY <3>2, <3>3 DEF RetryType
  <2>9. CASE NothingLeft(r) \/ MoveAnswerLost(r)
    <3>1. \/ UNCHANGED attempts
          \/ \E n \in {0, attempts[pass[r].current]} :
                attempts' = [attempts EXCEPT ![pass[r].current] = n]
      BY <2>9 DEF NothingLeft, MoveAnswerLost, MoveToHead
    <3>2. attempts' \in [Consumers -> Nat]
      BY <3>1 DEF RetryType
    <3>3. waiting' = waiting /\ (faults' = faults \/ Fault)
      BY <2>9 DEF NothingLeft, MoveAnswerLost, Attempted
    <3> QED BY <3>2, <3>3 DEF RetryType, Fault
  <2>10. CASE RecordFailure(r)
    <3> DEFINE c == pass[r].current
    <3>1. \/ UNCHANGED <<attempts, waiting>>
          \/ /\ attempts' = [attempts EXCEPT ![c] = @ + 1]
             /\ waiting' = [waiting EXCEPT ![c] = TRUE]
      BY <2>10, Zenon DEF RecordFailure
    <3>2. faults' = faults
      BY <2>10 DEF RecordFailure
    <3>3. attempts' \in [Consumers -> Nat]
      BY <3>1 DEF RetryType
    <3>4. waiting' \in [Consumers -> BOOLEAN]
      BY <3>1 DEF RetryType
    <3> QED BY <3>2, <3>3, <3>4 DEF RetryType
  <2> QED BY <1>5, <2>1, <2>2, <2>3, <2>4, <2>5, <2>6, <2>7, <2>8, <2>9, <2>10
          DEF RuntimeStep, PassStep, Failure
<1> QED BY <1>2, <1>3, <1>4, <1>5, <1>6 DEF Next

NotedType ==
    /\ blamed \in [Consumers -> Nat \cup {None}]
    /\ wakes \in [Runtimes -> Nat]

LEMMA NotedStep == ASSUME NotedType, PassInv, [Next]_vars PROVE NotedType'
<1>1. ASSUME UNCHANGED <<blamed, wakes>> PROVE NotedType'
  BY <1>1 DEF NotedType
<1>2. CASE UNCHANGED vars
  BY <1>1, <1>2 DEF vars, database, subscriptions
<1>3. ASSUME NEW c \in Consumers, RetryDue(c) PROVE NotedType'
  BY <1>1, <1>3 DEF RetryDue, subscriptions
<1>4. ASSUME NEW r \in Publishers, Publish(r) PROVE NotedType'
  BY <1>4, ConstantsAssumption DEF Publish, NotedType
<1>5. ASSUME NEW r \in Runtimes, WakeArrives(r) PROVE NotedType'
  BY <1>5 DEF WakeArrives, NotedType, database
<1>6. ASSUME NEW r \in Runtimes, RuntimeStep(r) PROVE NotedType'
  <2>1. CASE Closed(r) \/ Crash(r)
    BY <2>1 DEF Closed, Crash, NotedType, database
  <2>2. CASE RecordFailure(r)
    <3>1. pass[r].event \in Nat \cup {None}
      BY DEF PassInv, Passes
    <3>2. wakes' = wakes
      BY <2>2 DEF RecordFailure, subscriptions
    <3>3. blamed' = blamed \/ blamed' = [blamed EXCEPT ![pass[r].current] = pass[r].event]
      BY <2>2, Zenon DEF RecordFailure
    <3> QED BY <3>1, <3>2, <3>3 DEF NotedType
  <2>3. CASE Initialize(r) \/ Close(r) \/ TimerFires(r)
    BY <1>1, <2>3 DEF Initialize, Close, TimerFires, database, subscriptions
  <2>4. ASSUME NEW c \in Consumers,
               \/ Subscribe(r, c) \/ Registered(r, c) \/ RegistrationFails(r, c)
               \/ Dispose(r, c) \/ DisposerResolves(r, c) \/ Admit(r, c)
        PROVE  NotedType'
    BY <1>1, <2>4 DEF Subscribe, Registered, RegistrationFails, Dispose, DisposerResolves,
                      Admit, database, subscriptions
  <2>5. ASSUME NEW d \in Callers, Drain(d, r) PROVE NotedType'
    BY <1>1, <2>5 DEF Drain, database, subscriptions
  <2>6. CASE ReadHead(r) \/ ReadRows(r) \/ PassQuiet(r) \/ NextPass(r) \/ PassesEnd(r)
    BY <1>1, <2>6 DEF ReadHead, ReadRows, PassQuiet, NextPass, PassesEnd, database, subscriptions
  <2>7. CASE Deliver(r) \/ NothingLeft(r) \/ AnswerLost(r) \/ MoveAnswerLost(r)
    BY <1>1, <2>7 DEF Deliver, NothingLeft, AnswerLost, MoveAnswerLost, subscriptions
  <2>8. CASE HandlerFails(r) \/ LookupFails(r) \/ LockTimesOut(r) \/ StorageFails(r)
    BY <1>1, <2>8 DEF HandlerFails, LookupFails, LockTimesOut, StorageFails, database,
                      subscriptions
  <2> QED BY <1>6, <2>1, <2>2, <2>3, <2>4, <2>5, <2>6, <2>7, <2>8
          DEF RuntimeStep, PassStep, Failure
<1> QED BY <1>2, <1>3, <1>4, <1>5, <1>6 DEF Next

CallsType == calls \in [Callers -> Calls]

LEMMA CallsStep == ASSUME CoreInv, CallsType, [Next]_vars PROVE CallsType'
<1>0. /\ NoCall \in Calls
      /\ EventHead \in Nat
      /\ CallBound \in Nat
  BY ConstantsAssumption DEF NoCall, NoConsumers, Calls, EventHead, CallBound, CoreInv, LogType
<1>1. ASSUME UNCHANGED calls PROVE CallsType'
  BY <1>1 DEF CallsType
<1>2. CASE UNCHANGED vars
  BY <1>1, <1>2 DEF vars
<1>3. ASSUME NEW c \in Consumers, RetryDue(c) PROVE CallsType'
  BY <1>1, <1>3 DEF RetryDue
<1>4. ASSUME NEW r \in Publishers, Publish(r) PROVE CallsType'
  BY <1>1, <1>4 DEF Publish
<1>6. ASSUME NEW r \in Runtimes, WakeArrives(r) PROVE CallsType'
  BY <1>1, <1>6 DEF WakeArrives
<1>5. ASSUME NEW r \in Runtimes, RuntimeStep(r) PROVE CallsType'
  <2>1. ASSUME NEW cs,
               calls' = [d \in Callers |-> [calls[d] EXCEPT !.owed = Owed(d, r, cs)]]
        PROVE  CallsType'
    <3>1. ASSUME NEW d \in Callers PROVE [calls[d] EXCEPT !.owed = Owed(d, r, cs)] \in Calls
      <4>1. calls[d] \in Calls
        BY DEF CallsType
      <4>2. Owed(d, r, cs) \in [Consumers -> Nat \cup {None}]
        BY <4>1 DEF Owed, Calls
      <4> QED BY <4>1, <4>2 DEF Calls
    <3> QED BY <2>1, <3>1 DEF CallsType
  <2>2. ASSUME CallsEnd(r) PROVE CallsType'
    BY <1>0, <2>2 DEF CallsEnd, CallsType
  <2>3. ASSUME calls' = Covered(r) PROVE CallsType'
    <3>1. ASSUME NEW d \in Callers PROVE Covered(r)[d] \in Calls
      <4>1. calls[d] \in Calls
        BY DEF CallsType
      <4>2. calls[d].left > 1 => [calls[d] EXCEPT !.left = @ - 1] \in Calls
        BY <4>1 DEF Calls
      <4>3. calls[d].left <= 1 \/ calls[d].left > 1
        BY <4>1 DEF Calls
      <4> QED BY <1>0, <4>1, <4>2, <4>3 DEF Covered
    <3> QED BY <2>3, <3>1 DEF Covered, CallsType
  <2>4. CASE Initialize(r) \/ Closed(r) \/ TimerFires(r)
    BY <1>1, <2>4 DEF Initialize, Closed, TimerFires
  <2>5. CASE Close(r)
    BY <2>1, <2>5 DEF Close
  <2>6. CASE Crash(r)
    BY <2>2, <2>6 DEF Crash
  <2>7. ASSUME NEW c \in Consumers,
               \/ Subscribe(r, c) \/ Registered(r, c) \/ RegistrationFails(r, c)
               \/ DisposerResolves(r, c) \/ Admit(r, c)
        PROVE  CallsType'
    BY <1>1, <2>7 DEF Subscribe, Registered, RegistrationFails, DisposerResolves, Admit
  <2>8. ASSUME NEW c \in Consumers, Dispose(r, c) PROVE CallsType'
    BY <2>1, <2>8 DEF Dispose
  <2>9. ASSUME NEW d \in Callers, Drain(d, r) PROVE CallsType'
    <3> DEFINE owed == [c \in Consumers |-> IF held[r][c] = None THEN None ELSE EventHead]
    <3>1. owed \in [Consumers -> Nat \cup {None}]
      BY <1>0
    <3>2. calls' = [calls EXCEPT ![d] = [at |-> r, left |-> CallBound, owed |-> owed]]
      BY <2>9 DEF Drain
    <3>3. [at |-> r, left |-> CallBound, owed |-> owed] \in Calls
      BY <1>0, <3>1 DEF Calls
    <3> QED BY <3>2, <3>3 DEF CallsType
  <2>10. CASE ReadHead(r) \/ ReadRows(r) \/ PassQuiet(r) \/ NothingLeft(r) \/ RecordFailure(r)
    BY <1>1, <2>10 DEF ReadHead, ReadRows, PassQuiet, NothingLeft, RecordFailure
  <2>11. CASE Deliver(r) \/ HandlerFails(r)
    <3>1. \/ UNCHANGED calls
          \/ calls' = [d \in Callers |-> [calls[d] EXCEPT !.owed = Owed(d, r, {pass[r].current})]]
      BY <2>11 DEF Deliver, HandlerFails, Detach
    <3> QED BY <1>1, <2>1, <3>1
  <2>12. CASE LookupFails(r) \/ AnswerLost(r) \/ MoveAnswerLost(r) \/ LockTimesOut(r)
    BY <1>1, <2>12 DEF LookupFails, AnswerLost, MoveAnswerLost, LockTimesOut
  <2>13. CASE NextPass(r)
    BY <2>3, <2>13 DEF NextPass
  <2>14. CASE PassesEnd(r) \/ StorageFails(r)
    BY <2>2, <2>14 DEF PassesEnd, StorageFails, Rest
  <2> QED BY <1>5, <2>4, <2>5, <2>6, <2>7, <2>8, <2>9, <2>10, <2>11, <2>12, <2>13, <2>14
          DEF RuntimeStep, PassStep, Failure
<1> QED BY <1>2, <1>3, <1>4, <1>5, <1>6 DEF Next

-----------------------------------------------------------------------------
(* The invariant, and what follows from it.                                *)

LEMMA InitInv == Init => IInv
<1> SUFFICES ASSUME Init PROVE IInv
  OBVIOUS
<1> USE DEF NoConsumers
<1>1. LogType /\ log = <<>> /\ Len(log) = 0
  BY DEF Init, LogType
<1>2. CoreInv
  BY <1>1 DEF Init, CoreInv
<1>3. HeldInv
  BY DEF Init, HeldInv, SubscriptionType
<1>4. PassInv
  <2>1. \A r \in Runtimes : PassFits(log, definition, "idle", NoPass)
    BY <1>1, Idle DEF Busy
  <2>2. NoPass \in Passes
    BY ConstantsAssumption DEF NoPass, Passes
  <2> QED BY <2>1, <2>2 DEF Init, PassInv, Phases
<1>5. RetryType
  BY DEF Init, RetryType
<1>6. calls \in [Callers -> Calls]
  BY ConstantsAssumption DEF Init, NoCall, Calls
<1>8. blamed \in [Consumers -> Nat \cup {None}] /\ wakes \in [Runtimes -> Nat]
  BY DEF Init
<1>7. ExactlyOnceInOrder
  <2>1. Increasing(<<>>) /\ Elements(<<>>) = {}
    BY DEF Increasing, Elements
  <2> QED BY <2>1 DEF Init, ExactlyOnceInOrder
<1> QED BY <1>2, <1>3, <1>4, <1>5, <1>6, <1>7, <1>8 DEF IInv

LEMMA NextInv == IInv /\ [Next]_vars => IInv'
<1> SUFFICES ASSUME IInv, [Next]_vars PROVE IInv'
  OBVIOUS
<1>1. CoreInv /\ HeldInv /\ PassInv /\ RetryType /\ NotedType /\ CallsType /\ ExactlyOnceInOrder
  BY DEF IInv, NotedType, CallsType
<1>2. CoreInv' /\ ExactlyOnceInOrder'
  BY <1>1, CoreStepInv
<1>3. HeldInv' /\ PassInv' /\ RetryType' /\ NotedType' /\ CallsType'
  BY <1>1, HeldStep, PassStepInv, RetryStep, NotedStep, CallsStep
<1> QED BY <1>2, <1>3 DEF IInv, NotedType, CallsType

\* The invariant holds of every behaviour.
THEOREM Invariant == Spec => []IInv
BY InitInv, NextInv, PTL DEF Spec

\* Every variable of the database and of every dispatcher has its type: a cursor never
\* passes the log, and a pass only ever holds registrations with their own types.
THEOREM TypeCorrect == Spec => []TypeOK
<1>1. IInv => TypeOK
  BY DEF IInv, CoreInv, HeldInv, PassInv, DispatcherType, TypeOK
<1> QED BY <1>1, Invariant, PTL

\* A consumer's committed effects are those of exactly the events of its types up to its
\* cursor, each once and in log order, for any number of dispatchers, failures, lost
\* answers, reloads and crashes (deliver() and advance() in one transaction).
THEOREM DeliversExactlyOnce == Spec => []ExactlyOnceInOrder
<1>1. IInv => ExactlyOnceInOrder
  BY DEF IInv
<1> QED BY <1>1, Invariant, PTL

\* Every step of a dispatcher is a step of the promise or invisible to it.
LEMMA StepImplements == IInv /\ [Next]_vars => [Promise!Next]_(Promise!vars)
<1> SUFFICES ASSUME IInv, [Next]_vars PROVE Promise!Next \/ UNCHANGED Promise!vars
  BY DEF Promise!vars
<1>0. CoreInv /\ HeldInv /\ PassInv /\ LogType
  BY DEF IInv, CoreInv
<1>1. CASE UNCHANGED core
  BY <1>1 DEF core, Promise!vars
<1>2. ASSUME NEW r \in Publishers, Publish(r) PROVE Promise!Next
  BY <1>2 DEF Publish, Promise!Next, Promise!Publish
<1>3. ASSUME NEW r \in Runtimes, NEW c \in Consumers, Registered(r, c)
      PROVE  Promise!Next \/ UNCHANGED Promise!vars
  <2>1. CASE definition[c] # None
    BY <1>3, <2>1 DEF Registered, Promise!vars
  <2>2. CASE definition[c] = None
    <3>1. registering[r][c] \in Definitions
      BY <1>0, <1>3 DEF Registered, HeldInv, SubscriptionType
    <3>2. Promise!Install(c)
      BY <1>3, <2>2, <3>1 DEF Registered, EventHead, Promise!Install
    <3> QED BY <3>2 DEF Promise!Next
  <2> QED BY <2>1, <2>2
<1>4. ASSUME NEW r \in Runtimes, PassQuiet(r) PROVE Promise!Next
  <2> DEFINE p == pass[r]
             passed == {c \in p.quiet : Unchanged(r, c)}
  <2>1. /\ p \in Passes /\ p.head \in 0..Len(log)
        /\ \A c \in p.quiet : /\ c \in Consumers
                              /\ definition[c] # None
                              /\ p.seen[c] <= p.head
                              /\ \A e \in (p.seen[c] + 1)..p.head : log[e] \notin definition[c]
    BY <1>0 DEF PassInv, PassFits, Passes, LogType
  <2>2. /\ cursor' = [c \in Consumers |-> IF c \in passed THEN p.head ELSE cursor[c]]
        /\ UNCHANGED <<log, definition, effects>>
    BY <1>4 DEF PassQuiet
  <2>3. \A c \in passed : /\ definition[c] # None
                          /\ cursor[c] <= p.head
                          /\ Promise!Quiet(definition[c], cursor[c], p.head)
    BY <2>1 DEF Unchanged, Promise!Quiet
  <2>4. passed \in SUBSET Consumers
    BY <2>1
  <2>5. Promise!PassOver
    BY <2>1, <2>2, <2>3, <2>4 DEF Promise!PassOver
  <2> QED BY <2>5 DEF Promise!Next
<1>5. ASSUME NEW r \in Runtimes, Busy(phase[r])
      PROVE  LET c == pass[r].current
             IN  c \in Consumers /\ pass[r].todo[c] = definition[c] /\ definition[c] # None
  BY <1>0, <1>5 DEF PassInv, PassFits
<1>6. ASSUME NEW r \in Runtimes, NothingLeft(r) \/ MoveAnswerLost(r)
      PROVE  Promise!Next \/ UNCHANGED Promise!vars
  <2> DEFINE c == pass[r].current
  <2>0. Busy(phase[r]) /\ UNCHANGED <<log, definition, effects>>
    BY <1>6 DEF NothingLeft, MoveAnswerLost, Busy
  <2>1. CASE cursor' = cursor
    BY <2>0, <2>1 DEF Promise!vars
  <2>2. CASE Quiet(definition[c], cursor[c], EventHead) /\ cursor' = [cursor EXCEPT ![c] = EventHead]
    <3>1. c \in Consumers /\ definition[c] # None
      BY <1>5, <2>0
    <3>2. UNCHANGED <<log, definition, effects>>
      BY <2>0
    <3>3. /\ EventHead \in 0..Len(log)
          /\ cursor[c] <= EventHead
          /\ Promise!Quiet(definition[c], cursor[c], EventHead)
      BY <1>0, <2>2, <3>1 DEF LogType, EventHead, Quiet, Promise!Quiet
    <3>4. cursor' = [d \in Consumers |-> IF d \in {c} THEN EventHead ELSE cursor[d]]
      BY <1>0, <2>2 DEF LogType
    <3>5. {c} \in SUBSET Consumers
      BY <3>1
    <3>6. \A d \in {c} : /\ definition[d] # None
                         /\ cursor[d] <= EventHead
                         /\ Promise!Quiet(definition[d], cursor[d], EventHead)
      BY <3>1, <3>3
    <3>7. Promise!PassOver
      BY <3>2, <3>3, <3>4, <3>5, <3>6 DEF Promise!PassOver
    <3> QED BY <3>7 DEF Promise!Next
  <2> QED BY <1>5, <1>6, <2>0, <2>1, <2>2 DEF NothingLeft, MoveAnswerLost, MoveToHead
<1>7. ASSUME NEW r \in Runtimes, Deliver(r) \/ AnswerLost(r) PROVE Promise!Next
  <2> DEFINE c == pass[r].current
  <2>1. c \in Consumers /\ pass[r].todo[c] = definition[c] /\ definition[c] # None
    BY <1>5, <1>7 DEF Deliver, AnswerLost, Busy
  <2>2. PICK e \in 1..EventHead : IsNextEvent(e, cursor[c], definition[c]) /\ CommitDelivery(c, e)
    BY <1>7, <2>1 DEF Deliver, AnswerLost
  <2>3. definition' = definition /\ (log' = log \/ \E t \in Types : log' = Append(log, t))
    BY <1>7 DEF Deliver, AnswerLost, HandlerPublishes
  <2>4. /\ e \in 1..Len(log) /\ cursor[c] < e /\ log[e] \in definition[c]
        /\ Promise!Quiet(definition[c], cursor[c], e - 1)
    BY <1>0, <2>1, <2>2 DEF IsNextEvent, EventHead, Quiet, LogType, Promise!Quiet
  <2>5. /\ cursor' = [cursor EXCEPT ![c] = e]
        /\ effects' = [effects EXCEPT ![c] = Append(@, e)]
    BY <2>2 DEF CommitDelivery
  <2>6. Promise!Handle(c)
    BY <2>1, <2>3, <2>4, <2>5 DEF Promise!Handle
  <2> QED BY <2>1, <2>6 DEF Promise!Next
<1> QED BY <1>1, <1>2, <1>3, <1>4, <1>6, <1>7, CoreSteps DEF CoreStep

\* The dispatcher implements EventDelivery: seen through the log, the definitions, the
\* cursors and the effects, any number of competing dispatchers behave like one per-event
\* cursor that never skips, repeats or reorders.
THEOREM Implements == Spec => Delivery
<1>1. Init => Promise!Init
  BY DEF Init, Promise!Init, NoConsumers
<1> QED BY <1>1, Invariant, StepImplements, PTL DEF Spec, Delivery, Promise!Spec

-----------------------------------------------------------------------------
(* Who a runtime's dispatcher works for.  A registration the pass may still *)
(* offer is active, and a timer is armed exactly while it is needed.        *)

Owned(m, signing, active, joined, armed, ph, p) ==
    /\ m # "up" => ~armed
    /\ m = "up" => ph # "idle" \/ armed
    /\ m = "down" => ph = "idle" /\ signing = NoConsumers
    /\ \A c \in Consumers :
          p.todo[c] # None /\ c \notin p.gone =>
              active[c] # None \/ (ph = "failed" /\ p.current = c)
    /\ ph = "admitted" =>
          \/ m = "closing"
          \/ p.current \in joined
          \/ p.current \notin p.gone /\ active[p.current] # None

OwnedBy(r) ==
    Owned(mode[r], registering[r], held[r], leaving[r], timer[r], phase[r], pass[r])

OwnerInv == \A r \in Runtimes : OwnedBy(r)

\* What the proofs need of the invariant.
Shaped ==
    /\ SubscriptionType
    /\ DispatcherType
    /\ \A r \in Runtimes :
          Busy(phase[r]) => pass[r].current \in Consumers /\ pass[r].todo[pass[r].current] # None

\* What a runtime's dispatcher keeps, unmoved.
Still(r) ==
    /\ mode'[r] = mode[r] /\ registering'[r] = registering[r] /\ held'[r] = held[r]
    /\ leaving'[r] = leaving[r] /\ timer'[r] = timer[r] /\ phase'[r] = phase[r]
    /\ pass'[r] = pass[r]

LEMMA StillOwned == ASSUME NEW r \in Runtimes, OwnedBy(r), Still(r) PROVE OwnedBy(r)'
BY DEF OwnedBy, Still

\* A runtime's step leaves the other dispatchers alone.
LEMMA OthersStill ==
    ASSUME Shaped, NEW r \in Runtimes, RuntimeStep(r), NEW q \in Runtimes, q # r
    PROVE  Still(q)
<1> USE DEF Shaped, SubscriptionType, DispatcherType, Still
<1>1. ASSUME UNCHANGED <<subscriptions, timer, phase, pass>> PROVE Still(q)
    BY <1>1 DEF subscriptions
<1>2. CASE Initialize(r) \/ Close(r) \/ Closed(r) \/ Crash(r)
    BY <1>2 DEF Initialize, Close, Closed, Crash, Withdraw
<1>3. ASSUME NEW c \in Consumers,
             \/ Subscribe(r, c) \/ RegistrationFails(r, c)
             \/ Dispose(r, c) \/ DisposerResolves(r, c)
      PROVE  Still(q)
    BY <1>3 DEF Subscribe, RegistrationFails, Dispose, DisposerResolves, Withdraw, dispatcher
<1>4. ASSUME NEW c \in Consumers, Registered(r, c) PROVE Still(q)
    BY <1>4 DEF Registered, Wake, NoWake
<1>5. ASSUME NEW d \in Callers, Drain(d, r) PROVE Still(q)
    BY <1>5 DEF Drain, BeginPass, subscriptions
<1>6. ASSUME NEW c \in Consumers, Admit(r, c) PROVE Still(q)
    BY <1>6 DEF Admit, subscriptions
<1>7. CASE TimerFires(r) \/ NextPass(r)
    BY <1>7 DEF TimerFires, NextPass, BeginPass, subscriptions
<1>8. CASE ReadHead(r) \/ ReadRows(r) \/ PassQuiet(r)
    BY <1>8 DEF ReadHead, ReadRows, PassQuiet, subscriptions
<1>9. CASE Deliver(r)
    BY <1>9 DEF Deliver, Detach, Wake, NoWake
<1>10. CASE HandlerFails(r)
    BY <1>10 DEF HandlerFails, Attempted, Detach
<1>11. CASE NothingLeft(r) \/ RecordFailure(r)
    BY <1>11 DEF NothingLeft, RecordFailure, subscriptions
<1>13. CASE LookupFails(r) \/ AnswerLost(r) \/ MoveAnswerLost(r) \/ LockTimesOut(r)
    BY <1>13 DEF LookupFails, AnswerLost, MoveAnswerLost, LockTimesOut, Attempted, subscriptions
<1>12. CASE PassesEnd(r) \/ StorageFails(r)
    BY <1>12 DEF PassesEnd, StorageFails, Rest, subscriptions
<1> QED BY <1>2, <1>3, <1>4, <1>5, <1>6, <1>7, <1>8, <1>9, <1>10, <1>11, <1>12, <1>13
        DEF RuntimeStep, PassStep, Failure

\* A pass that begins offers the active registrations.
LEMMA BegunOwned ==
    ASSUME Shaped, NEW r \in Runtimes, OwnedBy(r), BeginPass(r),
           UNCHANGED <<mode, registering, held, leaving>>,
           mode[r] # "up" => ~timer'[r],
           mode[r] # "down"
    PROVE  OwnedBy(r)'
<1>1. /\ phase'[r] \in {"loop", "begun"}
      /\ pass'[r] = [NoPass EXCEPT !.todo = held[r]]
    BY DEF BeginPass, Shaped, DispatcherType
<1>2. pass'[r].todo = held[r] BY <1>1 DEF NoPass
<1> QED BY <1>1, <1>2 DEF OwnedBy, Owned

\* A pass that ends leaves the timer armed while the dispatcher is open.
LEMMA RestOwned ==
    ASSUME Shaped, NEW r \in Runtimes, OwnedBy(r), Rest(r),
           UNCHANGED <<mode, registering, held, leaving>>
    PROVE  OwnedBy(r)'
<1>1. /\ phase'[r] = "idle"
      /\ pass'[r] = NoPass
      /\ timer'[r] = (mode[r] = "up")
    BY DEF Rest, Shaped, DispatcherType
<1>2. \A c \in Consumers : NoPass.todo[c] = None BY DEF NoPass, NoConsumers
<1> QED BY <1>1, <1>2 DEF OwnedBy, Owned

LEMMA WakeArms ==
    ASSUME Shaped, NEW r \in Runtimes, Wake(r) \/ NoWake
    PROVE  /\ timer'[r] \in BOOLEAN
           /\ timer[r] => timer'[r]
           /\ mode[r] # "up" => timer'[r] = timer[r]
<1>1. timer \in [Runtimes -> BOOLEAN] BY DEF Shaped, DispatcherType
<1>2. CASE NoWake BY <1>1, <1>2 DEF NoWake
<1>3. CASE Wake(r) BY <1>1, <1>3 DEF Wake
<1> QED BY <1>2, <1>3

\* The pass goes on with no registration it did not have.
LEMMA PassOwned ==
    ASSUME Shaped, NEW r \in Runtimes, OwnedBy(r),
           UNCHANGED <<mode, registering, leaving>>,
           Wake(r) \/ NoWake,
           phase[r] # "idle", phase'[r] \in {"read", "quiet", "loop", "failed"},
           \A c \in Consumers :
               pass'[r].todo[c] # None /\ c \notin pass'[r].gone =>
                   held'[r][c] # None \/ (phase'[r] = "failed" /\ pass'[r].current = c)
    PROVE  OwnedBy(r)'
<1>1. mode[r] # "up" => timer'[r] = timer[r] BY WakeArms
<1> QED BY <1>1 DEF OwnedBy, Owned

LEMMA LeaveShape ==
    ASSUME Shaped, NEW r \in Runtimes, NEW c \in Consumers
    PROVE  /\ Leave(r, c).todo = [pass[r].todo EXCEPT ![c] = None]
           /\ Leave(r, c).todo[c] = None
           /\ \A d \in Consumers : d # c =>
                 /\ Leave(r, c).todo[d] = pass[r].todo[d]
                 /\ d \notin Leave(r, c).gone => d \notin pass[r].gone
<1>1. pass[r] \in Passes BY DEF Shaped, DispatcherType
<1> QED BY <1>1 DEF Leave, Passes

LEMMA LifecycleOwned ==
    ASSUME Shaped, NEW r \in Runtimes, OwnedBy(r),
           Initialize(r) \/ Close(r) \/ Closed(r) \/ Crash(r)
    PROVE  OwnedBy(r)'
<1>0. Shaped /\ pass[r] \in Passes BY DEF Shaped, DispatcherType
<1>1. CASE Initialize(r)
  <2>1. /\ mode[r] = "down" /\ mode'[r] = "up" /\ timer'[r] = TRUE
        /\ UNCHANGED <<registering, held, leaving, phase, pass>>
      BY <1>1 DEF Initialize, Shaped, SubscriptionType, DispatcherType
  <2> QED BY <2>1 DEF OwnedBy, Owned
<1>2. CASE Close(r)
  <2>1. /\ mode'[r] = "closing" /\ timer'[r] = FALSE /\ held'[r] = NoConsumers
        /\ UNCHANGED <<registering, leaving, phase>>
        /\ pass'[r] = [pass[r] EXCEPT !.gone = @ \cup {c \in Consumers : pass[r].todo[c] # None}]
      BY <1>2 DEF Close, Withdraw, Shaped, SubscriptionType, DispatcherType
  <2>2. \A c \in Consumers : pass'[r].todo[c] # None => c \in pass'[r].gone
      BY <1>0, <2>1 DEF Passes
  <2> QED BY <2>1, <2>2 DEF OwnedBy, Owned
<1>3. CASE Closed(r)
  <2>1. /\ mode'[r] = "down" /\ mode[r] = "closing"
        /\ registering[r] = NoConsumers /\ phase[r] = "idle"
        /\ UNCHANGED <<registering, held, leaving, timer, phase, pass>>
      BY <1>3 DEF Closed, Running, Shaped, SubscriptionType
  <2> QED BY <2>1 DEF OwnedBy, Owned
<1>4. CASE Crash(r)
  <2>1. /\ mode'[r] = "down" /\ registering'[r] = NoConsumers /\ timer'[r] = FALSE
        /\ phase'[r] = "idle" /\ pass'[r] = NoPass
      BY <1>4 DEF Crash, Shaped, SubscriptionType, DispatcherType
  <2>2. \A c \in Consumers : NoPass.todo[c] = None BY DEF NoPass, NoConsumers
  <2> QED BY <2>1, <2>2 DEF OwnedBy, Owned
<1> QED BY <1>1, <1>2, <1>3, <1>4

LEMMA SubscriptionOwned ==
    ASSUME Shaped, NEW r \in Runtimes, OwnedBy(r), NEW c \in Consumers,
           \/ Subscribe(r, c) \/ Registered(r, c) \/ RegistrationFails(r, c)
           \/ Dispose(r, c) \/ DisposerResolves(r, c)
    PROVE  OwnedBy(r)'
<1>0. pass[r] \in Passes BY DEF Shaped, DispatcherType
<1>1. CASE Subscribe(r, c)
  <2>1. mode[r] = "up" /\ UNCHANGED <<mode, held, leaving, timer, phase, pass>>
      BY <1>1 DEF Subscribe, dispatcher
  <2> QED BY <2>1 DEF OwnedBy, Owned
<1>2. ASSUME registering[r][c] # None,
             registering' = [registering EXCEPT ![r][c] = None]
      PROVE  mode[r] # "down"
    BY <1>2 DEF OwnedBy, Owned, NoConsumers
<1>3. CASE Registered(r, c)
  <2>1. /\ registering[r][c] # None
        /\ registering' = [registering EXCEPT ![r][c] = None]
        /\ UNCHANGED <<mode, leaving, phase, pass>>
      BY <1>3 DEF Registered
  <2>2. \A d \in Consumers : held[r][d] # None => held'[r][d] # None
    <3>1. held' = held \/ held' = [held EXCEPT ![r][c] = registering[r][c]]
        BY <1>3 DEF Registered
    <3> QED BY <2>1, <3>1 DEF Shaped, SubscriptionType
  <2>3. Wake(r) \/ NoWake BY <1>3 DEF Registered
  <2>4. mode[r] # "down" BY <1>2, <2>1
  <2>5. phase[r] = "admitted" => pass[r].current \in Consumers BY DEF Shaped, Busy
  <2> QED BY <2>1, <2>2, <2>3, <2>4, <2>5, WakeArms DEF OwnedBy, Owned
<1>4. CASE RegistrationFails(r, c)
  <2>1. /\ registering[r][c] # None
        /\ registering' = [registering EXCEPT ![r][c] = None]
        /\ UNCHANGED <<mode, held, leaving, timer, phase, pass>>
      BY <1>4 DEF RegistrationFails, dispatcher
  <2>2. mode[r] # "down" BY <1>2, <2>1
  <2> QED BY <2>1, <2>2 DEF OwnedBy, Owned
<1>5. CASE Dispose(r, c)
  <2>1. /\ held'[r] = [held[r] EXCEPT ![c] = None]
        /\ pass'[r] = [pass[r] EXCEPT !.gone =
                          @ \cup {d \in Consumers : d \in {c} /\ pass[r].todo[d] # None}]
        /\ leaving'[r] = leaving[r] \cup ({c} \cap Admitted(r))
        /\ UNCHANGED <<mode, registering, timer, phase>>
    <3>1. {d \in {c} : pass[r].todo[d] # None}
              = {d \in Consumers : d \in {c} /\ pass[r].todo[d] # None}
        OBVIOUS
    <3>2. /\ held' = [held EXCEPT ![r][c] = None]
          /\ leaving' = [leaving EXCEPT ![r] = @ \cup ({c} \cap Admitted(r))]
          /\ UNCHANGED <<mode, registering, timer, phase>>
          /\ pass' = [pass EXCEPT ![r] =
                 [pass[r] EXCEPT !.gone = @ \cup {d \in {c} : pass[r].todo[d] # None}]]
        BY <1>5 DEF Dispose, Withdraw
    <3> QED BY <3>1, <3>2 DEF Shaped, SubscriptionType, DispatcherType
  <2>2. /\ \A d \in Consumers : d # c => held'[r][d] = held[r][d]
        /\ pass'[r].todo = pass[r].todo /\ pass'[r].current = pass[r].current
        /\ pass[r].gone \subseteq pass'[r].gone
        /\ \A d \in Consumers : d # c /\ d \in pass'[r].gone => d \in pass[r].gone
        /\ pass[r].todo[c] # None => c \in pass'[r].gone
      BY <1>0, <2>1 DEF Passes, Shaped, SubscriptionType
  <2>3. phase[r] = "admitted" =>
            \/ mode[r] = "closing"
            \/ pass[r].current \in leaving'[r]
            \/ pass'[r].current \notin pass'[r].gone /\ held'[r][pass[r].current] # None
    <3> SUFFICES ASSUME phase[r] = "admitted"
                 PROVE  \/ mode[r] = "closing"
                        \/ pass[r].current \in leaving'[r]
                        \/ pass'[r].current \notin pass'[r].gone /\ held'[r][pass[r].current] # None
        OBVIOUS
    <3>1. pass[r].current \in Consumers BY DEF Shaped, Busy
    <3>2. CASE pass[r].current = c
      <4>1. c \notin pass[r].gone => c \in Admitted(r) BY <3>2 DEF Admitted
      <4> QED BY <2>1, <3>2, <4>1 DEF OwnedBy, Owned
    <3>3. CASE pass[r].current # c BY <2>1, <2>2, <3>1, <3>3 DEF OwnedBy, Owned
    <3> QED BY <3>2, <3>3
  <2> QED BY <2>1, <2>2, <2>3 DEF OwnedBy, Owned
<1>6. CASE DisposerResolves(r, c)
  <2>1. /\ leaving'[r] = leaving[r] \ {c}
        /\ ~(phase[r] = "admitted" /\ pass[r].current = c)
        /\ UNCHANGED <<mode, registering, held, timer, phase, pass>>
      BY <1>6 DEF DisposerResolves, Shaped, SubscriptionType, dispatcher
  <2> QED BY <2>1 DEF OwnedBy, Owned
<1> QED BY <1>1, <1>3, <1>4, <1>5, <1>6

LEMMA PassStepOwned ==
    ASSUME Shaped, NEW r \in Runtimes, OwnedBy(r),
           \/ PassStep(r) \/ HandlerFails(r) \/ LookupFails(r) \/ AnswerLost(r)
           \/ MoveAnswerLost(r) \/ LockTimesOut(r) \/ StorageFails(r)
    PROVE  OwnedBy(r)'
<1>0. pass[r] \in Passes BY DEF Shaped, DispatcherType
<1>1. \A c \in Consumers : pass[r].todo[c] # None /\ c \notin pass[r].gone =>
          held[r][c] # None \/ (phase[r] = "failed" /\ pass[r].current = c)
    BY DEF OwnedBy, Owned
<1>2. CASE ReadHead(r) \/ ReadRows(r) \/ PassQuiet(r)
  <2>1. /\ UNCHANGED <<mode, registering, held, leaving>> /\ NoWake
        /\ phase[r] \in {"begun", "read", "quiet"}
        /\ phase'[r] \in {"read", "quiet", "loop"}
        /\ \E todo, gone : pass'[r].todo = todo /\ pass'[r].gone = gone
      BY <1>2 DEF ReadHead, ReadRows, PassQuiet, subscriptions, Shaped, DispatcherType, NoWake
  <2>2. /\ pass'[r].gone = pass[r].gone
        /\ \A c \in Consumers : pass'[r].todo[c] # None => pass[r].todo[c] # None
    <3>1. CASE ReadHead(r) BY <1>0, <3>1 DEF ReadHead, Shaped, DispatcherType, Passes
    <3>2. CASE ReadRows(r) BY <1>0, <3>2 DEF ReadRows, Shaped, DispatcherType, Passes
    <3>3. CASE PassQuiet(r) BY <1>0, <3>3 DEF PassQuiet, Shaped, DispatcherType, Passes
    <3> QED BY <1>2, <3>1, <3>2, <3>3
  <2> QED BY <1>1, <2>1, <2>2, PassOwned
<1>3. ASSUME NEW c \in Consumers, Admit(r, c) PROVE OwnedBy(r)'
  <2>1. /\ UNCHANGED <<mode, registering, held, leaving, timer>>
        /\ phase[r] = "loop" /\ phase'[r] = "admitted"
        /\ pass[r].todo[c] # None /\ c \notin pass[r].gone
        /\ pass'[r].todo = pass[r].todo /\ pass'[r].gone = pass[r].gone
        /\ pass'[r].current = c
      BY <1>0, <1>3 DEF Admit, subscriptions, Shaped, DispatcherType, Passes
  <2> QED BY <2>1 DEF OwnedBy, Owned
<1>4. CASE Deliver(r)
  <2> DEFINE c == pass[r].current
  <2>1. /\ phase[r] = "admitted" /\ phase'[r] = "loop"
        /\ UNCHANGED <<mode, registering, leaving>>
        /\ Wake(r) \/ NoWake
      BY <1>4 DEF Deliver, Shaped, DispatcherType
  <2>2. PICK detached \in BOOLEAN :
            /\ Detach(r, c, detached)
            /\ \/ ~detached /\ pass'[r] = [pass[r] EXCEPT !.count = @ + 1]
               \/ \E backlog : pass'[r] = [Leave(r, c) EXCEPT !.backlog = backlog]
      BY <1>4 DEF Deliver, Shaped, DispatcherType
  <2>3. c \in Consumers BY <2>1 DEF Shaped, Busy
  <2> HIDE DEF c
  <2>4. CASE ~detached /\ pass'[r] = [pass[r] EXCEPT !.count = @ + 1]
    <3>1. pass'[r].todo = pass[r].todo /\ pass'[r].gone = pass[r].gone /\ held' = held
        BY <1>0, <2>2, <2>4 DEF Passes, Detach
    <3> QED BY <1>1, <2>1, <3>1, PassOwned
  <2>5. CASE \E backlog : pass'[r] = [Leave(r, c) EXCEPT !.backlog = backlog]
    <3>1. pass'[r].todo = Leave(r, c).todo /\ pass'[r].gone = Leave(r, c).gone
        BY <2>5 DEF Leave
    <3>2. \A d \in Consumers : d # c => held'[r][d] = held[r][d]
      <4>1. held' = held \/ held' = [held EXCEPT ![r][c] = None] BY <2>2 DEF Detach
      <4> QED BY <4>1 DEF Shaped, SubscriptionType
    <3>3. \A d \in Consumers : pass'[r].todo[d] # None /\ d \notin pass'[r].gone =>
              held'[r][d] # None
      <4>1. /\ Leave(r, c).todo[c] = None
            /\ \A d \in Consumers : d # c =>
                  /\ Leave(r, c).todo[d] = pass[r].todo[d]
                  /\ d \notin Leave(r, c).gone => d \notin pass[r].gone
          BY <2>3, LeaveShape
      <4>2. \A d \in Consumers : d # c => ~(phase[r] = "failed" /\ pass[r].current = d)
          BY <2>1
      <4> QED BY <1>1, <3>1, <3>2, <4>1, <4>2
    <3> QED BY <2>1, <3>3, PassOwned
  <2> QED BY <2>2, <2>4, <2>5
<1>5. CASE NothingLeft(r) \/ RecordFailure(r)
  <2>1. /\ phase[r] \in {"admitted", "failed"} /\ phase'[r] = "loop"
        /\ UNCHANGED <<mode, registering, held, leaving>> /\ NoWake
        /\ pass'[r] = Leave(r, pass[r].current)
      BY <1>5 DEF NothingLeft, RecordFailure, subscriptions, NoWake, Shaped, DispatcherType
  <2>2. pass[r].current \in Consumers BY <2>1 DEF Shaped, Busy
  <2>3. \A d \in Consumers : pass'[r].todo[d] # None /\ d \notin pass'[r].gone =>
            held[r][d] # None
    <3> DEFINE c == pass[r].current
    <3>1. /\ Leave(r, c).todo[c] = None
          /\ \A d \in Consumers : d # c =>
                /\ Leave(r, c).todo[d] = pass[r].todo[d]
                /\ d \notin Leave(r, c).gone => d \notin pass[r].gone
        BY <2>2, LeaveShape
    <3> QED BY <1>1, <2>1, <3>1
  <2> QED BY <2>1, <2>3, PassOwned
<1>6. CASE NextPass(r)
  <2>1. mode[r] = "up" /\ BeginPass(r) /\ UNCHANGED <<mode, registering, held, leaving>>
      BY <1>6 DEF NextPass, AnotherPass, subscriptions
  <2> QED BY <2>1, BegunOwned
<1>7. CASE PassesEnd(r) \/ StorageFails(r)
    BY <1>7, RestOwned DEF PassesEnd, StorageFails, subscriptions
<1>8. CASE \/ HandlerFails(r) \/ LookupFails(r) \/ AnswerLost(r) \/ MoveAnswerLost(r)
           \/ LockTimesOut(r)
  <2> DEFINE c == pass[r].current
  <2>1. /\ phase[r] = "admitted" /\ phase'[r] = "failed"
        /\ UNCHANGED <<mode, registering, leaving>> /\ NoWake
        /\ held' = held \/ held' = [held EXCEPT ![r][c] = None]
        /\ \E from, event : pass'[r] = [pass[r] EXCEPT !.attempted = from, !.event = event]
    <3>1. \E from, event : Attempted(r, from, event)
      <4>1. CASE HandlerFails(r) BY <4>1 DEF HandlerFails
      <4>2. CASE AnswerLost(r) BY <4>2 DEF AnswerLost
      <4>3. CASE LookupFails(r) BY <4>3 DEF LookupFails
      <4>4. CASE MoveAnswerLost(r) BY <4>4 DEF MoveAnswerLost
      <4>5. CASE LockTimesOut(r) BY <4>5 DEF LockTimesOut
      <4> QED BY <1>8, <4>1, <4>2, <4>3, <4>4, <4>5
    <3>2. /\ phase'[r] = "failed"
          /\ \E from, event : pass'[r] = [pass[r] EXCEPT !.attempted = from, !.event = event]
      <4>1. PICK from, event : Attempted(r, from, event) BY <3>1
      <4>2. /\ phase'[r] = "failed"
            /\ pass'[r] = [pass[r] EXCEPT !.attempted = from, !.event = event]
          BY <4>1 DEF Attempted, Shaped, DispatcherType
      <4> QED BY <4>2
    <3>3. /\ phase[r] = "admitted" /\ UNCHANGED <<mode, registering, leaving>> /\ NoWake
          /\ held' = held \/ held' = [held EXCEPT ![r][c] = None]
      <4>1. CASE HandlerFails(r) BY <4>1 DEF HandlerFails, Detach, NoWake
      <4>2. CASE LookupFails(r) \/ AnswerLost(r) \/ MoveAnswerLost(r) \/ LockTimesOut(r)
          BY <4>2 DEF LookupFails, AnswerLost, MoveAnswerLost, LockTimesOut, subscriptions, NoWake
      <4> QED BY <1>8, <4>1, <4>2
    <3> QED BY <3>2, <3>3
  <2>2. /\ pass'[r].todo = pass[r].todo /\ pass'[r].gone = pass[r].gone
        /\ pass'[r].current = c
      BY <1>0, <2>1 DEF Passes
  <2>3. c \in Consumers BY <2>1 DEF Shaped, Busy
  <2> HIDE DEF c
  <2>4. \A d \in Consumers : d # c => held'[r][d] = held[r][d]
      BY <2>1 DEF Shaped, SubscriptionType
  <2> QED BY <1>1, <2>1, <2>2, <2>4, PassOwned
<1> QED BY <1>2, <1>3, <1>4, <1>5, <1>6, <1>7, <1>8 DEF PassStep

LEMMA RuntimeOwned ==
    ASSUME Shaped, NEW r \in Runtimes, OwnedBy(r), RuntimeStep(r)
    PROVE  OwnedBy(r)'
<1>1. CASE Initialize(r) \/ Close(r) \/ Closed(r) \/ Crash(r) BY <1>1, LifecycleOwned
<1>2. ASSUME NEW c \in Consumers,
             \/ Subscribe(r, c) \/ Registered(r, c) \/ RegistrationFails(r, c)
             \/ Dispose(r, c) \/ DisposerResolves(r, c)
      PROVE  OwnedBy(r)'
    BY <1>2, SubscriptionOwned
<1>3. ASSUME NEW d \in Callers, Drain(d, r) PROVE OwnedBy(r)'
  <2>1. UNCHANGED <<mode, registering, held, leaving>> BY <1>3 DEF Drain, subscriptions
  <2>2. CASE Running(r)
    <3>1. UNCHANGED <<timer, phase, pass>> BY <1>3, <2>2 DEF Drain
    <3> QED BY <2>1, <3>1 DEF OwnedBy, Owned
  <2>3. CASE ~Running(r)
    <3>1. mode[r] = "up" /\ BeginPass(r) BY <1>3, <2>3 DEF Drain
    <3> QED BY <2>1, <3>1, BegunOwned
  <2> QED BY <2>2, <2>3
<1>4. CASE TimerFires(r)
  <2>1. /\ timer[r] /\ BeginPass(r)
        /\ UNCHANGED <<mode, registering, held, leaving>>
      BY <1>4 DEF TimerFires, subscriptions
  <2>2. mode[r] = "up" BY <2>1 DEF OwnedBy, Owned
  <2> QED BY <2>1, <2>2, BegunOwned
<1> QED BY <1>1, <1>2, <1>3, <1>4, PassStepOwned DEF RuntimeStep, Failure

LEMMA StepOwned == Shaped /\ OwnerInv /\ [Next]_vars => OwnerInv'
<1> SUFFICES ASSUME Shaped, OwnerInv, [Next]_vars, NEW q \in Runtimes PROVE OwnedBy(q)'
    BY DEF OwnerInv
<1>0. OwnedBy(q) BY DEF OwnerInv
<1>1. ASSUME UNCHANGED <<mode, registering, held, leaving, timer, phase, pass>>
      PROVE  OwnedBy(q)'
    BY <1>0, <1>1, StillOwned DEF Still
<1>2. CASE UNCHANGED vars BY <1>1, <1>2 DEF vars, subscriptions, dispatcher
<1>3. ASSUME NEW c \in Consumers, RetryDue(c) PROVE OwnedBy(q)'
    BY <1>1, <1>3 DEF RetryDue, subscriptions, dispatcher
<1>4. ASSUME NEW r \in Publishers, Publish(r) PROVE OwnedBy(q)'
    BY <1>1, <1>4 DEF Publish, dispatcher
<1>6. ASSUME NEW r \in Runtimes, WakeArrives(r) PROVE OwnedBy(q)'
  <2>1. UNCHANGED <<mode, registering, held, leaving, phase, pass>> /\ Wake(r)
      BY <1>6 DEF WakeArrives
  <2>2. q # r => timer'[q] = timer[q] BY <2>1 DEF Wake, Shaped, DispatcherType
  <2>3. /\ timer[q] => timer'[q]
        /\ mode[q] # "up" => timer'[q] = timer[q]
      BY <2>1, <2>2, WakeArms
  <2> QED BY <1>0, <2>1, <2>3 DEF OwnedBy, Owned
<1>5. ASSUME NEW r \in Runtimes, RuntimeStep(r) PROVE OwnedBy(q)'
  <2>1. CASE q = r BY <1>0, <1>5, <2>1, RuntimeOwned
  <2>2. CASE q # r BY <1>0, <1>5, <2>2, OthersStill, StillOwned
  <2> QED BY <2>1, <2>2
<1> QED BY <1>2, <1>3, <1>4, <1>5, <1>6 DEF Next

LEMMA InvariantShapes == IInv => Shaped
BY DEF IInv, HeldInv, PassInv, PassFits, DispatcherType, Shaped

LEMMA AlwaysOwned == Spec => []OwnerInv
<1>1. ASSUME Init PROVE OwnerInv
  <2>1. \A c \in Consumers : NoPass.todo[c] = None BY DEF NoPass, NoConsumers
  <2>2. \A r \in Runtimes :
            /\ mode[r] = "down" /\ registering[r] = NoConsumers /\ timer[r] = FALSE
            /\ phase[r] = "idle" /\ pass[r] = NoPass
      BY <1>1 DEF Init
  <2> QED BY <2>1, <2>2 DEF OwnerInv, OwnedBy, Owned
<1> QED BY <1>1, Invariant, InvariantShapes, StepOwned, PTL DEF Spec

\* No handler transaction is in flight for a registration whose disposer, or close(), has
\* resolved; a stopped dispatcher runs nothing and has no timer.
THEOREM NothingOutlivesItsOwner == Spec => []NoWorkOutlivesItsOwner
<1>1. OwnerInv => NoWorkOutlivesItsOwner
    BY DEF OwnerInv, OwnedBy, Owned, NoWorkOutlivesItsOwner, Running
<1> QED BY <1>1, AlwaysOwned, PTL

\* An open dispatcher is running a pass or has its timer armed.
THEOREM AlwaysAwake == Spec => []NeverAsleep
<1>1. OwnerInv => NeverAsleep
    BY DEF OwnerInv, OwnedBy, Owned, NeverAsleep, Running
<1> QED BY <1>1, AlwaysOwned, PTL

-----------------------------------------------------------------------------
(* Retries.  The event a failed delivery found is still the next one, and   *)
(* only a row that stands where it stood is put into retry.                 *)

\* A failure at `from` is about e, the next event there, or names none.
Explains(c, e, from) ==
    /\ definition[c] # None
    /\ IF e = None THEN StorageFaults ELSE IsNextEvent(e, from, definition[c])

RetryInv ==
    /\ \A c \in Consumers : attempts[c] > 0 => Explains(c, blamed[c], cursor[c])
    /\ \A r \in Runtimes : pass[r].attempted # None =>
          /\ phase[r] = "failed"
          /\ Explains(pass[r].current, pass[r].event, pass[r].attempted)

LEMMA StillExplains ==
    ASSUME LogType, Grows, NEW c \in Consumers, NEW e \in Nat \cup {None}, NEW from \in Nat,
           Explains(c, e, from)
    PROVE  Explains(c, e, from)'
<1>1. definition'[c] = definition[c] /\ definition[c] # None BY DEF Grows, Explains
<1>2. CASE e = None BY <1>1, <1>2 DEF Explains
<1>3. CASE e # None
  <2>1. /\ e \in (from + 1)..Len(log) /\ log[e] \in definition[c]
        /\ \A x \in (from + 1)..(e - 1) : log[x] \notin definition[c]
      BY <1>3 DEF Explains, IsNextEvent, EventHead, Quiet
  <2>2. Len(log) \in Nat /\ Len(log') \in Nat /\ Len(log) <= Len(log')
      BY DEF LogType, Grows
  <2>3. /\ e \in 1..Len(log) /\ e \in (from + 1)..Len(log')
        /\ \A x \in (from + 1)..(e - 1) : x \in 1..Len(log)
      BY <2>1, <2>2
  <2>4. /\ log'[e] = log[e]
        /\ \A x \in (from + 1)..(e - 1) : log'[x] = log[x]
      BY <2>3 DEF Grows
  <2>5. /\ log'[e] \in definition'[c]
        /\ \A x \in (from + 1)..(e - 1) : log'[x] \notin definition'[c]
      BY <1>1, <2>1, <2>4
  <2> QED BY <1>1, <1>3, <2>3, <2>5 DEF Explains, IsNextEvent, EventHead, Quiet
<1> QED BY <1>2, <1>3

\* The registration in hand is that of an installed consumer.
LEMMA InHand ==
    ASSUME LogType, PassInv, NEW r \in Runtimes, Busy(phase[r])
    PROVE  LET c == pass[r].current
           IN  /\ c \in Consumers /\ cursor[c] \in Nat
               /\ pass[r].todo[c] = definition[c] /\ definition[c] # None
<1> DEFINE c == pass[r].current
<1>1. PassFits(log, definition, phase[r], pass[r]) BY DEF PassInv
<1>2. c \in Consumers /\ pass[r].todo[c] = definition[c] /\ definition[c] # None
    BY <1>1 DEF PassFits
<1>3. cursor[c] \in Nat BY <1>2 DEF LogType
<1> QED BY <1>2, <1>3

\* What a step may do to the rows: put one whose failure is explained into retry, move the
\* cursors of others.
RowsMayRetry ==
    \A c \in Consumers : attempts'[c] > 0 =>
        /\ cursor'[c] = cursor[c]
        /\ \/ attempts[c] > 0 /\ blamed'[c] = blamed[c]
           \/ Explains(c, blamed'[c], cursor[c])

\* What a step may do to a pass: note a failure it can explain, or keep the note.
MayNote(r) ==
    pass'[r].attempted # None =>
        /\ phase'[r] = "failed"
        /\ pass'[r].current = pass[r].current
        /\ \/ pass'[r].attempted = pass[r].attempted /\ pass'[r].event = pass[r].event
           \/ /\ pass[r].current \in Consumers
              /\ pass'[r].attempted \in Nat
              /\ pass'[r].event \in Nat \cup {None}
              /\ Explains(pass[r].current, pass'[r].event, pass'[r].attempted)

LEMMA RetryKept ==
    ASSUME LogType, NotedType', Grows, PassInv, RetryInv, RowsMayRetry,
           \A r \in Runtimes : MayNote(r)
    PROVE  RetryInv'
<1>1. ASSUME NEW c \in Consumers, attempts'[c] > 0 PROVE Explains(c, blamed[c], cursor[c])'
  <2>1. cursor'[c] = cursor[c] /\ Explains(c, blamed'[c], cursor[c])
      BY <1>1 DEF RowsMayRetry, RetryInv
  <2>2. cursor[c] \in Nat /\ blamed'[c] \in Nat \cup {None} BY DEF LogType, NotedType
  <2>3. PICK from \in Nat, e \in Nat \cup {None} : from = cursor[c] /\ e = blamed'[c]
      BY <2>2
  <2>4. Explains(c, e, from)' BY <2>1, <2>3, StillExplains
  <2> QED BY <2>1, <2>3, <2>4 DEF Explains
<1>2. ASSUME NEW r \in Runtimes, pass'[r].attempted # None
      PROVE  phase'[r] = "failed" /\ Explains(pass[r].current, pass[r].event, pass[r].attempted)'
  <2>1. /\ phase'[r] = "failed" /\ pass'[r].current = pass[r].current
        /\ pass'[r].attempted \in Nat /\ pass'[r].event \in Nat \cup {None}
        /\ Explains(pass[r].current, pass'[r].event, pass'[r].attempted)
        /\ pass[r].current \in Consumers
    <3>1. pass[r] \in Passes BY DEF PassInv
    <3>2. /\ phase'[r] = "failed" /\ pass'[r].current = pass[r].current
          /\ \/ pass'[r].attempted = pass[r].attempted /\ pass'[r].event = pass[r].event
             \/ /\ pass[r].current \in Consumers
                /\ pass'[r].attempted \in Nat
                /\ pass'[r].event \in Nat \cup {None}
                /\ Explains(pass[r].current, pass'[r].event, pass'[r].attempted)
        BY <1>2 DEF MayNote
    <3>3. pass[r].attempted # None =>
              phase[r] = "failed" /\ Explains(pass[r].current, pass[r].event, pass[r].attempted)
        BY DEF RetryInv
    <3>4. pass[r].attempted \in Nat \cup {None} /\ pass[r].event \in Nat \cup {None}
        BY <3>1 DEF Passes
    <3>5. /\ pass'[r].attempted \in Nat /\ pass'[r].event \in Nat \cup {None}
          /\ Explains(pass[r].current, pass'[r].event, pass'[r].attempted)
        BY <1>2, <3>2, <3>3, <3>4
    <3>6. pass[r].current \in Consumers
      <4>1. Busy(phase[r]) => pass[r].current \in Consumers BY DEF PassInv, PassFits
      <4> QED BY <1>2, <3>2, <3>3, <4>1 DEF Busy
    <3> QED BY <3>2, <3>5, <3>6
  <2>2. PICK from \in Nat, c \in Consumers, e \in Nat \cup {None} :
            from = pass'[r].attempted /\ c = pass[r].current /\ e = pass'[r].event
      BY <2>1
  <2>3. Explains(c, e, from)' BY <2>1, <2>2, StillExplains
  <2> QED BY <2>1, <2>2, <2>3 DEF Explains
<1> QED BY <1>1, <1>2 DEF RetryInv

LEMMA NoNote ==
    ASSUME NEW r \in Runtimes, phase'[r] = phase[r],
           pass'[r].attempted = pass[r].attempted, pass'[r].event = pass[r].event,
           pass'[r].current = pass[r].current, RetryInv
    PROVE  MayNote(r)
BY DEF MayNote, RetryInv

\* A step of one runtime, as far as its notes go.
LEMMA RuntimeNotes ==
    ASSUME LogType, Shaped, PassInv, RetryInv, NEW r \in Runtimes, RuntimeStep(r)
    PROVE  MayNote(r)
<1>0. pass[r] \in Passes /\ phase \in [Runtimes -> Phases] /\ pass \in [Runtimes -> Passes]
    BY DEF PassInv
<1>1. phase[r] # "failed" => pass[r].attempted = None BY DEF RetryInv
<1>2. ASSUME UNCHANGED <<phase, pass>> PROVE MayNote(r) BY <1>2, NoNote
<1>3. ASSUME NEW p, pass' = [pass EXCEPT ![r] = p], p.attempted = None PROVE MayNote(r)
    BY <1>0, <1>3 DEF MayNote
<1>4. NoPass.attempted = None BY DEF NoPass
<1>5. CASE Initialize(r) \/ Closed(r) BY <1>2, <1>5 DEF Initialize, Closed
<1>6. ASSUME NEW cs, Withdraw(r, cs), UNCHANGED phase PROVE MayNote(r)
  <2>1. /\ pass'[r].attempted = pass[r].attempted /\ pass'[r].current = pass[r].current
        /\ pass'[r].event = pass[r].event
      BY <1>0, <1>6 DEF Withdraw, Passes
  <2> QED BY <1>6, <2>1, NoNote
<1>7. CASE Close(r) BY <1>6, <1>7 DEF Close
<1>8. CASE Crash(r) BY <1>3, <1>4, <1>8 DEF Crash
<1>9. ASSUME NEW c \in Consumers,
             \/ Subscribe(r, c) \/ Registered(r, c) \/ RegistrationFails(r, c)
             \/ DisposerResolves(r, c)
      PROVE  MayNote(r)
    BY <1>2, <1>9 DEF Subscribe, Registered, RegistrationFails, DisposerResolves, dispatcher
<1>10. ASSUME NEW c \in Consumers, Dispose(r, c) PROVE MayNote(r)
    BY <1>6, <1>10 DEF Dispose
<1>11. ASSUME BeginPass(r) PROVE MayNote(r)
  <2>1. [NoPass EXCEPT !.todo = held[r]].attempted = None BY <1>4 DEF NoPass
  <2> QED BY <1>3, <1>11, <2>1 DEF BeginPass
<1>12. ASSUME NEW d \in Callers, Drain(d, r) PROVE MayNote(r)
    BY <1>2, <1>11, <1>12 DEF Drain
<1>13. CASE TimerFires(r) \/ NextPass(r) BY <1>11, <1>13 DEF TimerFires, NextPass
<1>14. CASE PassesEnd(r) \/ StorageFails(r)
    BY <1>3, <1>4, <1>14 DEF PassesEnd, StorageFails, Rest
<1>15. CASE ReadHead(r) \/ ReadRows(r) \/ PassQuiet(r)
  <2>1. pass'[r].attempted = pass[r].attempted /\ phase[r] # "failed"
    <3>1. CASE ReadHead(r) BY <1>0, <3>1 DEF ReadHead, Passes
    <3>2. CASE ReadRows(r)
      <4>1. PICK quiet, seen, todo :
                pass'[r] = [pass[r] EXCEPT !.quiet = quiet, !.seen = seen, !.todo = todo]
          BY <1>0, <3>2 DEF ReadRows
      <4> QED BY <1>0, <3>2, <4>1 DEF ReadRows, Passes
    <3>3. CASE PassQuiet(r)
      <4>1. PICK quiet, seen, todo :
                pass'[r] = [pass[r] EXCEPT !.quiet = quiet, !.seen = seen, !.todo = todo]
          BY <1>0, <3>3 DEF PassQuiet
      <4> QED BY <1>0, <3>3, <4>1 DEF PassQuiet, Passes
    <3> QED BY <1>15, <3>1, <3>2, <3>3
  <2> QED BY <1>1, <2>1 DEF MayNote
<1>16. ASSUME NEW c \in Consumers, Admit(r, c) PROVE MayNote(r)
  <2>1. pass'[r].attempted = pass[r].attempted /\ phase[r] # "failed"
      BY <1>0, <1>16 DEF Admit, Passes
  <2> QED BY <1>1, <2>1 DEF MayNote
<1>17. \A c : Leave(r, c).attempted = None BY <1>0 DEF Leave, Passes
<1>18. CASE NothingLeft(r) \/ RecordFailure(r)
    BY <1>3, <1>17, <1>18 DEF NothingLeft, RecordFailure
<1>19. CASE Deliver(r)
  <2>1. PICK p : pass' = [pass EXCEPT ![r] = p] /\
                 \/ p = [pass[r] EXCEPT !.count = @ + 1]
                 \/ \E b : p = [Leave(r, pass[r].current) EXCEPT !.backlog = b]
      BY <1>19 DEF Deliver
  <2>2. phase[r] = "admitted" BY <1>19 DEF Deliver
  <2>3. p.attempted = None BY <1>0, <1>1, <1>17, <2>1, <2>2 DEF Passes, Leave
  <2> QED BY <1>3, <2>1, <2>3
<1>20. CASE LockTimesOut(r)
  <2>1. pass' = [pass EXCEPT ![r] = [pass[r] EXCEPT !.attempted = None, !.event = None]]
      BY <1>20 DEF LockTimesOut, Attempted
  <2>2. [pass[r] EXCEPT !.attempted = None, !.event = None].attempted = None
      BY <1>0 DEF Passes
  <2> QED BY <1>3, <2>1, <2>2
<1>21. ASSUME Busy(phase[r]), NEW event \in Nat \cup {None},
              Attempted(r, cursor[pass[r].current], event),
              IF event = None THEN StorageFaults
              ELSE IsNextEvent(event, cursor[pass[r].current], pass[r].todo[pass[r].current])
       PROVE  MayNote(r)
  <2> DEFINE c == pass[r].current
  <2>1. /\ phase'[r] = "failed"
        /\ pass'[r] = [pass[r] EXCEPT !.attempted = cursor[c], !.event = event]
      BY <1>0, <1>21 DEF Attempted
  <2>2. /\ pass'[r].attempted = cursor[c] /\ pass'[r].event = event
        /\ pass'[r].current = c
      BY <1>0, <2>1 DEF Passes
  <2>3. c \in Consumers /\ cursor[c] \in Nat /\ pass[r].todo[c] = definition[c]
        /\ definition[c] # None
      BY <1>21, InHand
  <2>4. Explains(c, event, cursor[c]) BY <1>21, <2>3 DEF Explains
  <2> QED BY <2>1, <2>2, <2>3, <2>4 DEF MayNote
<1>22. CASE HandlerFails(r) \/ AnswerLost(r)
  <2>1. Busy(phase[r]) BY <1>22 DEF HandlerFails, AnswerLost, Busy
  <2>2. PICK e \in 1..EventHead :
            /\ IsNextEvent(e, cursor[pass[r].current], pass[r].todo[pass[r].current])
            /\ Attempted(r, cursor[pass[r].current], e)
      BY <1>22 DEF HandlerFails, AnswerLost
  <2>3. e \in Nat /\ e # None BY ConstantsAssumption
  <2> QED BY <1>21, <2>1, <2>2, <2>3
<1>23. CASE LookupFails(r) \/ MoveAnswerLost(r)
  <2>1. Busy(phase[r]) /\ StorageFaults /\ Attempted(r, cursor[pass[r].current], None)
      BY <1>23 DEF LookupFails, MoveAnswerLost, Busy
  <2> QED BY <1>21, <2>1
<1> QED BY <1>5, <1>7, <1>8, <1>9, <1>10, <1>12, <1>13, <1>14, <1>15, <1>16, <1>18, <1>19,
           <1>20, <1>22, <1>23
        DEF RuntimeStep, PassStep, Failure

LEMMA RuntimeRows ==
    ASSUME LogType, RetryType, NotedType, PassInv, RetryInv,
           NEW r \in Runtimes, RuntimeStep(r)
    PROVE  RowsMayRetry
<1>1. ASSUME UNCHANGED <<cursor, attempts, blamed>> PROVE RowsMayRetry
    BY <1>1 DEF RowsMayRetry
<1>2. CASE \/ Initialize(r) \/ Close(r) \/ Closed(r) \/ Crash(r) \/ TimerFires(r)
           \/ ReadHead(r) \/ ReadRows(r) \/ NextPass(r) \/ PassesEnd(r)
           \/ HandlerFails(r) \/ LookupFails(r) \/ LockTimesOut(r) \/ StorageFails(r)
    BY <1>1, <1>2
       DEF Initialize, Close, Closed, Crash, TimerFires, ReadHead, ReadRows, NextPass,
           PassesEnd, HandlerFails, LookupFails, LockTimesOut, StorageFails, database
<1>3. ASSUME NEW c \in Consumers,
             \/ Subscribe(r, c) \/ RegistrationFails(r, c) \/ Dispose(r, c)
             \/ DisposerResolves(r, c) \/ Admit(r, c)
      PROVE  RowsMayRetry
    BY <1>1, <1>3 DEF Subscribe, RegistrationFails, Dispose, DisposerResolves, Admit, database
<1>4. ASSUME NEW d \in Callers, Drain(d, r) PROVE RowsMayRetry
    BY <1>1, <1>4 DEF Drain, database
<1>5. ASSUME NEW c \in Consumers, Registered(r, c) PROVE RowsMayRetry
  <2>1. attempts' = attempts /\ blamed' = blamed BY <1>5 DEF Registered
  <2>2. definition[c] # None => cursor' = cursor BY <1>5 DEF Registered
  <2>3. \A d \in Consumers : d # c => cursor'[d] = cursor[d] BY <1>5 DEF Registered, LogType
  <2>4. definition[c] = None => ~(attempts[c] > 0) BY DEF RetryInv, Explains
  <2> QED BY <2>1, <2>2, <2>3, <2>4 DEF RowsMayRetry
<1>6. CASE PassQuiet(r)
  <2>1. PICK passed \in SUBSET Consumers :
            /\ cursor' = [c \in Consumers |-> IF c \in passed THEN pass[r].head ELSE cursor[c]]
            /\ attempts' = [c \in Consumers |-> IF c \in passed THEN 0 ELSE attempts[c]]
            /\ blamed' = blamed
    <3>1. {c \in pass[r].quiet : Unchanged(r, c)} \in SUBSET Consumers
        BY DEF PassInv, Passes
    <3> QED BY <1>6, <3>1 DEF PassQuiet
  <2> QED BY <2>1 DEF RowsMayRetry
<1>7. CASE Deliver(r) \/ AnswerLost(r)
  <2> DEFINE c == pass[r].current
  <2>1. PICK e : /\ cursor' = [cursor EXCEPT ![c] = e]
                 /\ attempts' = [attempts EXCEPT ![c] = 0]
                 /\ blamed' = blamed
      BY <1>7 DEF Deliver, AnswerLost, CommitDelivery
  <2> QED BY <2>1 DEF RowsMayRetry, LogType, RetryType
<1>8. CASE NothingLeft(r) \/ MoveAnswerLost(r)
  <2> DEFINE c == pass[r].current
  <2>0. phase[r] = "admitted" /\ blamed' = blamed BY <1>8 DEF NothingLeft, MoveAnswerLost
  <2>1. \/ UNCHANGED <<cursor, attempts>>
        \/ /\ cursor' = [cursor EXCEPT ![c] = EventHead]
           /\ attempts' = [attempts EXCEPT ![c] = IF cursor[c] < EventHead THEN 0 ELSE @]
      BY <1>8 DEF NothingLeft, MoveAnswerLost, MoveToHead
  <2>2. c \in Consumers /\ cursor[c] \in 0..Len(log) /\ EventHead = Len(log)
    <3> QED BY <2>0 DEF PassInv, PassFits, Busy, LogType, EventHead
  <2> HIDE DEF c
  <2>3. cursor \in [Consumers -> 0..Len(log)] /\ attempts \in [Consumers -> Nat]
      BY DEF LogType, RetryType
  <2>4. CASE cursor' = [cursor EXCEPT ![c] = EventHead] /\ attempts' = [attempts EXCEPT ![c] = 0]
      BY <2>0, <2>2, <2>3, <2>4 DEF RowsMayRetry
  <2>5. CASE cursor[c] = EventHead /\ cursor' = [cursor EXCEPT ![c] = EventHead]
             /\ attempts' = [attempts EXCEPT ![c] = attempts[c]]
      BY <1>1, <2>0, <2>2, <2>3, <2>5 DEF RowsMayRetry
  <2>6. cursor[c] < EventHead \/ cursor[c] = EventHead BY <2>2, <2>3 DEF LogType
  <2> QED BY <1>1, <2>0, <2>1, <2>2, <2>4, <2>5, <2>6
<1>9. CASE RecordFailure(r)
  <2> DEFINE c == pass[r].current
  <2>1. /\ cursor' = cursor /\ phase[r] = "failed"
        /\ \/ attempts' = attempts /\ blamed' = blamed
           \/ /\ StillFailing(r)
              /\ attempts' = [attempts EXCEPT ![c] = @ + 1]
              /\ blamed' = [blamed EXCEPT ![c] = pass[r].event]
      BY <1>9, Zenon DEF RecordFailure
  <2>2. c \in Consumers BY <2>1 DEF PassInv, PassFits, Busy
  <2>3. StillFailing(r) => Explains(c, pass[r].event, cursor[c])
    <3>1. cursor[c] # None BY <2>2, ConstantsAssumption DEF LogType
    <3> QED BY <3>1 DEF StillFailing, RetryInv
  <2> QED BY <2>1, <2>2, <2>3 DEF RowsMayRetry, RetryType, NotedType
<1> QED BY <1>2, <1>3, <1>4, <1>5, <1>6, <1>7, <1>8, <1>9
        DEF RuntimeStep, PassStep, Failure

LEMMA StepRetries == IInv /\ RetryInv /\ [Next]_vars => RetryInv'
<1> SUFFICES ASSUME IInv, RetryInv, [Next]_vars PROVE RetryInv'
    OBVIOUS
<1>1. LogType /\ RetryType /\ NotedType /\ PassInv /\ Shaped
    BY InvariantShapes DEF IInv, CoreInv, NotedType
<1>0. NotedType' BY <1>1, NotedStep
<1>2. Grows BY <1>1, LogGrows
<1>3. ASSUME UNCHANGED <<cursor, attempts, blamed, phase, pass>> PROVE RetryInv'
  <2>1. RowsMayRetry /\ \A r \in Runtimes : MayNote(r)
      BY <1>3, NoNote DEF RowsMayRetry
  <2> QED BY <1>0, <1>1, <1>2, <2>1, RetryKept
<1>4. CASE UNCHANGED vars BY <1>3, <1>4 DEF vars, database, dispatcher
<1>5. ASSUME NEW c \in Consumers, RetryDue(c) PROVE RetryInv'
    BY <1>3, <1>5 DEF RetryDue, dispatcher
<1>6. ASSUME NEW r \in Publishers, Publish(r) PROVE RetryInv'
    BY <1>3, <1>6 DEF Publish, dispatcher
<1>8. ASSUME NEW r \in Runtimes, WakeArrives(r) PROVE RetryInv'
    BY <1>3, <1>8 DEF WakeArrives, database
<1>7. ASSUME NEW r \in Runtimes, RuntimeStep(r) PROVE RetryInv'
  <2>1. RowsMayRetry BY <1>1, <1>7, RuntimeRows
  <2>2. ASSUME NEW q \in Runtimes PROVE MayNote(q)
    <3>1. CASE q = r BY <1>1, <1>7, <3>1, RuntimeNotes
    <3>2. CASE q # r BY <1>1, <1>7, <3>2, OthersStill, NoNote DEF Still
    <3> QED BY <3>1, <3>2
  <2> QED BY <1>0, <1>1, <1>2, <2>1, <2>2, RetryKept
<1> QED BY <1>4, <1>5, <1>6, <1>7, <1>8 DEF Next

\* Whatever is in retry is held back by the event its failure names, which is still its
\* next one: a failure that lost the race with another dispatcher's commit, or with its own
\* lost one, is not recorded.  Only a failing database leaves a failure that names none.
THEOREM RetriesHaveWork == Spec => []RetryHasWork
<1>1. Init => RetryInv BY DEF Init, RetryInv, NoPass
<1>2. RetryInv => RetryHasWork BY DEF RetryInv, Explains, RetryHasWork
<1> QED BY <1>1, <1>2, Invariant, StepRetries, PTL DEF Spec
=============================================================================

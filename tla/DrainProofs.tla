----------------------------- MODULE DrainProofs -----------------------------
(***************************************************************************)
(* What drain() promises, for any number of consumers, callers, events,    *)
(* handler failures and restarts of one dispatcher whose delivery          *)
(* transactions do not fail outside their handlers: a call returns once    *)
(* what was committed before it is delivered, and passes end with nothing  *)
(* left.  Both rest on one inductive invariant: every call is covered by   *)
(* the running pass or by one that is already asked for.                   *)
(***************************************************************************)
EXTENDS DomainEventsProofs

\* One dispatcher, in storage that fails in no delivery transaction (a lost answer and a
\* lock that times out are what events_lost is about), and a bound that reaches beyond
\* the pass begun before the call.
OneDispatcher ==
    /\ \A r, q \in Runtimes : r = q
    /\ ~StorageFaults
    /\ DrainPasses > 0

\* Consumer c is in retry, or has nothing to handle up to o.
Served(c, o) ==
    attempts[c] > 0 \/ \A e \in (cursor[c] + 1)..o : log[e] \notin definition[c]

\* The running pass brings c to o: it still offers c, left a backlog or served it, and the
\* head it reads (or has yet to read) is not before o.
Covers(r, c, o) ==
    /\ phase[r] # "idle"
    /\ c \notin pass[r].gone
    /\ pass[r].todo[c] # None \/ (phase[r] # "begun" /\ (pass[r].backlog \/ Served(c, o)))
    /\ phase[r] # "begun" => o <= pass[r].head

PassFact(r) ==
    /\ pass[r].count < BatchSize
    /\ phase[r] = "failed" => pass[r].attempted = cursor[pass[r].current]
    /\ mode[r] # "up" => held[r] = NoConsumers

PassFacts == \A r \in Runtimes : PassFact(r)

WaitFacts == \A c \in Consumers : waiting[c] => attempts[c] > 0

\* What a call is owed, its process still holds; a pass that covers it runs, or it came
\* while a pass ran and the next one is asked for.
CallCovered(d, r, c) ==
    /\ held[r][c] # None
    /\ calls[d].owed[c] <= Len(log)
    /\ \/ wakeRequested[r] /\ calls[d].left = CallBound
       \/ Covers(r, c, calls[d].owed[c])

CallsCovered ==
    \A d \in Callers, r \in Runtimes :
        calls[d].at = r =>
            /\ phase[r] # "idle"
            /\ \A c \in Consumers : calls[d].owed[c] # None => CallCovered(d, r, c)

\* A further pass is asked for, or a commit's wake is still to come and will ask for it.
Asked(r) == wakeRequested[r] \/ wakes[r] > 0

\* With every event published here, a pass leaves nothing that no further pass is asked for.
LogCovered ==
    \A r \in Runtimes, c \in Consumers :
        Publishers = {r} /\ phase[r] # "idle" /\ held[r][c] # None =>
            Asked(r) \/ Covers(r, c, Len(log))

DrainInv == PassFacts /\ WaitFacts /\ CallsCovered /\ LogCovered

-----------------------------------------------------------------------------
(* Moving rows and passes.                                                  *)

LEMMA ServedKept ==
    ASSUME LogType, Grows, NEW c \in Consumers, NEW o \in 0..Len(log), Served(c, o),
           definition[c] # None, attempts'[c] = attempts[c], cursor'[c] = cursor[c]
    PROVE  Served(c, o)'
<1>1. cursor[c] \in Nat /\ Len(log) \in Nat BY DEF LogType
<1>2. definition'[c] = definition[c] BY DEF Grows
<1>3. CASE attempts[c] > 0 BY <1>3 DEF Served
<1>4. CASE \A e \in (cursor[c] + 1)..o : log[e] \notin definition[c]
  <2>1. \A e \in (cursor[c] + 1)..o : log'[e] = log[e]
      BY <1>1 DEF Grows
  <2> QED BY <1>2, <1>4, <2>1 DEF Served
<1> QED BY <1>3, <1>4 DEF Served

\* A consumer at or beyond o has nothing to handle up to o.
LEMMA ServedBeyond ==
    ASSUME LogType', NEW c \in Consumers, NEW o \in Nat, o <= cursor'[c]
    PROVE  Served(c, o)'
<1>1. cursor'[c] \in Nat BY DEF LogType
<1> QED BY <1>1 DEF Served

\* Where the row of c and the pass stand still, what covers c goes on covering it.
LEMMA CoversStill ==
    ASSUME LogType, Grows, NEW r \in Runtimes, NEW c \in Consumers, NEW o \in 0..Len(log),
           Covers(r, c, o), definition[c] # None,
           attempts'[c] = attempts[c], cursor'[c] = cursor[c],
           phase'[r] = phase[r], pass'[r] = pass[r]
    PROVE  Covers(r, c, o)'
<1>1. Served(c, o) => Served(c, o)' BY ServedKept
<1> QED BY <1>1 DEF Covers

\* A row that is waiting is in retry, whatever a step does to it.
LEMMA WaitStep ==
    ASSUME LogType, RetryType, PassInv, WaitFacts, [Next]_vars
    PROVE  WaitFacts'
<1>1. ASSUME UNCHANGED <<waiting, attempts>> PROVE WaitFacts' BY <1>1 DEF WaitFacts
<1>2. CASE UNCHANGED vars BY <1>1, <1>2 DEF vars, database
<1>3. ASSUME NEW c \in Consumers, RetryDue(c) PROVE WaitFacts'
    BY <1>3 DEF RetryDue, WaitFacts, RetryType
<1>4. ASSUME NEW r \in Publishers, Publish(r) PROVE WaitFacts' BY <1>1, <1>4 DEF Publish
<1>6. ASSUME NEW r \in Runtimes, WakeArrives(r) PROVE WaitFacts'
    BY <1>1, <1>6 DEF WakeArrives, database
<1>5. ASSUME NEW r \in Runtimes, RuntimeStep(r) PROVE WaitFacts'
  <2>1. CASE \/ Initialize(r) \/ Close(r) \/ Closed(r) \/ Crash(r) \/ TimerFires(r)
             \/ ReadHead(r) \/ ReadRows(r) \/ NextPass(r) \/ PassesEnd(r)
             \/ HandlerFails(r) \/ LookupFails(r) \/ LockTimesOut(r) \/ StorageFails(r)
      BY <1>1, <2>1
         DEF Initialize, Close, Closed, Crash, TimerFires, ReadHead, ReadRows, NextPass,
             PassesEnd, HandlerFails, LookupFails, LockTimesOut, StorageFails, database
  <2>2. ASSUME NEW c \in Consumers,
               \/ Subscribe(r, c) \/ RegistrationFails(r, c) \/ Dispose(r, c)
               \/ DisposerResolves(r, c) \/ Admit(r, c) \/ Registered(r, c)
        PROVE  WaitFacts'
      BY <1>1, <2>2
         DEF Subscribe, RegistrationFails, Dispose, DisposerResolves, Admit, Registered, database
  <2>3. ASSUME NEW d \in Callers, Drain(d, r) PROVE WaitFacts'
      BY <1>1, <2>3 DEF Drain, database
  <2>4. CASE PassQuiet(r)
    <3>1. /\ waiting' = waiting
          /\ \A c \in Consumers : attempts'[c] = attempts[c] \/ ~waiting[c]
        BY <2>4 DEF PassQuiet, Unchanged
    <3> QED BY <3>1 DEF WaitFacts
  <2>5. CASE Deliver(r) \/ AnswerLost(r)
    <3>1. PICK c : /\ attempts' = [attempts EXCEPT ![c] = 0]
                   /\ waiting' = [waiting EXCEPT ![c] = FALSE]
        BY <2>5 DEF Deliver, AnswerLost, CommitDelivery
    <3> QED BY <3>1 DEF WaitFacts, RetryType
  <2>6. CASE NothingLeft(r) \/ MoveAnswerLost(r)
    <3> DEFINE c == pass[r].current
    <3>1. /\ waiting' = waiting
          /\ attempts' = attempts \/ (~waiting[c] /\ \E n : attempts' = [attempts EXCEPT ![c] = n])
        BY <2>6 DEF NothingLeft, MoveAnswerLost, MoveToHead
    <3> QED BY <3>1 DEF WaitFacts, RetryType
  <2>7. CASE RecordFailure(r)
    <3> DEFINE c == pass[r].current
    <3>1. \/ UNCHANGED <<attempts, waiting>>
          \/ /\ attempts' = [attempts EXCEPT ![c] = @ + 1]
             /\ waiting' = [waiting EXCEPT ![c] = TRUE]
        BY <2>7 DEF RecordFailure
    <3> QED BY <3>1 DEF WaitFacts, RetryType
  <2> QED BY <1>5, <2>1, <2>2, <2>3, <2>4, <2>5, <2>6, <2>7 DEF RuntimeStep, PassStep, Failure
<1> QED BY <1>2, <1>3, <1>4, <1>5, <1>6 DEF Next

\* Where the pass stands, its failed delivery still stands on its row.
LEMMA FactStands ==
    ASSUME PassInv, OneDispatcher, NEW r \in Runtimes, PassFact(r),
           phase'[r] = phase[r],
           pass'[r].count = pass[r].count,
           pass'[r].attempted = pass[r].attempted, pass'[r].current = pass[r].current,
           \A c \in Consumers : definition[c] # None => cursor'[c] = cursor[c],
           mode'[r] # "up" => held'[r] = NoConsumers
    PROVE  PassFact(r)'
<1>1. ASSUME phase[r] = "failed" PROVE cursor'[pass[r].current] = cursor[pass[r].current]
    BY <1>1 DEF PassInv, PassFits, Busy
<1> QED BY <1>1 DEF PassFact

\* A pass that is not in a failed delivery has only its count to watch.
LEMMA FactMoves ==
    ASSUME NEW r \in Runtimes, PassFact(r), phase'[r] # "failed",
           pass'[r].count \in {pass[r].count, 0},
           mode' = mode, held'[r] = held[r] \/ mode[r] = "up"
    PROVE  PassFact(r)'
BY ConstantsAssumption DEF PassFact

LEMMA FactStep ==
    ASSUME CoreInv, HeldInv, PassInv, OneDispatcher,
           NEW r \in Runtimes, PassFact(r), RuntimeStep(r)
    PROVE  PassFact(r)'
<1>0. /\ pass[r] \in Passes /\ phase \in [Runtimes -> Phases] /\ pass \in [Runtimes -> Passes]
      /\ SubscriptionType /\ NoPass.count = 0 /\ NoPass.attempted = None
    BY DEF PassInv, HeldInv, NoPass
<1>1. ASSUME UNCHANGED <<cursor, phase, pass>>, mode'[r] # "up" => held'[r] = NoConsumers
      PROVE  PassFact(r)'
    BY <1>1, FactStands
<1>2. CASE Initialize(r) BY <1>0, <1>1, <1>2 DEF Initialize, SubscriptionType, PassFact, database
<1>3. CASE Closed(r) BY <1>0, <1>1, <1>3 DEF Closed, SubscriptionType, PassFact, database
<1>4. CASE Close(r)
  <2>1. /\ phase' = phase /\ cursor' = cursor /\ held'[r] = NoConsumers
        /\ pass'[r].count = pass[r].count /\ pass'[r].attempted = pass[r].attempted
        /\ pass'[r].current = pass[r].current
      BY <1>0, <1>4 DEF Close, Withdraw, Passes, SubscriptionType, database
  <2> QED BY <2>1, FactStands
<1>5. CASE Crash(r)
  <2>1. phase'[r] = "idle" /\ pass'[r] = NoPass /\ held'[r] = NoConsumers
      BY <1>0, <1>5 DEF Crash, SubscriptionType
  <2> QED BY <1>0, <2>1, ConstantsAssumption DEF PassFact
<1>6. ASSUME NEW c \in Consumers,
             Subscribe(r, c) \/ RegistrationFails(r, c) \/ DisposerResolves(r, c)
      PROVE  PassFact(r)'
    BY <1>1, <1>6
       DEF Subscribe, RegistrationFails, DisposerResolves, database, dispatcher, PassFact
<1>7. ASSUME NEW c \in Consumers, Registered(r, c) PROVE PassFact(r)'
  <2>1. /\ UNCHANGED <<phase, pass, mode>>
        /\ held' = held \/ mode[r] = "up"
        /\ \A x \in Consumers : definition[x] # None => cursor'[x] = cursor[x]
      BY <1>7 DEF Registered, CoreInv, LogType
  <2> QED BY <2>1, FactStands DEF PassFact
<1>8. ASSUME NEW c \in Consumers, Dispose(r, c) PROVE PassFact(r)'
  <2>1. /\ phase' = phase /\ cursor' = cursor /\ mode' = mode /\ mode[r] = "up"
        /\ pass'[r].count = pass[r].count /\ pass'[r].attempted = pass[r].attempted
        /\ pass'[r].current = pass[r].current
      BY <1>0, <1>8 DEF Dispose, Withdraw, Passes, database, PassFact, NoConsumers
  <2> QED BY <2>1, FactStands
<1>9. ASSUME BeginPass(r), UNCHANGED <<mode, held>> PROVE PassFact(r)'
  <2>1. phase'[r] # "failed" /\ pass'[r].count = 0 BY <1>0, <1>9 DEF BeginPass, NoPass
  <2> QED BY <1>9, <2>1, FactMoves
<1>10. ASSUME NEW d \in Callers, Drain(d, r) PROVE PassFact(r)'
    BY <1>1, <1>9, <1>10 DEF Drain, subscriptions, database, PassFact
<1>11. CASE TimerFires(r) \/ NextPass(r)
    BY <1>9, <1>11 DEF TimerFires, NextPass, subscriptions
<1>12. CASE PassesEnd(r) \/ StorageFails(r)
  <2>1. phase'[r] = "idle" /\ pass'[r] = NoPass /\ UNCHANGED <<mode, held>>
      BY <1>0, <1>12 DEF PassesEnd, StorageFails, Rest, subscriptions
  <2> QED BY <1>0, <2>1, FactMoves
<1>13. CASE ReadHead(r) \/ ReadRows(r) \/ PassQuiet(r)
  <2>1. pass'[r].count = pass[r].count /\ phase'[r] # "failed" /\ UNCHANGED <<mode, held>>
    <3>1. CASE ReadHead(r) BY <1>0, <3>1 DEF ReadHead, Passes, subscriptions
    <3>2. CASE ReadRows(r)
      <4>1. PICK quiet, seen, todo :
                pass'[r] = [pass[r] EXCEPT !.quiet = quiet, !.seen = seen, !.todo = todo]
          BY <1>0, <3>2 DEF ReadRows
      <4> QED BY <1>0, <3>2, <4>1 DEF ReadRows, Passes, subscriptions
    <3>3. CASE PassQuiet(r)
      <4>1. PICK quiet, seen, todo :
                pass'[r] = [pass[r] EXCEPT !.quiet = quiet, !.seen = seen, !.todo = todo]
          BY <1>0, <3>3 DEF PassQuiet
      <4> QED BY <1>0, <3>3, <4>1 DEF PassQuiet, Passes, subscriptions
    <3> QED BY <1>13, <3>1, <3>2, <3>3
  <2> QED BY <2>1, FactMoves
<1>14. ASSUME NEW c \in Consumers, Admit(r, c) PROVE PassFact(r)'
  <2>1. pass'[r].count \in {pass[r].count, 0} /\ phase'[r] # "failed" /\ UNCHANGED <<mode, held>>
      BY <1>0, <1>14 DEF Admit, Passes, subscriptions
  <2> QED BY <2>1, FactMoves
<1>15. ASSUME NEW c \in Consumers, pass[r].todo[c] # None PROVE Leave(r, c).count = 0
    BY <1>0 DEF Leave, Passes
<1>16. ASSUME Busy(phase[r])
       PROVE  pass[r].current \in Consumers /\ pass[r].todo[pass[r].current] # None
    BY <1>16 DEF PassInv, PassFits
<1>17. CASE NothingLeft(r) \/ RecordFailure(r)
  <2>1. /\ Busy(phase[r]) /\ phase'[r] = "loop" /\ pass'[r] = Leave(r, pass[r].current)
        /\ UNCHANGED <<mode, held>>
      BY <1>0, <1>17 DEF NothingLeft, RecordFailure, Busy, subscriptions
  <2> QED BY <1>15, <1>16, <2>1, FactMoves
<1>18. CASE Deliver(r)
  <2> DEFINE c == pass[r].current
  <2>1. /\ phase[r] = "admitted" /\ phase'[r] = "loop" /\ mode' = mode
        /\ \/ pass[r].count + 1 < BatchSize /\ pass'[r] = [pass[r] EXCEPT !.count = @ + 1]
           \/ \E b : pass'[r] = [Leave(r, c) EXCEPT !.backlog = b]
      BY <1>0, <1>18 DEF Deliver
  <2>2. pass'[r].count < BatchSize
    <3>1. pass[r].count \in Nat BY <1>0 DEF Passes
    <3>2. \A b : [Leave(r, c) EXCEPT !.backlog = b].count = 0 BY <1>0 DEF Leave, Passes
    <3>3. [pass[r] EXCEPT !.count = @ + 1].count = pass[r].count + 1 BY <1>0 DEF Passes
    <3>4. CASE \E b : pass'[r] = [Leave(r, c) EXCEPT !.backlog = b]
      <4>1. pass'[r].count = 0 BY <3>2, <3>4
      <4> QED BY <4>1, ConstantsAssumption
    <3>5. CASE pass[r].count + 1 < BatchSize /\ pass'[r] = [pass[r] EXCEPT !.count = @ + 1]
      <4>1. pass'[r].count = pass[r].count + 1 BY <3>3, <3>5
      <4> QED BY <3>5, <4>1
    <3> QED BY <2>1, <3>4, <3>5
  <2>3. mode[r] # "up" => held'[r] = NoConsumers
    <3>1. held'[r] = held[r] \/ held'[r] = [held[r] EXCEPT ![c] = None]
        BY <1>0, <1>18 DEF Deliver, Detach, SubscriptionType
    <3>2. [NoConsumers EXCEPT ![c] = None] = NoConsumers BY DEF NoConsumers
    <3> QED BY <3>1, <3>2 DEF PassFact
  <2> QED BY <2>1, <2>2, <2>3 DEF PassFact
<1>19. CASE HandlerFails(r)
  <2> DEFINE c == pass[r].current
  <2>1. /\ phase'[r] = "failed" /\ mode' = mode /\ cursor' = cursor
        /\ \E e : pass'[r] = [pass[r] EXCEPT !.attempted = cursor[c], !.event = e]
      BY <1>0, <1>19 DEF HandlerFails, Attempted, database
  <2>2. mode[r] # "up" => held'[r] = NoConsumers
    <3>1. held'[r] = held[r] \/ held'[r] = [held[r] EXCEPT ![c] = None]
        BY <1>0, <1>19 DEF HandlerFails, Detach, SubscriptionType
    <3>2. [NoConsumers EXCEPT ![c] = None] = NoConsumers BY DEF NoConsumers
    <3> QED BY <3>1, <3>2 DEF PassFact
  <2> QED BY <1>0, <2>1, <2>2 DEF PassFact, Passes
<1>20. /\ ~LookupFails(r) /\ ~AnswerLost(r) /\ ~MoveAnswerLost(r) /\ ~LockTimesOut(r)
    BY DEF LookupFails, AnswerLost, MoveAnswerLost, LockTimesOut, OneDispatcher
<1> QED BY <1>2, <1>3, <1>4, <1>5, <1>6, <1>7, <1>8, <1>10, <1>11, <1>12, <1>13, <1>14,
           <1>17, <1>18, <1>19, <1>20
        DEF RuntimeStep, PassStep, Failure

-----------------------------------------------------------------------------
(* Steps that neither begin nor end a pass: what covered a call goes on     *)
(* covering it, and calls lose only what is withdrawn.                      *)

CoversOn(r) ==
    \A c \in Consumers, o \in 0..Len(log) :
        Covers(r, c, o) /\ held[r][c] # None /\ held'[r][c] # None => Covers(r, c, o)'

\* No call at r is owed more, or owed anything for a registration withdrawn.
Narrowed(r) ==
    \A d \in Callers :
        /\ calls'[d].at = calls[d].at
        /\ calls'[d].left = calls[d].left
        /\ \A c \in Consumers :
              calls[d].at = r /\ calls'[d].owed[c] # None =>
                  /\ calls'[d].owed[c] = calls[d].owed[c]
                  /\ held[r][c] # None => held'[r][c] # None

Smooth(r) ==
    /\ phase'[r] = "idle" <=> phase[r] = "idle"
    /\ Narrowed(r)
    /\ phase[r] # "idle" =>
          /\ wakeRequested[r] => wakeRequested'[r]
          /\ \A c \in Consumers : held'[r][c] # None => held[r][c] # None \/ wakeRequested'[r]
          /\ mode[r] = "up" /\ Asked(r) => Asked(r)'
          /\ Publishers = {r} /\ mode[r] = "up" => Len(log') = Len(log) \/ Asked(r)'
          /\ CoversOn(r)

LEMMA HeldUp ==
    ASSUME NEW r \in Runtimes, PassFact(r), NEW c \in Consumers, held[r][c] # None
    PROVE  mode[r] = "up"
BY DEF PassFact, NoConsumers

LEMMA SmoothKeeps ==
    ASSUME CoreInv, CallsType, Grows, OneDispatcher, PassFacts, CallsCovered, LogCovered,
           NEW r \in Runtimes, Smooth(r)
    PROVE  CallsCovered' /\ LogCovered'
<1>0. \A q \in Runtimes : q = r BY DEF OneDispatcher
<1>1. Len(log) \in Nat /\ Len(log') \in Nat /\ Len(log) <= Len(log') BY DEF CoreInv, LogType, Grows
<1>2. ASSUME NEW d \in Callers, calls'[d].at = r PROVE phase'[r] # "idle"
    BY <1>2 DEF Smooth, Narrowed, CallsCovered
<1>3. ASSUME NEW d \in Callers, NEW c \in Consumers, calls'[d].at = r, calls'[d].owed[c] # None
      PROVE  CallCovered(d, r, c)'
  <2>1. /\ calls[d].at = r /\ calls'[d].left = calls[d].left
        /\ calls'[d].owed[c] = calls[d].owed[c]
        /\ held[r][c] # None => held'[r][c] # None
      BY <1>3 DEF Smooth, Narrowed
  <2>2. CallCovered(d, r, c) /\ phase[r] # "idle" BY <1>3, <2>1 DEF CallsCovered
  <2>3. calls[d].owed[c] \in Nat BY <1>3, <2>1 DEF CallsType, Calls
  <2>4. PICK o \in 0..Len(log) : o = calls[d].owed[c]
      BY <1>1, <2>2, <2>3 DEF CallCovered
  <2>5. held'[r][c] # None BY <2>1, <2>2 DEF CallCovered
  <2>6. calls'[d].owed[c] <= Len(log') BY <1>1, <2>1, <2>4
  <2>7. CASE wakeRequested[r] /\ calls[d].left = CallBound
      BY <2>1, <2>2, <2>5, <2>6, <2>7 DEF CallCovered, Smooth, CallBound
  <2>8. CASE Covers(r, c, o)
    <3>1. Covers(r, c, o)' BY <2>2, <2>5, <2>8 DEF Smooth, CoversOn, CallCovered
    <3>2. o = calls'[d].owed[c] BY <2>1, <2>4
    <3>3. Covers(r, c, calls[d].owed[c])' BY <3>1, <3>2 DEF Covers, Served
    <3> QED BY <2>5, <2>6, <3>3 DEF CallCovered
  <2> QED BY <2>2, <2>4, <2>7, <2>8 DEF CallCovered
<1>4. ASSUME NEW c \in Consumers, Publishers = {r}, phase'[r] # "idle", held'[r][c] # None,
             ~Asked(r)'
      PROVE  Covers(r, c, Len(log))'
  <2>1. phase[r] # "idle" /\ held[r][c] # None /\ CoversOn(r)
      BY <1>4 DEF Smooth, Asked
  <2>2. mode[r] = "up" /\ ~Asked(r) BY <1>4, <2>1, HeldUp DEF PassFacts, Smooth
  <2>3. Len(log') = Len(log) BY <1>4, <2>1, <2>2 DEF Smooth
  <2>4. PICK o \in 0..Len(log) : o = Len(log) BY <1>1
  <2>5. Covers(r, c, o) BY <1>4, <2>1, <2>2, <2>4 DEF LogCovered
  <2>6. Covers(r, c, o)' BY <1>4, <2>1, <2>5 DEF CoversOn
  <2> QED BY <2>3, <2>4, <2>6 DEF Covers, Served
<1> QED BY <1>0, <1>2, <1>3, <1>4 DEF CallsCovered, LogCovered

LEMMA HeldDefined ==
    ASSUME HeldInv, NEW r \in Runtimes, NEW c \in Consumers, held[r][c] # None
    PROVE  definition[c] # None
BY DEF HeldInv

LEMMA CoversOnStill ==
    ASSUME CoreInv, HeldInv, Grows, NEW r \in Runtimes,
           phase'[r] = phase[r], pass'[r] = pass[r],
           \A c \in Consumers : definition[c] # None =>
               attempts'[c] = attempts[c] /\ cursor'[c] = cursor[c]
    PROVE  CoversOn(r)
<1> SUFFICES ASSUME NEW c \in Consumers, NEW o \in 0..Len(log), Covers(r, c, o), held[r][c] # None
             PROVE  Covers(r, c, o)'
    BY DEF CoversOn
<1> QED BY HeldDefined, CoversStill DEF CoreInv

LEMMA CallsStand == ASSUME calls' = calls, held' = held, NEW r \in Runtimes PROVE Narrowed(r)
BY DEF Narrowed

\* A step that only wakes the dispatcher, if that.
LEMMA QuietSmooth ==
    ASSUME CoreInv, HeldInv, Grows, NEW r \in Runtimes,
           UNCHANGED <<log, cursor, attempts, held, phase, pass, calls>>,
           phase[r] # "idle" => /\ wakeRequested[r] => wakeRequested'[r]
                                /\ mode[r] = "up" /\ Asked(r) => Asked(r)'
    PROVE  Smooth(r)
<1>1. CoversOn(r) BY CoversOnStill
<1>2. Narrowed(r) BY CallsStand
<1> QED BY <1>1, <1>2 DEF Smooth

\* Calls as a withdrawal of cs leaves them.
LEMMA OwedNarrowed ==
    ASSUME CallsType, NEW r \in Runtimes, NEW cs \in SUBSET Consumers,
           calls' = [d \in Callers |-> [calls[d] EXCEPT !.owed = Owed(d, r, cs)]],
           \A c \in Consumers \ cs : held'[r][c] = held[r][c]
    PROVE  Narrowed(r)
<1> SUFFICES ASSUME NEW d \in Callers
             PROVE  /\ calls'[d].at = calls[d].at
                    /\ calls'[d].left = calls[d].left
                    /\ \A c \in Consumers :
                          calls[d].at = r /\ calls'[d].owed[c] # None =>
                              /\ calls'[d].owed[c] = calls[d].owed[c]
                              /\ held[r][c] # None => held'[r][c] # None
    BY DEF Narrowed
<1>1. calls'[d] = [calls[d] EXCEPT !.owed = Owed(d, r, cs)] OBVIOUS
<1>2. /\ calls'[d].at = calls[d].at
      /\ calls'[d].left = calls[d].left
      /\ calls'[d].owed = Owed(d, r, cs)
    BY <1>1 DEF CallsType, Calls
<1> QED BY <1>2 DEF Owed

LEMMA LifecycleSmooth ==
    ASSUME CoreInv, HeldInv, PassInv, CallsType, Grows, NEW r \in Runtimes, PassFact(r),
           Initialize(r) \/ Close(r) \/ Closed(r)
    PROVE  Smooth(r)
<1>1. CASE Initialize(r) BY <1>1, QuietSmooth DEF Initialize, Asked, database
<1>2. CASE Closed(r) BY <1>2, QuietSmooth DEF Closed, database, Running
<1>3. CASE Close(r)
  <2>1. /\ UNCHANGED <<log, wakeRequested, phase>>
        /\ held'[r] = NoConsumers
        /\ calls' = [d \in Callers |-> [calls[d] EXCEPT !.owed = Owed(d, r, Consumers)]]
      BY <1>3 DEF Close, database, HeldInv, SubscriptionType
  <2>2. Narrowed(r) BY <2>1, OwedNarrowed
  <2>3. CoversOn(r) BY <2>1 DEF CoversOn, NoConsumers
  <2>4. wakes' = wakes BY <1>3 DEF Close
  <2> QED BY <2>1, <2>2, <2>3, <2>4 DEF Smooth, NoConsumers, Asked
<1> QED BY <1>1, <1>2, <1>3

LEMMA SubscriptionSmooth ==
    ASSUME CoreInv, HeldInv, PassInv, CallsType, Grows, NEW r \in Runtimes, PassFact(r),
           NEW c \in Consumers,
           \/ Subscribe(r, c) \/ RegistrationFails(r, c) \/ DisposerResolves(r, c)
           \/ Registered(r, c) \/ Dispose(r, c)
    PROVE  Smooth(r)
<1>1. CASE Subscribe(r, c) \/ RegistrationFails(r, c) \/ DisposerResolves(r, c)
    BY <1>1, QuietSmooth
       DEF Subscribe, RegistrationFails, DisposerResolves, Asked, database, dispatcher
<1>2. CASE Registered(r, c)
  <2>1. /\ UNCHANGED <<log, attempts, phase, pass, calls, wakes>>
        /\ \A x \in Consumers : definition[x] # None => cursor'[x] = cursor[x]
      BY <1>2 DEF Registered, CoreInv, LogType
  <2>2. CoversOn(r) BY <2>1, CoversOnStill
  <2>3. \/ held' = held /\ NoWake
        \/ /\ mode[r] = "up" /\ Wake(r)
           /\ \E types : types # None /\ held' = [held EXCEPT ![r][c] = types]
      BY <1>2 DEF Registered
  <2>4. CASE held' = held /\ NoWake
    <3>1. Narrowed(r) BY <2>1, <2>4, CallsStand
    <3> QED BY <2>1, <2>2, <2>4, <3>1 DEF Smooth, NoWake, Asked
  <2>5. CASE \E types : types # None /\ held' = [held EXCEPT ![r][c] = types]
    <3>1. \A x \in Consumers : held[r][x] # None => held'[r][x] # None
        BY <2>5 DEF HeldInv, SubscriptionType
    <3>2. Narrowed(r) BY <2>1, <3>1 DEF Narrowed
    <3>3. CASE mode[r] = "up" /\ Wake(r)
      <4>1. phase[r] # "idle" => wakeRequested'[r] BY <3>3 DEF Wake, Running, PassInv
      <4> QED BY <2>1, <2>2, <3>2, <4>1 DEF Smooth, Asked
    <3> QED BY <2>3, <2>4, <3>3
  <2> QED BY <2>3, <2>4, <2>5
<1>3. CASE Dispose(r, c)
  <2>1. /\ UNCHANGED <<log, cursor, attempts, definition, wakeRequested, wakes, phase>>
        /\ held'[r] = [held[r] EXCEPT ![c] = None]
        /\ calls' = [d \in Callers |-> [calls[d] EXCEPT !.owed = Owed(d, r, {c})]]
      BY <1>3 DEF Dispose, database, HeldInv, SubscriptionType
  <2>2. held'[r][c] = None /\ \A x \in Consumers \ {c} : held'[r][x] = held[r][x]
      BY <2>1 DEF HeldInv, SubscriptionType
  <2>3. Narrowed(r)
    <3>1. PICK cs \in SUBSET Consumers : cs = {c} OBVIOUS
    <3> QED BY <2>1, <2>2, <3>1, OwedNarrowed
  <2>4. /\ pass'[r].todo = pass[r].todo /\ pass'[r].backlog = pass[r].backlog
        /\ pass'[r].head = pass[r].head
        /\ \A x \in Consumers \ {c} : x \in pass'[r].gone => x \in pass[r].gone
    <3>1. pass[r] \in Passes BY DEF PassInv
    <3>2. pass'[r] = [pass[r] EXCEPT !.gone = @ \cup {x \in {c} : pass[r].todo[x] # None}]
        BY <1>3 DEF Dispose, Withdraw, PassInv
    <3> QED BY <3>1, <3>2 DEF Passes
  <2>5. CoversOn(r)
    <3> SUFFICES ASSUME NEW x \in Consumers, NEW o \in 0..Len(log), Covers(r, x, o),
                        x # c, definition[x] # None
                 PROVE  Covers(r, x, o)'
        BY <2>2, HeldDefined DEF CoversOn
    <3>1. Served(x, o) => Served(x, o)' BY <2>1, ServedKept DEF CoreInv
    <3> QED BY <2>1, <2>4, <3>1 DEF Covers
  <2> QED BY <2>1, <2>2, <2>3, <2>5 DEF Smooth, Asked
<1> QED BY <1>1, <1>2, <1>3

LEMMA OutsideSmooth ==
    ASSUME CoreInv, HeldInv, PassInv, NotedType, CallsType, Grows, NEW r \in Runtimes,
           \/ \E q \in Publishers : Publish(q) /\ q \in {r, None}
           \/ WakeArrives(r)
           \/ \E c \in Consumers : RetryDue(c)
    PROVE  Smooth(r)
<1>1. CASE \E c \in Consumers : RetryDue(c)
    BY <1>1, QuietSmooth DEF RetryDue, subscriptions, dispatcher, Asked
<1>2. CASE WakeArrives(r)
  <2>1. /\ UNCHANGED <<log, cursor, attempts, held, phase, pass, calls>>
        /\ wakeRequested' = [wakeRequested EXCEPT ![r] = @ \/ (mode[r] = "up" /\ Running(r))]
      BY <1>2 DEF WakeArrives, Wake, database
  <2>2. phase[r] # "idle" => /\ wakeRequested[r] => wakeRequested'[r]
                             /\ mode[r] = "up" => wakeRequested'[r]
      BY <2>1 DEF PassInv, Running
  <2> QED BY <2>1, <2>2, QuietSmooth DEF Asked
<1>3. ASSUME NEW q \in Publishers, Publish(q), q \in {r, None} PROVE Smooth(r)
  <2>1. /\ UNCHANGED <<cursor, attempts, held, phase, pass, calls, mode, wakeRequested>>
        /\ wakes' = IF q = None THEN wakes ELSE [wakes EXCEPT ![r] = @ + 1]
      BY <1>3, ConstantsAssumption DEF Publish, dispatcher
  <2>2. CoversOn(r) BY <2>1, CoversOnStill
  <2>3. Narrowed(r) BY <2>1, CallsStand
  <2>4. wakes[r] \in Nat /\ wakes \in [Runtimes -> Nat] BY DEF NotedType
  <2>5. wakes[r] > 0 => wakes'[r] > 0 BY <2>1, <2>4
  <2>6. Publishers = {r} => wakes'[r] > 0
    <3>1. Publishers = {r} => q # None BY ConstantsAssumption
    <3> QED BY <2>1, <2>4, <3>1
  <2> QED BY <2>1, <2>2, <2>3, <2>5, <2>6 DEF Smooth, Asked
<1> QED BY <1>1, <1>2, <1>3

\* A step of the pass that leaves the row of every consumer but the current one alone.
LEMMA ReadSmooth ==
    ASSUME CoreInv, CoreInv', HeldInv, PassInv, WaitFacts, CallsType, Grows, NEW r \in Runtimes,
           ReadHead(r) \/ ReadRows(r) \/ PassQuiet(r)
    PROVE  Smooth(r)
<1>0. pass[r] \in Passes /\ phase \in [Runtimes -> Phases] /\ pass \in [Runtimes -> Passes]
    BY DEF PassInv
<1>1. /\ UNCHANGED <<log, definition, held, wakeRequested, wakes, calls>>
      /\ phase[r] # "idle" /\ phase'[r] # "idle" /\ phase'[r] # "begun"
    BY <1>0 DEF ReadHead, ReadRows, PassQuiet, database, subscriptions
<1>2. CoversOn(r)
  <2> SUFFICES ASSUME NEW c \in Consumers, NEW o \in 0..Len(log), Covers(r, c, o),
                      definition[c] # None
               PROVE  Covers(r, c, o)'
      BY HeldDefined DEF CoversOn
  <2>0. cursor[c] \in Nat /\ Len(log) \in Nat /\ attempts' = attempts' BY DEF CoreInv, LogType
  <2>1. CASE ReadHead(r)
    <3>1. /\ phase[r] = "begun" /\ pass'[r] = [pass[r] EXCEPT !.head = Len(log)]
        BY <1>0, <2>1 DEF ReadHead, EventHead
    <3>2. pass'[r].todo = pass[r].todo /\ pass'[r].gone = pass[r].gone /\ pass'[r].head = Len(log)
        BY <1>0, <3>1 DEF Passes
    <3> QED BY <1>1, <2>0, <3>1, <3>2 DEF Covers
  <2>2. CASE ReadRows(r)
    <3>1. PICK skipped \in SUBSET {x \in Consumers : waiting[x]} :
              pass' = [pass EXCEPT ![r] = [pass[r] EXCEPT
                  !.quiet = QuietConsumers(r),
                  !.seen = [x \in Consumers |-> IF x \in QuietConsumers(r) THEN cursor[x] ELSE 0],
                  !.todo = [x \in Consumers |->
                      IF x \in {y \in Consumers : cursor[y] < pass[r].head} \ skipped
                      THEN pass[r].todo[x] ELSE None]]]
        BY <2>2, Zenon DEF ReadRows
    <3>2. /\ pass'[r].gone = pass[r].gone /\ pass'[r].head = pass[r].head
          /\ pass'[r].backlog = pass[r].backlog
          /\ pass'[r].todo[c] = IF cursor[c] < pass[r].head /\ c \notin skipped
                                THEN pass[r].todo[c] ELSE None
        BY <1>0, <3>1 DEF Passes
    <3>3. cursor' = cursor /\ attempts' = attempts /\ phase[r] = "read"
        BY <2>2 DEF ReadRows, database
    <3>4. o <= pass[r].head /\ pass[r].head \in Nat BY <1>0, <3>3 DEF Covers, Passes
    <3>5. Served(c, o) => Served(c, o)' BY <3>3, ServedKept DEF CoreInv
    <3>6. CASE ~(cursor[c] < pass[r].head)
      <4>1. Served(c, o)' BY <2>0, <3>3, <3>4, <3>6, ServedBeyond DEF CoreInv
      <4> QED BY <1>1, <3>2, <3>4, <4>1 DEF Covers
    <3>7. CASE c \in skipped
      <4>1. Served(c, o)' BY <3>3, <3>7 DEF Served, WaitFacts
      <4> QED BY <1>1, <3>2, <3>4, <4>1 DEF Covers
    <3>8. CASE cursor[c] < pass[r].head /\ c \notin skipped
      BY <1>1, <3>2, <3>3, <3>4, <3>5, <3>8 DEF Covers
    <3> QED BY <3>6, <3>7, <3>8
  <2>3. CASE PassQuiet(r)
    <3>1. PICK passed :
              /\ cursor' = [x \in Consumers |-> IF x \in passed THEN pass[r].head ELSE cursor[x]]
              /\ attempts' = [x \in Consumers |-> IF x \in passed THEN 0 ELSE attempts[x]]
              /\ pass' = [pass EXCEPT ![r] = [pass[r] EXCEPT
                  !.quiet = {},
                  !.seen = [x \in Consumers |-> 0],
                  !.todo = [x \in Consumers |-> IF x \in passed THEN None ELSE pass[r].todo[x]]]]
      <4>1. PICK passed : passed = {x \in pass[r].quiet : Unchanged(r, x)} OBVIOUS
      <4> QED BY <2>3, <4>1, Zenon DEF PassQuiet
    <3>2. /\ pass'[r].gone = pass[r].gone /\ pass'[r].head = pass[r].head
          /\ pass'[r].backlog = pass[r].backlog
          /\ pass'[r].todo[c] = IF c \in passed THEN None ELSE pass[r].todo[c]
        BY <1>0, <3>1 DEF Passes
    <3>3. phase[r] = "quiet" BY <2>3 DEF PassQuiet
    <3>4. o <= pass[r].head BY <3>3 DEF Covers
    <3>5. CASE c \in passed
      <4>1. Served(c, o)' BY <3>1, <3>4, <3>5, ServedBeyond DEF CoreInv
      <4> QED BY <1>1, <3>2, <3>4, <4>1 DEF Covers
    <3>6. CASE c \notin passed
      <4>1. Served(c, o) => Served(c, o)' BY <3>1, <3>6, ServedKept DEF CoreInv
      <4> QED BY <1>1, <3>2, <3>3, <3>4, <3>6, <4>1 DEF Covers
    <3> QED BY <3>5, <3>6
  <2> QED BY <2>1, <2>2, <2>3
<1>3. Narrowed(r) BY <1>1, CallsStand
<1> QED BY <1>1, <1>2, <1>3 DEF Smooth, Asked

LEMMA LeaveKeeps ==
    ASSUME PassInv, NEW r \in Runtimes, NEW c \in Consumers, NEW b \in BOOLEAN
    PROVE  /\ Leave(r, c).head = pass[r].head
           /\ Leave(r, c).backlog = pass[r].backlog
           /\ \A x \in Consumers \ {c} : /\ Leave(r, c).todo[x] = pass[r].todo[x]
                                         /\ x \in Leave(r, c).gone => x \in pass[r].gone
           /\ c \notin Leave(r, c).gone
           /\ [Leave(r, c) EXCEPT !.backlog = b].backlog = b
           /\ [Leave(r, c) EXCEPT !.backlog = b].head = pass[r].head
           /\ [Leave(r, c) EXCEPT !.backlog = b].todo = Leave(r, c).todo
           /\ [Leave(r, c) EXCEPT !.backlog = b].gone = Leave(r, c).gone
<1>1. pass[r] \in Passes BY DEF PassInv
<1> QED BY <1>1 DEF Leave, Passes

LEMMA CurrentConsumer ==
    ASSUME PassInv, NEW r \in Runtimes, Busy(phase[r])
    PROVE  pass[r].current \in Consumers /\ pass[r].todo[pass[r].current] # None
BY DEF PassInv, PassFits

\* The turn of the current consumer c ends: served to the head, or in retry.
LEMMA TurnCovers ==
    ASSUME CoreInv, HeldInv, PassInv, Grows, NEW r \in Runtimes, NEW c \in Consumers,
           phase[r] # "begun", phase'[r] = "loop", NEW b \in BOOLEAN,
           pass[r].backlog => b,
           pass'[r] \in {Leave(r, c), [Leave(r, c) EXCEPT !.backlog = b]},
           pass'[r].backlog = b,
           \A x \in Consumers \ {c} : attempts'[x] = attempts[x] /\ cursor'[x] = cursor[x],
           held'[r][c] # None /\ c \notin pass[r].gone =>
               b \/ \A o \in 0..Len(log) : o <= pass[r].head => Served(c, o)'
    PROVE  CoversOn(r)
<1> SUFFICES ASSUME NEW x \in Consumers, NEW o \in 0..Len(log), Covers(r, x, o),
                    held[r][x] # None, held'[r][x] # None
             PROVE  Covers(r, x, o)'
    BY DEF CoversOn
<1>1. /\ pass'[r].head = pass[r].head
      /\ pass'[r].gone = Leave(r, c).gone
      /\ pass'[r].todo = Leave(r, c).todo
  <2>1. CASE pass'[r] = Leave(r, c) BY <2>1, LeaveKeeps
  <2>2. CASE pass'[r] = [Leave(r, c) EXCEPT !.backlog = b] BY <2>2, LeaveKeeps
  <2> QED BY <2>1, <2>2
<1>2. o <= pass[r].head BY DEF Covers
<1>3. CASE x = c
  <2>1. b \/ Served(c, o)' BY <1>2, <1>3 DEF Covers
  <2>2. c \notin pass'[r].gone BY <1>1, LeaveKeeps
  <2> QED BY <1>1, <1>2, <1>3, <2>1, <2>2 DEF Covers
<1>4. CASE x # c
  <2>1. Served(x, o) => Served(x, o)' BY <1>4, HeldDefined, ServedKept DEF CoreInv
  <2>2. x \notin pass'[r].gone /\ pass'[r].todo[x] = pass[r].todo[x]
      BY <1>1, <1>4, LeaveKeeps DEF Covers
  <2> QED BY <1>1, <1>2, <2>1, <2>2 DEF Covers
<1> QED BY <1>3, <1>4

LEMMA DetachNarrows ==
    ASSUME CallsType, HeldInv, NEW r \in Runtimes, NEW c \in Consumers, NEW detached \in BOOLEAN,
           Detach(r, c, detached)
    PROVE  /\ Narrowed(r)
           /\ \A x \in Consumers : held'[r][x] # None => held[r][x] # None
           /\ detached => held'[r][c] = None
<1>1. CASE ~detached
  <2>1. held' = held /\ calls' = calls BY <1>1 DEF Detach
  <2> QED BY <1>1, <2>1, CallsStand
<1>2. CASE detached
  <2>1. /\ held' = [held EXCEPT ![r][c] = None]
        /\ calls' = [d \in Callers |-> [calls[d] EXCEPT !.owed = Owed(d, r, {c})]]
      BY <1>2 DEF Detach
  <2>2. held'[r][c] = None /\ \A x \in Consumers \ {c} : held'[r][x] = held[r][x]
      BY <2>1 DEF HeldInv, SubscriptionType
  <2>3. PICK cs \in SUBSET Consumers : cs = {c} OBVIOUS
  <2>4. Narrowed(r) BY <2>1, <2>2, <2>3, OwedNarrowed
  <2> QED BY <2>2, <2>4
<1> QED BY <1>1, <1>2

LEMMA DeliverSmooth ==
    ASSUME CoreInv, CoreInv', HeldInv, PassInv, RetryType, CallsType, Grows, NEW r \in Runtimes,
           PassFact(r), Deliver(r)
    PROVE  Smooth(r)
<1>0. /\ pass[r] \in Passes /\ phase \in [Runtimes -> Phases] /\ pass \in [Runtimes -> Passes]
      /\ wakeRequested \in [Runtimes -> BOOLEAN]
    BY DEF PassInv
<1>1. phase[r] = "admitted" /\ phase'[r] = "loop" /\ mode' = mode BY <1>0 DEF Deliver
<1>2. PICK c \in Consumers : c = pass[r].current /\ pass[r].todo[c] # None
    BY <1>1, CurrentConsumer DEF Busy
<1>3. PICK e \in 1..EventHead, detached \in BOOLEAN :
          /\ CommitDelivery(c, e)
          /\ Detach(r, c, detached)
          /\ pass' = [pass EXCEPT ![r] =
                 IF pass[r].count + 1 < BatchSize /\ ~detached /\ c \notin pass[r].gone
                 THEN [pass[r] EXCEPT !.count = @ + 1]
                 ELSE [Leave(r, c) EXCEPT !.backlog =
                          pass[r].backlog
                            \/ (pass[r].count = BatchSize - 1 /\ e < pass[r].head)]]
    BY <1>2, Zenon DEF Deliver
<1>4. /\ cursor'[c] = e /\ e \in Nat
      /\ \A x \in Consumers \ {c} : attempts'[x] = attempts[x] /\ cursor'[x] = cursor[x]
    BY <1>2, <1>3 DEF CommitDelivery, CoreInv, LogType, RetryType, EventHead
<1>5. /\ Narrowed(r)
      /\ \A x \in Consumers : held'[r][x] # None => held[r][x] # None
      /\ detached => held'[r][c] = None
    BY <1>2, <1>3, DetachNarrows
<1>6. /\ wakeRequested[r] => wakeRequested'[r]
      /\ mode[r] = "up" => Len(log') = Len(log) \/ wakeRequested'[r]
  <2>1. (log' = log /\ NoWake) \/ Wake(r) BY DEF Deliver
  <2>2. CASE log' = log /\ NoWake BY <2>2 DEF NoWake
  <2>3. CASE Wake(r) BY <1>0, <1>1, <2>3 DEF Wake, Running
  <2> QED BY <2>1, <2>2, <2>3
<1>7. CoversOn(r)
  <2> DEFINE b == pass[r].backlog \/ (pass[r].count = BatchSize - 1 /\ e < pass[r].head)
  <2>1. CASE pass[r].count + 1 < BatchSize /\ ~detached /\ c \notin pass[r].gone
    <3>1. pass'[r] = [pass[r] EXCEPT !.count = @ + 1] BY <1>0, <1>3, <2>1
    <3>2. /\ pass'[r].todo = pass[r].todo /\ pass'[r].gone = pass[r].gone
          /\ pass'[r].head = pass[r].head /\ pass'[r].backlog = pass[r].backlog
        BY <1>0, <3>1 DEF Passes
    <3> SUFFICES ASSUME NEW x \in Consumers, NEW o \in 0..Len(log), Covers(r, x, o),
                        definition[x] # None
                 PROVE  Covers(r, x, o)'
        BY HeldDefined DEF CoversOn
    <3>3. CASE x = c BY <1>1, <1>2, <3>2, <3>3 DEF Covers
    <3>4. CASE x # c
      <4>1. Served(x, o) => Served(x, o)' BY <1>4, <3>4, ServedKept DEF CoreInv
      <4> QED BY <1>1, <3>2, <4>1 DEF Covers
    <3> QED BY <3>3, <3>4
  <2>2. CASE ~(pass[r].count + 1 < BatchSize /\ ~detached /\ c \notin pass[r].gone)
    <3>1. pass'[r] = [Leave(r, c) EXCEPT !.backlog = b] BY <1>0, <1>3, <2>2
    <3>2. b \in BOOLEAN /\ (pass[r].backlog => b) BY <1>0 DEF Passes
    <3>3. ASSUME held'[r][c] # None, c \notin pass[r].gone, ~b,
                 NEW o \in 0..Len(log), o <= pass[r].head
          PROVE  Served(c, o)'
      <4>1. pass[r].count = BatchSize - 1
          BY <1>0, <1>5, <2>2, <3>3, ConstantsAssumption DEF PassFact, Passes
      <4>2. ~(e < pass[r].head) BY <3>3, <4>1
      <4>3. o \in Nat /\ pass[r].head \in Nat BY <1>0 DEF Passes, CoreInv, LogType
      <4>4. o <= cursor'[c] BY <1>4, <3>3, <4>2, <4>3
      <4> QED BY <1>2, <4>3, <4>4, ServedBeyond DEF CoreInv
    <3> HIDE DEF b
    <3>4. pass'[r].backlog = b BY <1>2, <3>1, <3>2, LeaveKeeps
    <3> QED BY <1>1, <1>2, <1>4, <3>1, <3>2, <3>3, <3>4, TurnCovers
  <2> QED BY <2>1, <2>2
<1>8. wakes' = wakes BY DEF Deliver
<1> QED BY <1>1, <1>5, <1>6, <1>7, <1>8 DEF Smooth, Asked

LEMMA TurnSmooth ==
    ASSUME CoreInv, CoreInv', HeldInv, PassInv, RetryType, WaitFacts, CallsType, Grows,
           NEW r \in Runtimes, PassFact(r),
           \/ \E c \in Consumers : Admit(r, c)
           \/ NothingLeft(r) \/ RecordFailure(r) \/ HandlerFails(r)
    PROVE  Smooth(r)
<1>0. /\ pass[r] \in Passes /\ phase \in [Runtimes -> Phases] /\ pass \in [Runtimes -> Passes]
    BY DEF PassInv
<1>1. ASSUME NEW c \in Consumers, Admit(r, c) PROVE Smooth(r)
  <2>1. /\ UNCHANGED <<log, definition, cursor, attempts, held, wakeRequested, wakes, calls>>
        /\ phase[r] = "loop" /\ phase'[r] = "admitted"
      BY <1>0, <1>1 DEF Admit, database, subscriptions
  <2>2. /\ pass'[r].todo = pass[r].todo /\ pass'[r].gone = pass[r].gone
        /\ pass'[r].head = pass[r].head /\ pass'[r].backlog = pass[r].backlog
      BY <1>0, <1>1 DEF Admit, Passes
  <2>3. CoversOn(r)
    <3> SUFFICES ASSUME NEW x \in Consumers, NEW o \in 0..Len(log), Covers(r, x, o),
                        definition[x] # None
                 PROVE  Covers(r, x, o)'
        BY HeldDefined DEF CoversOn
    <3>1. Served(x, o) => Served(x, o)' BY <2>1, ServedKept DEF CoreInv
    <3> QED BY <2>1, <2>2, <3>1 DEF Covers
  <2>4. Narrowed(r) BY <2>1, CallsStand
  <2> QED BY <2>1, <2>3, <2>4 DEF Smooth, Asked
<1>2. CASE HandlerFails(r)
  <2>1. /\ UNCHANGED <<log, definition, cursor, attempts, wakeRequested, wakes>>
        /\ phase[r] = "admitted" /\ phase'[r] = "failed"
      BY <1>0, <1>2 DEF HandlerFails, Attempted, database
  <2>2. /\ pass'[r].todo = pass[r].todo /\ pass'[r].gone = pass[r].gone
        /\ pass'[r].head = pass[r].head /\ pass'[r].backlog = pass[r].backlog
    <3>1. PICK e : pass'[r] = [pass[r] EXCEPT !.attempted = cursor[pass[r].current], !.event = e]
        BY <1>0, <1>2 DEF HandlerFails, Attempted
    <3> QED BY <1>0, <3>1 DEF Passes
  <2>3. CoversOn(r)
    <3> SUFFICES ASSUME NEW x \in Consumers, NEW o \in 0..Len(log), Covers(r, x, o),
                        definition[x] # None
                 PROVE  Covers(r, x, o)'
        BY HeldDefined DEF CoversOn
    <3>1. Served(x, o) => Served(x, o)' BY <2>1, ServedKept DEF CoreInv
    <3> QED BY <2>1, <2>2, <3>1 DEF Covers
  <2>4. PICK c \in Consumers, detached \in BOOLEAN : Detach(r, c, detached)
      BY <1>2, <2>1, CurrentConsumer DEF HandlerFails, Busy
  <2>5. Narrowed(r) /\ \A x \in Consumers : held'[r][x] # None => held[r][x] # None
      BY <2>4, DetachNarrows
  <2> QED BY <2>1, <2>3, <2>5 DEF Smooth, Asked
<1>3. CASE NothingLeft(r) \/ RecordFailure(r)
  <2>1. /\ UNCHANGED <<log, definition, held, wakeRequested, wakes, calls>>
        /\ Busy(phase[r]) /\ phase'[r] = "loop"
      BY <1>0, <1>3 DEF NothingLeft, RecordFailure, database, subscriptions, Busy
  <2>2. PICK c \in Consumers : c = pass[r].current BY <2>1, CurrentConsumer
  <2>3. pass'[r] = Leave(r, c) BY <1>0, <1>3, <2>2 DEF NothingLeft, RecordFailure
  <2>4. PICK b \in BOOLEAN : b = pass[r].backlog BY <1>0 DEF Passes
  <2>5. pass'[r].backlog = b BY <2>3, <2>4, LeaveKeeps
  <2>6. ASSUME NEW o \in 0..Len(log) PROVE Served(c, o)'
    <3>1. CASE RecordFailure(r)
      <4>1. phase[r] = "failed" /\ StillFailing(r) BY <3>1, <2>2 DEF RecordFailure, PassFact, StillFailing
      <4>2. attempts'[c] = attempts[c] + 1 BY <2>2, <3>1, <4>1 DEF RecordFailure, RetryType
      <4> QED BY <4>2 DEF Served, RetryType
    <3>2. CASE NothingLeft(r) /\ waiting[c] /\ attempts' = attempts
      BY <3>2 DEF WaitFacts, Served
    <3>3. CASE NothingLeft(r) /\ MoveToHead(c, pass[r].todo[c])
      <4>1. cursor'[c] = Len(log) /\ o \in Nat /\ o <= Len(log)
          BY <3>3 DEF MoveToHead, CoreInv, LogType, EventHead
      <4> QED BY <4>1, ServedBeyond DEF CoreInv
    <3> QED BY <1>3, <2>2, <3>1, <3>2, <3>3 DEF NothingLeft
  <2>7. \A x \in Consumers \ {c} : attempts'[x] = attempts[x] /\ cursor'[x] = cursor[x]
      BY <1>3, <2>2 DEF NothingLeft, MoveToHead, RecordFailure, CoreInv, LogType, RetryType
  <2>8. CoversOn(r) BY <2>1, <2>3, <2>4, <2>5, <2>6, <2>7, TurnCovers DEF Busy
  <2>9. Narrowed(r) BY <2>1, CallsStand
  <2> QED BY <2>1, <2>8, <2>9 DEF Smooth, Asked, Busy
<1> QED BY <1>1, <1>2, <1>3

-----------------------------------------------------------------------------
(* Steps that begin a pass or end the passes.                               *)

\* A pass that begins covers every registration there is.
LEMMA BegunCovers ==
    ASSUME PassInv, NEW r \in Runtimes, BeginPass(r), UNCHANGED held,
           NEW c \in Consumers, held[r][c] # None, NEW o
    PROVE  Covers(r, c, o)' /\ phase'[r] = "begun"
<1>1. held[r] # NoConsumers BY DEF NoConsumers
<1>2. phase'[r] = "begun" /\ pass'[r] = [NoPass EXCEPT !.todo = held[r]]
    BY <1>1 DEF BeginPass, PassInv
<1>3. pass'[r].todo = held[r] /\ pass'[r].gone = {} BY <1>2 DEF NoPass
<1> QED BY <1>2, <1>3 DEF Covers

LEMMA BegunRuns ==
    ASSUME PassInv, NEW r \in Runtimes, BeginPass(r) PROVE phase'[r] # "idle"
BY DEF BeginPass, PassInv

\* The pass is done with every registration it covers.
LEMMA DoneServes ==
    ASSUME NEW r \in Runtimes, PassDone(r), ~pass[r].backlog,
           NEW c \in Consumers, NEW o, Covers(r, c, o)
    PROVE  Served(c, o)
BY DEF PassDone, Covers

LEMMA BeginKeeps ==
    ASSUME CoreInv, CallsType, PassInv, OneDispatcher, CallsCovered, NEW r \in Runtimes,
           BeginPass(r), UNCHANGED <<held, log>>,
           \A d \in Callers : calls'[d].at = r =>
               \A c \in Consumers : calls'[d].owed[c] # None =>
                   held[r][c] # None /\ calls'[d].owed[c] <= Len(log)
    PROVE  CallsCovered' /\ LogCovered'
<1>0. \A q \in Runtimes : q = r BY DEF OneDispatcher
<1>1. phase'[r] # "idle" BY BegunRuns
<1>2. ASSUME NEW d \in Callers, NEW c \in Consumers, calls'[d].at = r, calls'[d].owed[c] # None
      PROVE  CallCovered(d, r, c)'
  <2>1. held[r][c] # None /\ calls'[d].owed[c] <= Len(log) BY <1>2
  <2>2. PICK o : o = calls'[d].owed[c] OBVIOUS
  <2>3. Covers(r, c, o)' BY <2>1, BegunCovers
  <2>4. Covers(r, c, calls[d].owed[c])' BY <2>2, <2>3 DEF Covers, Served
  <2> QED BY <2>1, <2>4 DEF CallCovered
<1>3. ASSUME NEW c \in Consumers, held'[r][c] # None PROVE Covers(r, c, Len(log))'
  <2>1. PICK o : o = Len(log') OBVIOUS
  <2>2. Covers(r, c, o)' BY <1>3, BegunCovers
  <2> QED BY <2>1, <2>2 DEF Covers, Served
<1> QED BY <1>0, <1>1, <1>2, <1>3 DEF CallsCovered, LogCovered

LEMMA DrainKeeps ==
    ASSUME CoreInv, HeldInv, CallsType, PassInv, Grows, OneDispatcher, CallsCovered,
           NEW r \in Runtimes, NEW d \in Callers, Drain(d, r)
    PROVE  CallsCovered' /\ LogCovered'
<1>0. \A q \in Runtimes : q = r BY DEF OneDispatcher
<1>1. /\ UNCHANGED <<log, definition, cursor, attempts, held>>
      /\ \A x \in Callers \ {d} : calls'[x] = calls[x]
      /\ calls'[d].left = CallBound
      /\ \A c \in Consumers :
            calls'[d].owed[c] = IF held[r][c] = None THEN None ELSE Len(log)
  <2>1. calls' = [calls EXCEPT ![d] =
            [at |-> r, left |-> CallBound,
             owed |-> [c \in Consumers |-> IF held[r][c] = None THEN None ELSE EventHead]]]
      BY DEF Drain
  <2> QED BY <2>1 DEF Drain, database, subscriptions, CallsType, EventHead
<1>2. Len(log) <= Len(log) BY DEF CoreInv, LogType
<1>3. ASSUME NEW x \in Callers, calls'[x].at = r, NEW c \in Consumers, calls'[x].owed[c] # None
      PROVE  held[r][c] # None /\ calls'[x].owed[c] <= Len(log)
  <2>1. CASE x = d BY <1>1, <1>2, <1>3, <2>1
  <2>2. CASE x # d BY <1>1, <1>3, <2>2 DEF CallsCovered, CallCovered
  <2> QED BY <2>1, <2>2
<1>4. CASE ~Running(r)
  <2>1. BeginPass(r) BY <1>4 DEF Drain
  <2> QED BY <1>1, <1>3, <2>1, BeginKeeps
<1>5. CASE Running(r)
  <2>1. wakeRequested'[r] = TRUE /\ UNCHANGED <<phase, pass>>
      BY <1>5 DEF Drain, PassInv
  <2>2. ASSUME NEW x \in Callers, calls'[x].at = r, NEW c \in Consumers, calls'[x].owed[c] # None
        PROVE  CallCovered(x, r, c)'
    <3>1. CASE x = d BY <1>1, <1>3, <2>1, <2>2, <3>1 DEF CallCovered, CallBound
    <3>2. CASE x # d
      <4>1. calls'[x] = calls[x] /\ CallCovered(x, r, c)
          BY <1>1, <2>2, <3>2 DEF CallsCovered
      <4>2. CASE calls[x].left = CallBound
          BY <1>1, <1>3, <2>1, <2>2, <4>1, <4>2 DEF CallCovered, CallBound
      <4>3. CASE Covers(r, c, calls[x].owed[c])
        <5>1. Covers(r, c, calls[x].owed[c])' BY <1>1, <2>1, <4>1, <4>3 DEF Covers, Served
        <5> QED BY <1>1, <1>3, <2>2, <5>1 DEF CallCovered
      <4> QED BY <4>1, <4>2, <4>3 DEF CallCovered
    <3> QED BY <3>1, <3>2
  <2> QED BY <1>0, <1>5, <2>1, <2>2 DEF CallsCovered, LogCovered, Running, Asked
<1> QED BY <1>4, <1>5

\* Where the passes end no call is left.
LEMMA EndKeeps ==
    ASSUME CallsType, OneDispatcher, NEW r \in Runtimes, CallsEnd(r), phase'[r] = "idle"
    PROVE  CallsCovered' /\ LogCovered'
<1>1. \A q \in Runtimes : q = r BY DEF OneDispatcher
<1>2. \A d \in Callers : calls'[d].at # r
    BY ConstantsAssumption DEF CallsEnd, NoCall
<1> QED BY <1>1, <1>2 DEF CallsCovered, LogCovered

\* Either the calls and the pass go on, or a pass begins, or the passes end.
LEMMA StepKinds ==
    ASSUME IInv, IInv', Grows, OneDispatcher, PassFacts, WaitFacts, NEW r \in Runtimes, [Next]_vars
    PROVE  \/ Smooth(r)
           \/ NextPass(r) \/ TimerFires(r) \/ \E d \in Callers : Drain(d, r)
           \/ PassesEnd(r) \/ StorageFails(r) \/ Crash(r)
<1>0. /\ CoreInv /\ CoreInv' /\ HeldInv /\ PassInv /\ RetryType /\ NotedType /\ CallsType
      /\ PassFact(r) /\ \A q \in Runtimes : q = r
    BY DEF IInv, NotedType, CallsType, PassFacts, OneDispatcher
<1>1. CASE UNCHANGED vars
  <2>1. UNCHANGED <<log, cursor, attempts, held, phase, pass, calls, wakeRequested, wakes>>
      BY <1>1 DEF vars, database, subscriptions, dispatcher
  <2> QED BY <1>0, <2>1, QuietSmooth DEF Asked
<1>2. ASSUME NEW q \in Publishers, Publish(q) PROVE Smooth(r)
  <2>1. q \in {r, None} BY <1>0, ConstantsAssumption
  <2> QED BY <1>0, <1>2, <2>1, OutsideSmooth
<1>3. CASE WakeArrives(r) \/ \E c \in Consumers : RetryDue(c) BY <1>0, <1>3, OutsideSmooth
<1>4. CASE Initialize(r) \/ Close(r) \/ Closed(r) BY <1>0, <1>4, LifecycleSmooth
<1>5. ASSUME NEW c \in Consumers,
             \/ Subscribe(r, c) \/ Registered(r, c) \/ RegistrationFails(r, c)
             \/ Dispose(r, c) \/ DisposerResolves(r, c)
      PROVE  Smooth(r)
    BY <1>0, <1>5, SubscriptionSmooth
<1>6. CASE ReadHead(r) \/ ReadRows(r) \/ PassQuiet(r) BY <1>0, <1>6, ReadSmooth
<1>7. CASE Deliver(r) BY <1>0, <1>7, DeliverSmooth
<1>8. CASE \/ \E c \in Consumers : Admit(r, c)
           \/ NothingLeft(r) \/ RecordFailure(r) \/ HandlerFails(r)
    BY <1>0, <1>8, TurnSmooth
<1>9. /\ ~LookupFails(r) /\ ~AnswerLost(r) /\ ~MoveAnswerLost(r) /\ ~LockTimesOut(r)
    BY DEF LookupFails, AnswerLost, MoveAnswerLost, LockTimesOut, OneDispatcher
<1> QED BY <1>0, <1>1, <1>2, <1>3, <1>4, <1>5, <1>6, <1>7, <1>8, <1>9
        DEF Next, RuntimeStep, PassStep, Failure

LEMMA StepCovers ==
    ASSUME OneDispatcher PROVE IInv /\ IInv' /\ DrainInv /\ [Next]_vars => DrainInv'
<1> SUFFICES ASSUME IInv, IInv', DrainInv, [Next]_vars PROVE DrainInv'
    OBVIOUS
<1>1. /\ CoreInv /\ HeldInv /\ PassInv /\ RetryType /\ CallsType /\ LogType
      /\ PassFacts /\ WaitFacts /\ CallsCovered /\ LogCovered
    BY DEF IInv, CallsType, DrainInv, CoreInv
<1>2. Grows BY <1>1, LogGrows
<1>3. WaitFacts' BY <1>1, WaitStep
<1>4. PassFacts'
  <2> SUFFICES ASSUME NEW r \in Runtimes PROVE PassFact(r)' BY DEF PassFacts
  <2>0. PassFact(r) BY <1>1 DEF PassFacts
  <2>1. ASSUME UNCHANGED <<cursor, phase, pass, mode, held>> PROVE PassFact(r)'
      BY <1>1, <2>0, <2>1 DEF PassFact
  <2>2. CASE UNCHANGED vars
      BY <2>1, <2>2 DEF vars, database, dispatcher, subscriptions
  <2>3. ASSUME NEW q \in Publishers, Publish(q) PROVE PassFact(r)'
      BY <2>1, <2>3 DEF Publish, dispatcher
  <2>4. ASSUME NEW c \in Consumers, RetryDue(c) PROVE PassFact(r)'
      BY <2>1, <2>4 DEF RetryDue, subscriptions, dispatcher
  <2>6. ASSUME NEW q \in Runtimes, WakeArrives(q) PROVE PassFact(r)'
      BY <2>1, <2>6 DEF WakeArrives, database
  <2>5. ASSUME NEW q \in Runtimes, RuntimeStep(q) PROVE PassFact(r)'
    <3>1. RuntimeStep(r) BY <2>5 DEF OneDispatcher
    <3> QED BY <1>1, <2>0, <3>1, FactStep
  <2> QED BY <2>2, <2>3, <2>4, <2>5, <2>6 DEF Next
<1>5. ASSUME NEW r \in Runtimes PROVE CallsCovered' /\ LogCovered'
  <2>1. CASE Smooth(r) BY <1>1, <1>2, <2>1, SmoothKeeps
  <2>2. ASSUME NEW d \in Callers, Drain(d, r) PROVE CallsCovered' /\ LogCovered'
      BY <1>1, <1>2, <2>2, DrainKeeps
  <2>3. ASSUME NEW d \in Callers, NEW c \in Consumers,
               calls[d].at = r, calls[d].owed[c] # None
        PROVE  held[r][c] # None /\ calls[d].owed[c] <= Len(log)
      BY <1>1, <2>3 DEF CallsCovered, CallCovered
  <2>4. CASE TimerFires(r)
    <3>1. BeginPass(r) /\ UNCHANGED <<held, log, calls>>
        BY <2>4 DEF TimerFires, database, subscriptions
    <3> QED BY <1>1, <2>3, <3>1, BeginKeeps
  <2>5. CASE NextPass(r)
    <3>1. BeginPass(r) /\ UNCHANGED <<held, log>> /\ calls' = Covered(r)
        BY <2>5 DEF NextPass, database, subscriptions
    <3>2. ASSUME NEW d \in Callers, calls'[d].at = r
          PROVE  calls[d].at = r /\ calls'[d].owed = calls[d].owed
      <4>1. NoCall.at # r BY ConstantsAssumption DEF NoCall
      <4> QED BY <1>1, <3>1, <3>2, <4>1 DEF Covered, CallsType, Calls
    <3> QED BY <1>1, <2>3, <3>1, <3>2, BeginKeeps
  <2>6. CASE PassesEnd(r) \/ StorageFails(r) \/ Crash(r)
    <3>1. CallsEnd(r) /\ phase'[r] = "idle"
        BY <1>1, <2>6 DEF PassesEnd, StorageFails, Crash, Rest, PassInv
    <3> QED BY <1>1, <3>1, EndKeeps
  <2>7. PassFacts /\ WaitFacts BY <1>1
  <2> QED BY <1>2, <2>1, <2>2, <2>4, <2>5, <2>6, <2>7, StepKinds
<1>6. CallsCovered' /\ LogCovered' BY <1>5 DEF CallsCovered, LogCovered
<1> QED BY <1>3, <1>4, <1>6 DEF DrainInv

LEMMA InitCovers == Init => DrainInv
<1> SUFFICES ASSUME Init PROVE DrainInv OBVIOUS
<1>1. NoPass.count = 0 /\ NoCall.at = None BY DEF NoPass, NoCall
<1>2. ASSUME NEW r \in Runtimes PROVE PassFact(r)
  <2>1. pass[r] = NoPass /\ phase[r] = "idle" /\ held[r] = NoConsumers BY DEF Init
  <2> QED BY <1>1, <2>1, ConstantsAssumption DEF PassFact
<1>3. WaitFacts BY DEF Init, WaitFacts
<1>4. CallsCovered BY <1>1, ConstantsAssumption DEF Init, CallsCovered
<1>5. LogCovered BY DEF Init, LogCovered
<1> QED BY <1>2, <1>3, <1>4, <1>5 DEF DrainInv, PassFacts

LEMMA AlwaysCovered == ASSUME OneDispatcher PROVE Spec => []DrainInv
<1>1. IInv /\ IInv' /\ DrainInv /\ [Next]_vars => DrainInv' BY StepCovers
<1> QED BY <1>1, Invariant, InitCovers, PTL DEF Spec

-----------------------------------------------------------------------------
(* The promises.                                                            *)

LEMMA SmoothCalls ==
    ASSUME NEW r \in Runtimes, Smooth(r), NEW d \in Callers
    PROVE  calls'[d].at = calls[d].at
BY DEF Smooth, Narrowed

\* What is owed to a call is served when the passes that answer it are done.
LEMMA AnswerServes ==
    ASSUME IInv, DrainInv, OneDispatcher, NEW r \in Runtimes, NEW d \in Callers,
           calls[d].at = r, PassDone(r), ~pass[r].backlog,
           \/ calls[d].left <= 1
           \/ ~AnotherPass(r),
           NEW c \in Consumers, calls[d].owed[c] # None
    PROVE  definition[c] # None /\ Served(c, calls[d].owed[c])
<1>1. CallCovered(d, r, c) BY DEF DrainInv, CallsCovered
<1>2. held[r][c] # None /\ PassFact(r) /\ HeldInv
    BY <1>1 DEF CallCovered, DrainInv, PassFacts, IInv
<1>3. mode[r] = "up" /\ definition[c] # None BY <1>2, HeldUp, HeldDefined
<1>4. ~(wakeRequested[r] /\ calls[d].left = CallBound)
  <2>1. CASE calls[d].left <= 1
      BY <2>1, ConstantsAssumption DEF CallBound, OneDispatcher
  <2>2. CASE ~AnotherPass(r) BY <1>3, <2>2 DEF AnotherPass
  <2> QED BY <2>1, <2>2
<1>5. Covers(r, c, calls[d].owed[c]) BY <1>1, <1>4 DEF CallCovered
<1> QED BY <1>3, <1>5, DoneServes

\* However many consumers, callers and commits: a drain() that returns has delivered what
\* was committed before the call.  The bound on its passes (DRAIN_PASSES), the commits
\* that keep waking further ones, and reloads in the middle cost no consumer its events.
THEOREM DrainsDeliver == ASSUME OneDispatcher PROVE Spec => DrainDelivers
<1> DEFINE
    Answered ==
        \A d \in Callers :
            calls[d].at # None /\ calls'[d].at = None /\ faults' = faults =>
                \A c \in Consumers :
                    calls[d].owed[c] # None =>
                        \/ attempts[c] > 0
                        \/ definition[c] # None /\ Subscribed(c, cursor[c], calls[d].owed[c]) = {}
<1>1. IInv /\ IInv' /\ DrainInv /\ [Next]_vars => Answered
  <2> SUFFICES ASSUME IInv, IInv', DrainInv, [Next]_vars, NEW d \in Callers,
                      calls[d].at # None, calls'[d].at = None, faults' = faults,
                      NEW c \in Consumers, calls[d].owed[c] # None
               PROVE  definition[c] # None /\ Served(c, calls[d].owed[c])
      BY DEF Served, Subscribed
  <2>1. PICK r \in Runtimes : r = calls[d].at BY DEF IInv, Calls
  <2>2. Grows /\ faults \in Nat BY LogGrows DEF IInv, CoreInv, RetryType
  <2>3. ~Smooth(r) BY SmoothCalls, <2>1
  <2>4. ASSUME NEW x \in Callers, Drain(x, r) PROVE FALSE
      BY <2>1, <2>4 DEF Drain, IInv
  <2>5. ~TimerFires(r) BY <2>1 DEF TimerFires
  <2>6. ~StorageFails(r) /\ ~Crash(r) BY <2>2 DEF StorageFails, Crash, Fault
  <2>7. CASE NextPass(r)
    <3>1. PassDone(r) /\ calls' = Covered(r) BY <2>7 DEF NextPass
    <3>2. ~pass[r].backlog /\ calls[d].left <= 1
        BY <2>1, <3>1 DEF Covered, IInv, Calls
    <3> QED BY <2>1, <3>1, <3>2, AnswerServes
  <2>8. CASE PassesEnd(r)
    <3>1. PassDone(r) /\ ~AnotherPass(r) BY <2>8 DEF PassesEnd
    <3>2. held[r][c] # None /\ PassFact(r)
        BY <2>1 DEF DrainInv, PassFacts, CallsCovered, CallCovered
    <3>3. ~pass[r].backlog BY <3>1, <3>2, HeldUp DEF AnotherPass
    <3> QED BY <2>1, <3>1, <3>3, AnswerServes
  <2>9. PassFacts /\ WaitFacts BY DEF DrainInv
  <2> QED BY <2>2, <2>3, <2>4, <2>5, <2>6, <2>7, <2>8, <2>9, StepKinds
<1>2. Spec => []DrainInv BY AlwaysCovered
<1> QED BY <1>1, <1>2, Invariant, PTL DEF Spec, DrainDelivers

\* With every event published through this dispatcher, it rests only when no registration
\* that is not in retry has anything left or a commit's wake is still to come: no wake that
\* arrives between two steps of a pass is lost.
THEOREM RestsSettled ==
    ASSUME OneDispatcher, Publishers = Runtimes PROVE Spec => SettledAtRest
<1> DEFINE
    Settled ==
        \A r \in Runtimes :
            phase[r] # "idle" /\ phase'[r] = "idle" /\ mode[r] = "up" /\ faults' = faults =>
                \/ wakes[r] > 0
                \/ \A c \in Consumers :
                      held[r][c] # None =>
                          attempts[c] > 0 \/ Subscribed(c, cursor[c], EventHead) = {}
<1>1. IInv /\ IInv' /\ DrainInv /\ [Next]_vars => Settled
  <2> SUFFICES ASSUME IInv, IInv', DrainInv, [Next]_vars, NEW r \in Runtimes,
                      phase[r] # "idle", phase'[r] = "idle", mode[r] = "up", faults' = faults,
                      ~(wakes[r] > 0), NEW c \in Consumers, held[r][c] # None
               PROVE  Served(c, Len(log))
      BY DEF Served, Subscribed, EventHead
  <2>1. Publishers = {r} BY DEF OneDispatcher
  <2>2. Grows /\ faults \in Nat /\ PassInv BY LogGrows DEF IInv, CoreInv, RetryType
  <2>3. ~Smooth(r) BY DEF Smooth
  <2>4. ASSUME NEW x \in Callers, Drain(x, r) PROVE FALSE
      BY <2>2, <2>4, BegunRuns DEF Drain
  <2>5. ~TimerFires(r) /\ ~NextPass(r) BY <2>2, BegunRuns DEF TimerFires, NextPass
  <2>6. ~StorageFails(r) /\ ~Crash(r) BY <2>2 DEF StorageFails, Crash, Fault
  <2>7. CASE PassesEnd(r)
    <3>1. PassDone(r) /\ ~pass[r].backlog /\ ~Asked(r)
        BY <2>7 DEF PassesEnd, AnotherPass, Asked
    <3>2. Covers(r, c, Len(log)) BY <2>1, <3>1 DEF DrainInv, LogCovered
    <3> QED BY <3>1, <3>2, DoneServes
  <2>8. PassFacts /\ WaitFacts BY DEF DrainInv
  <2> QED BY <2>2, <2>3, <2>4, <2>5, <2>6, <2>7, <2>8, StepKinds
<1>2. Spec => []DrainInv BY AlwaysCovered
<1> QED BY <1>1, <1>2, Invariant, PTL DEF Spec, SettledAtRest
=============================================================================

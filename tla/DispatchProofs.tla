---------------------------- MODULE DispatchProofs ----------------------------
(***************************************************************************)
(* Proofs about Dispatch, for any number of runners, requests, calls, works *)
(* and failures: what is said of work is a hold of it, Dispatch implements *)
(* DispatchPromise, a request has one session, and the cap holds.          *)
(***************************************************************************)
EXTENDS Dispatch, WellFoundedInduction, TLAPS

-----------------------------------------------------------------------------
(* The inductive invariant.                                                *)

SessionRow == [request : Requests, step : Steps, status : {"offered", "active", "closed"}]
HoldRows == [Steps -> [attempts : 0..MaxFailures, held : BOOLEAN]]

Reached(t) == t[2] <= work[t[1]].revision

\* A step has one live session at a time, and none before its work reaches it.
OneWorker ==
    \A n, m \in Made : Live(n) /\ Live(m) /\ StepOf(n) = StepOf(m) => n = m

SessionsFit ==
    /\ sessions \in Seq(SessionRow)
    /\ OneWorker
    /\ \A n \in Made : Reached(StepOf(n))

\* A call that runs has its request, and one that counts has the step it could not offer.
CallsFit ==
    /\ call \in [Calls -> CallRecord]
    /\ \A c \in Calls :
        /\ call[c].phase # "idle" => call[c].request \in Requests
        /\ call[c].phase = "counting" => call[c].target \in Steps /\ Reached(call[c].target)

\* What is said stands.
SaidStands == \A i \in Instances : said[i] # None => hold[<<i, said[i]>>].held

\* Holds are of steps their work has reached, and none that was lifted is said.
HoldsFit ==
    /\ hold \in HoldRows
    /\ said \in [Instances -> Revisions \cup {None}]
    /\ \A t \in Steps : hold[t].held => Reached(t)
    /\ SaidStands

WorkTypes == work \in [Instances -> [revision : Revisions, ended : BOOLEAN]]
OtherTypes ==
    /\ receipt \in [Requests -> Nat \cup {None}]
    /\ enabled \in BOOLEAN
    /\ room \in [Runners -> 0..MaxRoom]

Fits == WorkTypes /\ OtherTypes /\ SessionsFit /\ CallsFit /\ HoldsFit

LEMMA FitsTyped == Fits => TypeOK
BY DEF Fits, TypeOK, WorkTypes, OtherTypes, SessionsFit, CallsFit, HoldsFit, SessionRow, HoldRows

-----------------------------------------------------------------------------
(* The greatest of some revisions, steps, sessions and counts.             *)

Above == {ab \in Revisions \X Revisions : ab[1] > ab[2]}

LEMMA AboveIsWellFounded == IsWellFoundedOn(Above, Revisions)
<1> SUFFICES ASSUME NEW f \in [Nat -> Revisions], \A n \in Nat : <<f[n + 1], f[n]>> \in Above
             PROVE  FALSE
    BY DEF IsWellFoundedOn
<1> DEFINE g == [n \in Nat |-> MaxRevision - f[n]]
<1>1. g \in [Nat -> Nat] BY DispatchAssumption DEF Revisions
<1>2. \A n \in Nat : <<g[n + 1], g[n]>> \in OpToRel(<, Nat)
  <2> TAKE n \in Nat
  <2>1. f[n + 1] > f[n] /\ f[n + 1] \in Revisions /\ f[n] \in Revisions BY DEF Above
  <2>2. g[n + 1] = MaxRevision - f[n + 1] /\ g[n] = MaxRevision - f[n] OBVIOUS
  <2>3. g[n + 1] < g[n] BY <2>1, <2>2, DispatchAssumption DEF Revisions
  <2> QED BY <1>1, <2>3 DEF OpToRel
<1> QED BY <1>1, <1>2, NatLessThanWellFounded DEF IsWellFoundedOn

\* Some revisions have a greatest one.
LEMMA GreatestRevision ==
    ASSUME NEW S \in SUBSET Revisions, S # {}
    PROVE  Max(S) \in S /\ \A r \in S : r <= Max(S)
<1>1. PICK x \in S : \A y \in S : <<y, x>> \notin Above BY AboveIsWellFounded, WFMin
<1>2. \A y \in S : x >= y
  <2> TAKE y \in S
  <2>1. x \in Revisions /\ y \in Revisions /\ ~(y > x) BY <1>1 DEF Above
  <2> QED BY <2>1, DispatchAssumption DEF Revisions
<1>3. Max(S) \in S /\ \A r \in S : Max(S) >= r BY <1>2 DEF Max
<1> QED BY <1>3, DispatchAssumption DEF Revisions

\* The parts of a step name it, and no session, revision or step is None.
LEMMA StepFacts ==
    /\ \A t \in Steps : t[1] \in Instances /\ t[2] \in Revisions /\ t = <<t[1], t[2]>>
    /\ \A i \in Instances, r \in Revisions : <<i, r>> \in Steps
    /\ \A t \in Steps : t # None
    /\ \A n \in Nat : n # None
    /\ \A q \in Requests : q # None
    /\ Revisions \subseteq Nat
BY DispatchAssumption DEF Steps, Revisions

\* A session as its row has it.
LEMMA SessionFacts ==
    ASSUME sessions \in Seq(SessionRow)
    PROVE  /\ Made = 1..Len(sessions) /\ Len(sessions) \in Nat
           /\ \A n \in Made : sessions[n] \in SessionRow /\ StepOf(n) \in Steps /\ n \in Nat
<1>1. Made = 1..Len(sessions) /\ Len(sessions) \in Nat BY DEF Made
<1>2. \A n \in Made : sessions[n] \in SessionRow /\ n \in Nat BY <1>1
<1> QED BY <1>1, <1>2 DEF StepOf, SessionRow

\* A session of a new offer comes after those there are, and changes none of them.
LEMMA OfferedFacts ==
    ASSUME sessions \in Seq(SessionRow), NEW q \in Requests, NEW t \in Steps, sessions' = Offered(q, t)
    PROVE  /\ sessions' \in Seq(SessionRow) /\ Len(sessions') = Len(sessions) + 1
           /\ Made' = Made \cup {Len(sessions')} /\ Len(sessions') \notin Made
           /\ \A n \in Made : sessions'[n] = sessions[n]
           /\ sessions'[Len(sessions')] = [request |-> q, step |-> t, status |-> "offered"]
<1>2. [request |-> q, step |-> t, status |-> "offered"] \in SessionRow BY DEF SessionRow
<1> QED BY <1>2 DEF Offered, Made

\* Steps that close or activate sessions keep what they are of.
Kept ==
    /\ sessions' \in Seq(SessionRow) /\ Made' = Made
    /\ \A n \in Made : sessions'[n].step = sessions[n].step
    /\ \A n \in Made : Live(n)' => Live(n)

LEMMA StatusKept ==
    ASSUME sessions \in Seq(SessionRow), NEW n \in Made, NEW to \in {"active", "closed"}, to = "active" => Live(n),
           sessions' = [sessions EXCEPT ![n].status = to]
    PROVE  /\ Kept /\ Len(sessions') = Len(sessions)
           /\ \A m \in Made : m # n => sessions'[m] = sessions[m]
           /\ sessions'[n].status = to
<1>2. sessions[n] \in SessionRow BY SessionFacts
<1>3. [sessions[n] EXCEPT !.status = to] \in SessionRow BY <1>2 DEF SessionRow
<1>4. sessions' \in Seq(SessionRow) /\ Len(sessions') = Len(sessions) BY <1>3 DEF Made
<1>5. Made' = Made BY <1>4 DEF Made
<1>6. \A m \in Made : m # n => sessions'[m] = sessions[m] BY DEF Made
<1>7. sessions'[n] = [sessions[n] EXCEPT !.status = to] BY DEF Made
<1>8. sessions'[n].status = to /\ sessions'[n].step = sessions[n].step BY <1>2, <1>7 DEF SessionRow
<1> QED BY <1>4, <1>5, <1>6, <1>8 DEF Kept, Live

-----------------------------------------------------------------------------
(* What a step does to work, sessions, calls and holds.                    *)

\* Work moves on, and what it reached stays reached.
Grows == WorkTypes' /\ \A t \in Steps : Reached(t) => Reached(t)'

LEMMA WorkStep == WorkTypes /\ [Next]_vars => Grows
<1> SUFFICES ASSUME WorkTypes, [Next]_vars PROVE Grows OBVIOUS
<1>1. ASSUME UNCHANGED work PROVE Grows BY <1>1 DEF Grows, WorkTypes, Reached
<1>2. ASSUME NEW i \in Instances, NEW ends \in BOOLEAN, Transition(i, ends) PROVE Grows
  <2>1. work[i].revision \in Revisions /\ work[i].revision + 1 \in Revisions
      BY <1>2, DispatchAssumption DEF Transition, WorkTypes, Revisions
  <2>2. work' = [work EXCEPT ![i] = [revision |-> work[i].revision + 1, ended |-> ends]]
      BY <1>2 DEF Transition
  <2>3. WorkTypes' BY <2>1, <2>2 DEF WorkTypes
  <2>4. ASSUME NEW t \in Steps, Reached(t) PROVE Reached(t)'
    <3>1. CASE t[1] # i BY <2>2, <2>4, <3>1, StepFacts DEF Reached, WorkTypes
    <3>2. CASE t[1] = i
      <4>1. work'[i].revision = work[i].revision + 1 BY <2>2 DEF WorkTypes
      <4> QED BY <2>1, <2>4, <3>2, <4>1, StepFacts DEF Reached
    <3> QED BY <3>1, <3>2
  <2> QED BY <2>3, <2>4 DEF Grows
<1>3. CASE UNCHANGED vars BY <1>1, <1>3 DEF vars
<1> QED
  BY <1>1, <1>2, <1>3
  DEF Next, ReleaseHold, SetDispatch, Halt, Restart, OfferByHand, Activate, Close, CloseFailed, SetRoom,
      CallStep, Ask, Reply, Offer, OfferFails, Count

\* A new session is of a step that had none.
LEMMA NewSession ==
    ASSUME Fits, Grows, NEW q \in Requests, NEW t \in Steps, At(t), WorkersAt(t) = {},
           sessions' = Offered(q, t)
    PROVE  SessionsFit'
<1> USE DEF Fits, SessionsFit
<1>1. sessions' \in Seq(SessionRow) BY OfferedFacts
<1> DEFINE new == Len(sessions')
<1>2. Made' = Made \cup {new} /\ new \notin Made BY OfferedFacts
<1>3. \A n \in Made : sessions'[n] = sessions[n] BY OfferedFacts
<1>4. sessions'[new].step = t
  <2>1. sessions'[new] = [request |-> q, step |-> t, status |-> "offered"] BY OfferedFacts
  <2> QED BY <2>1
<1>5. Reached(t) BY StepFacts DEF At, Reached, WorkTypes
<1>6. \A n \in Made' : Reached(StepOf(n))'
  <2> TAKE n \in Made'
  <2>1. CASE n = new
    <3>1. StepOf(n)' = t BY <1>4, <2>1 DEF StepOf
    <3> QED BY <1>5, <3>1 DEF Grows, Reached
  <2>2. CASE n \in Made
    <3>1. StepOf(n)' = StepOf(n) /\ StepOf(n) \in Steps BY <1>3, <2>2, SessionFacts DEF StepOf
    <3> QED BY <2>2, <3>1 DEF Grows, Reached
  <2> QED BY <1>2, <2>1, <2>2
<1>7. OneWorker'
  <2> SUFFICES ASSUME NEW n \in Made', NEW m \in Made', Live(n)', Live(m)', StepOf(n)' = StepOf(m)'
               PROVE  n = m
      BY DEF OneWorker
  <2>1. CASE n \in Made /\ m \in Made BY <1>3, <2>1 DEF OneWorker, Live, StepOf
  <2>2. ASSUME NEW k \in Made, Live(k)', StepOf(k)' = t PROVE FALSE
      BY <1>3, <2>2 DEF WorkersAt, Live, StepOf
  <2>3. CASE n = new /\ m \in Made BY <1>4, <2>2, <2>3 DEF StepOf
  <2>4. CASE m = new /\ n \in Made BY <1>4, <2>2, <2>4 DEF StepOf
  <2> QED BY <1>2, <2>1, <2>3, <2>4
<1> QED BY <1>1, <1>6, <1>7

\* Closing and activating sessions leaves a step its one.
LEMMA OldSessions ==
    ASSUME Fits, Grows, Kept
    PROVE  SessionsFit'
<1> USE DEF Fits, SessionsFit, Kept
<1>1. \A n \in Made : StepOf(n)' = StepOf(n) /\ StepOf(n) \in Steps BY SessionFacts DEF StepOf
<1>2. OneWorker' BY <1>1 DEF OneWorker
<1>3. \A n \in Made' : Reached(StepOf(n))' BY <1>1 DEF Grows, Reached
<1> QED BY <1>2, <1>3

LEMMA SessionsStep == Fits /\ Grows /\ [Next]_vars => SessionsFit'
<1> SUFFICES ASSUME Fits, Grows, [Next]_vars PROVE SessionsFit' OBVIOUS
<1>0. sessions \in Seq(SessionRow) BY DEF Fits, SessionsFit
<1>1. ASSUME UNCHANGED sessions PROVE SessionsFit'
  <2>1. Kept BY <1>0, <1>1 DEF Kept, Live, Made
  <2> QED BY <2>1, OldSessions
<1>2. ASSUME NEW q \in Requests, NEW t \in Steps, OfferByHand(q, t) PROVE SessionsFit'
    BY <1>2, NewSession DEF OfferByHand
<1>3. ASSUME NEW c \in Calls, Offer(c) PROVE SessionsFit'
  <2>1. call[c].request \in Requests BY <1>3 DEF Offer, Fits, CallsFit
  <2>2. PICK t \in Candidates(call[c].skipped) : sessions' = Offered(call[c].request, t) BY <1>3 DEF Offer
  <2> QED BY <2>1, <2>2, NewSession DEF Candidates
<1>4. ASSUME NEW n \in Made, Activate(n) PROVE SessionsFit'
  <2>1. Kept BY <1>0, <1>4, StatusKept DEF Activate, Live
  <2> QED BY <2>1, OldSessions
<1>5. ASSUME NEW n \in Made, Close(n) \/ \E again \in BOOLEAN : CloseFailed(n, again) PROVE SessionsFit'
  <2>1. Kept BY <1>0, <1>5, StatusKept DEF Close, CloseFailed, Closed
  <2> QED BY <2>1, OldSessions
<1>6. ASSUME Halt PROVE SessionsFit'
  <2>1. sessions' = [n \in Made |-> [sessions[n] EXCEPT !.status = "closed"]] BY <1>6 DEF Halt
  <2>2. Made = 1..Len(sessions) /\ Len(sessions) \in Nat BY <1>0, SessionFacts
  <2>3. \A n \in Made : [sessions[n] EXCEPT !.status = "closed"] \in SessionRow
      BY <1>0, SessionFacts DEF SessionRow
  <2>4. sessions' \in Seq(SessionRow) /\ Made' = Made BY <2>1, <2>2, <2>3 DEF Made
  <2>5. \A n \in Made : sessions'[n].step = sessions[n].step /\ sessions'[n].status = "closed"
      BY <1>0, <2>1, SessionFacts DEF SessionRow
  <2>6. Kept BY <2>4, <2>5 DEF Kept, Live
  <2> QED BY <2>6, OldSessions
<1>7. CASE UNCHANGED vars BY <1>1, <1>7 DEF vars
<1> QED
  BY <1>1, <1>2, <1>3, <1>4, <1>5, <1>6, <1>7
  DEF Next, ReleaseHold, SetDispatch, Restart, Transition, SetRoom, CallStep, Ask, Reply, OfferFails, Count

\* A call as its record has it.
LEMMA CallKeeps ==
    ASSUME Fits, Grows, NEW c \in Calls, NEW job \in CallRecord, call' = [call EXCEPT ![c] = job],
           job.phase # "idle" => job.request \in Requests,
           job.phase = "counting" => job.target \in Steps /\ Reached(job.target)
    PROVE  CallsFit'
<1> USE DEF Fits, CallsFit
<1>1. call' \in [Calls -> CallRecord] OBVIOUS
<1>2. ASSUME NEW d \in Calls, call'[d].phase # "idle" PROVE call'[d].request \in Requests
    BY <1>2
<1>3. ASSUME NEW d \in Calls, call'[d].phase = "counting"
      PROVE  call'[d].target \in Steps /\ Reached(call[d].target)'
  <2>1. call'[d].target \in Steps /\ Reached(call'[d].target) BY <1>3
  <2> QED BY <2>1 DEF Grows, Reached
<1> QED BY <1>1, <1>2, <1>3

LEMMA CallsStep == Fits /\ Grows /\ [Next]_vars => CallsFit'
<1> SUFFICES ASSUME Fits, Grows, [Next]_vars PROVE CallsFit' OBVIOUS
<1>0. call \in [Calls -> CallRecord] BY DEF Fits, CallsFit
<1>i. Idle \in CallRecord /\ Idle.phase = "idle" BY DEF Idle, CallRecord
<1>1. ASSUME UNCHANGED call PROVE CallsFit' BY <1>1 DEF Fits, CallsFit, Grows, Reached
<1>2. ASSUME NEW c \in Calls, Reply(c) \/ Offer(c) PROVE CallsFit'
    BY <1>2, <1>i, CallKeeps DEF Reply, Offer
<1>3. ASSUME NEW c \in Calls, NEW q \in Requests, Ask(c, q) PROVE CallsFit'
  <2> DEFINE job == [Idle EXCEPT !.request = q, !.phase = "asked"]
  <2>1. job \in CallRecord /\ job.phase = "asked" /\ job.request = q BY DEF Idle, CallRecord
  <2> QED BY <1>3, <2>1, CallKeeps DEF Ask
<1>4. ASSUME NEW c \in Calls, OfferFails(c) PROVE CallsFit'
  <2>1. PICK t \in Candidates(call[c].skipped) :
           call' = [call EXCEPT ![c].phase = "counting", ![c].target = t]
      BY <1>4 DEF OfferFails
  <2>2. t \in Steps /\ Reached(t) BY <2>1, StepFacts DEF Candidates, At, Reached, Fits, WorkTypes
  <2> DEFINE job == [call[c] EXCEPT !.phase = "counting", !.target = t]
  <2>3. call[c] \in CallRecord /\ call[c].phase = "asked" BY <1>0, <1>4 DEF OfferFails
  <2>4. job \in CallRecord /\ job.phase = "counting" /\ job.target = t /\ job.request = call[c].request
      BY <2>2, <2>3 DEF CallRecord
  <2>5. call' = [call EXCEPT ![c] = job] BY <1>0, <2>1
  <2>6. call[c].request \in Requests BY <2>3 DEF Fits, CallsFit
  <2> HIDE DEF job
  <2> QED BY <2>2, <2>4, <2>5, <2>6, CallKeeps
<1>5. ASSUME NEW c \in Calls, NEW counted \in BOOLEAN, Count(c, counted) PROVE CallsFit'
  <2> DEFINE job == PassedOver(call[c])
  <2>1. call[c] \in CallRecord /\ call[c].phase = "counting" /\ call[c].target \in Steps
        /\ call[c].request \in Requests
      BY <1>0, <1>5 DEF Count, Fits, CallsFit
  <2>2. job \in CallRecord /\ job.phase = "asked" /\ job.request = call[c].request
      BY <2>1 DEF PassedOver, CallRecord
  <2>3. call' = [call EXCEPT ![c] = job] BY <1>5 DEF Count
  <2> HIDE DEF job
  <2> QED BY <2>1, <2>2, <2>3, CallKeeps
<1>6. ASSUME Restart PROVE CallsFit'
  <2>1. call' = [c \in Calls |-> Idle] BY <1>6 DEF Restart
  <2> QED BY <1>i, <2>1 DEF CallsFit
<1>7. CASE UNCHANGED vars BY <1>1, <1>7 DEF vars
<1> QED
  BY <1>1, <1>2, <1>3, <1>4, <1>5, <1>6, <1>7
  DEF Next, ReleaseHold, SetDispatch, Halt, OfferByHand, Transition, SetRoom, CallStep, Activate, Close,
      CloseFailed

\* A failure counted of a step its work reached: a hold it makes is said.
LEMMA AttemptKeeps ==
    ASSUME Fits, Grows, UNCHANGED work, NEW t \in Steps, Reached(t), NEW again \in BOOLEAN,
           Attempt(t, again)
    PROVE  HoldsFit'
<1> USE DEF Fits, HoldsFit
<1>1. hold[t] \in [attempts : 0..MaxFailures, held : BOOLEAN] BY DEF HoldRows
<1> DEFINE row == Attempted(hold[t], again)
<1>2. row \in [attempts : 0..MaxFailures, held : BOOLEAN]
  <2>1. (IF hold[t].attempts < MaxFailures THEN hold[t].attempts + 1 ELSE MaxFailures) \in 0..MaxFailures
      BY <1>1, DispatchAssumption
  <2> QED BY <2>1 DEF Attempted
<1>3. hold[t].held => row.held BY DEF Attempted
<1>4. hold' = [hold EXCEPT ![t] = row] BY DEF Attempt
<1> HIDE DEF row
<1>5. hold' \in HoldRows /\ hold'[t] = row /\ \A u \in Steps : u # t => hold'[u] = hold[u]
    BY <1>2, <1>4 DEF HoldRows
<1>6. said' = IF row.held /\ ~hold[t].held THEN [said EXCEPT ![t[1]] = t[2]] ELSE said
    BY <1>5 DEF Attempt
<1>7. t[1] \in Instances /\ t[2] \in Revisions /\ t = <<t[1], t[2]>> /\ t[2] # None BY StepFacts
<1>8. said' \in [Instances -> Revisions \cup {None}] BY <1>6, <1>7
<1>9. \A u \in Steps : hold'[u].held => Reached(u)' BY <1>5 DEF Grows
<1>10. SaidStands'
  <2> SUFFICES ASSUME NEW i \in Instances
               PROVE  said'[i] # None => hold'[<<i, said'[i]>>].held
      BY DEF SaidStands
  <2>1. CASE i = t[1] /\ row.held /\ ~hold[t].held BY <1>5, <1>6, <1>7, <2>1
  <2>2. CASE ~(i = t[1] /\ row.held /\ ~hold[t].held)
    <3>1. said'[i] = said[i] BY <1>6, <1>7, <2>2
    <3>2. said[i] # None => <<i, said[i]>> \in Steps /\ hold[<<i, said[i]>>].held
        BY StepFacts DEF SaidStands
    <3>3. \A r \in Revisions : hold'[<<i, r>>].held <=> hold[<<i, r>>].held
        BY <1>3, <1>5, <1>7, <2>2, StepFacts
    <3> QED BY <3>1, <3>2, <3>3
  <2> QED BY <2>1, <2>2
<1> QED BY <1>5, <1>8, <1>9, <1>10

\* Where every count starts afresh nothing is said of any.
LEMMA AfreshKeeps == ASSUME Fits, Grows, Afresh PROVE HoldsFit'
<1> USE DEF Fits, HoldsFit
<1>1. hold' = [t \in Steps |-> NoHold] BY DEF Afresh
<1>2. hold' \in HoldRows BY <1>1, DispatchAssumption DEF HoldRows, NoHold
<1>3. \A t \in Steps : ~hold'[t].held BY <1>1 DEF NoHold
<1>4. \A i \in Instances : said'[i] = None
  <2> TAKE i \in Instances
  <2>1. said'[i] = IF HeldAt(i) # {} THEN None ELSE said[i] BY DEF Afresh
  <2>2. said[i] # None => said[i] \in HeldAt(i) BY DEF SaidStands, HeldAt
  <2> QED BY <2>1, <2>2
<1>5. said' \in [Instances -> Revisions \cup {None}] BY <1>4 DEF Afresh
<1>6. SaidStands' BY <1>3, <1>4, StepFacts DEF SaidStands, Grows, WorkTypes
<1> QED BY <1>2, <1>3, <1>5, <1>6

\* A release leaves another hold said where there is one.
LEMMA ReleaseKeeps ==
    ASSUME Fits, Grows, NEW t \in Steps, ReleaseHold(t)
    PROVE  HoldsFit'
<1> USE DEF Fits, HoldsFit
<1> DEFINE rest == HeldAt(t[1]) \ {t[2]}
<1>0. UNCHANGED work /\ hold' = [hold EXCEPT ![t] = NoHold]
      /\ said' = [said EXCEPT ![t[1]] = Standing(rest)]
    BY DEF ReleaseHold
<1>1. NoHold \in [attempts : 0..MaxFailures, held : BOOLEAN] /\ ~NoHold.held
    BY DispatchAssumption DEF NoHold
<1>2. hold' \in HoldRows /\ ~hold'[t].held /\ \A u \in Steps : u # t => hold'[u] = hold[u]
    BY <1>0, <1>1 DEF HoldRows
<1>3. t[1] \in Instances /\ t[2] \in Revisions /\ t = <<t[1], t[2]>> BY StepFacts
<1>4. rest \in SUBSET Revisions BY DEF HeldAt
<1>5. (Standing(rest) = None /\ rest = {}) \/ (Standing(rest) \in rest /\ Standing(rest) # None)
  <2>1. rest # {} => Max(rest) \in rest BY <1>4, GreatestRevision
  <2>2. \A r \in rest : r # None BY <1>4, StepFacts
  <2>3. Standing(rest) = IF rest = {} THEN None ELSE Max(rest) BY DEF Standing
  <2>4. CASE rest = {} BY <2>3, <2>4
  <2>5. CASE rest # {} BY <2>1, <2>2, <2>3, <2>5
  <2> QED BY <2>4, <2>5
<1>6. said' \in [Instances -> Revisions \cup {None}] BY <1>0, <1>4, <1>5
<1>7. \A u \in Steps : hold'[u].held => Reached(u)' BY <1>2 DEF Grows
<1>8. SaidStands'
  <2> SUFFICES ASSUME NEW i \in Instances
               PROVE  said'[i] # None => hold'[<<i, said'[i]>>].held
      BY <1>0 DEF SaidStands
  <2>1. CASE i # t[1]
    <3>1. said'[i] = said[i] BY <1>0, <2>1
    <3>2. \A r \in Revisions : hold'[<<i, r>>] = hold[<<i, r>>] BY <1>2, <1>3, <2>1, StepFacts
    <3> QED BY <3>1, <3>2 DEF SaidStands
  <2>2. CASE i = t[1]
    <3>1. said'[i] = Standing(rest) BY <1>0, <2>2
    <3>2. \A r \in Revisions : hold'[<<i, r>>].held <=> r \in rest
        BY <1>2, <1>3, <2>2, StepFacts DEF HeldAt
    <3> QED BY <1>4, <1>5, <3>1, <3>2
  <2> QED BY <2>1, <2>2
<1> QED BY <1>2, <1>6, <1>7, <1>8

\* A move says nothing anew.
LEMMA TransitionKeeps ==
    ASSUME Fits, Grows, NEW i \in Instances, NEW ends \in BOOLEAN, Transition(i, ends)
    PROVE  HoldsFit'
<1> USE DEF Fits, HoldsFit
<1>1. UNCHANGED hold /\ said' = IF ends THEN [said EXCEPT ![i] = None] ELSE said BY DEF Transition
<1>2. said' \in [Instances -> Revisions \cup {None}] BY <1>1
<1>3. \A t \in Steps : hold'[t].held => Reached(t)' BY <1>1 DEF Grows
<1>4. SaidStands' BY <1>1 DEF SaidStands
<1> QED BY <1>1, <1>2, <1>3, <1>4

\* A restart says the latest hold where it is of the present step.
LEMMA RestartKeeps == ASSUME Fits, Grows, Restart PROVE HoldsFit'
<1> USE DEF Fits, HoldsFit
<1>1. UNCHANGED <<work, hold>> BY DEF Restart
<1>2. \A i \in Instances :
         said'[i] = IF HeldAt(i) = {} THEN said[i]
                    ELSE IF Max(HeldAt(i)) = work[i].revision THEN work[i].revision ELSE None
    BY DEF Restart
<1>3. \A i \in Instances : work[i].revision \in Revisions /\ work[i].revision \in Nat
                            /\ work[i].revision # None
    BY StepFacts DEF WorkTypes
<1>4. said' \in [Instances -> Revisions \cup {None}] BY <1>2, <1>3 DEF Restart
<1>5. SaidStands'
  <2> SUFFICES ASSUME NEW i \in Instances
               PROVE  said'[i] # None => hold[<<i, said'[i]>>].held
      BY <1>1 DEF SaidStands
  <2>1. CASE HeldAt(i) = {} BY <1>2, <2>1 DEF SaidStands
  <2>2. CASE HeldAt(i) # {}
    <3>1. Max(HeldAt(i)) \in HeldAt(i) BY <2>2, GreatestRevision DEF HeldAt
    <3>2. \A r \in HeldAt(i) : hold[<<i, r>>].held BY DEF HeldAt
    <3> QED BY <1>2, <1>3, <2>2, <3>1, <3>2
  <2> QED BY <2>1, <2>2
<1> QED BY <1>1, <1>4, <1>5 DEF Grows

LEMMA HoldsStep == Fits /\ Grows /\ [Next]_vars => HoldsFit'
<1> SUFFICES ASSUME Fits, Grows, [Next]_vars PROVE HoldsFit' OBVIOUS
<1>1. ASSUME UNCHANGED <<work, hold, said>> PROVE HoldsFit'
    BY <1>1 DEF Fits, HoldsFit, SaidStands, Reached
<1>2. ASSUME SetDispatch \/ Halt PROVE HoldsFit' BY <1>1, <1>2, AfreshKeeps DEF SetDispatch, Halt
<1>3. ASSUME NEW n \in Made, NEW again \in BOOLEAN, CloseFailed(n, again) PROVE HoldsFit'
    BY <1>3, AttemptKeeps, SessionFacts DEF CloseFailed, Fits, SessionsFit
<1>4. ASSUME NEW c \in Calls, NEW counted \in BOOLEAN, Count(c, counted) PROVE HoldsFit'
    BY <1>1, <1>4, AttemptKeeps DEF Count, Fits, CallsFit
<1>5. CASE UNCHANGED vars BY <1>1, <1>5 DEF vars
<1> QED
  BY <1>1, <1>2, <1>3, <1>4, <1>5, ReleaseKeeps, TransitionKeeps, RestartKeeps
  DEF Next, OfferByHand, Activate, Close, SetRoom, CallStep, Ask, Reply, Offer, OfferFails

LEMMA OtherStep == Fits /\ Grows /\ [Next]_vars => OtherTypes'
<1> SUFFICES ASSUME Fits, Grows, [Next]_vars PROVE OtherTypes' OBVIOUS
<1> USE DEF Fits, OtherTypes
<1>1. ASSUME UNCHANGED <<receipt, enabled, room>> PROVE OtherTypes' BY <1>1
<1>2. ASSUME SetDispatch \/ Halt PROVE OtherTypes' BY <1>2 DEF SetDispatch, Halt
<1>3. ASSUME NEW r \in Runners, SetRoom(r) PROVE OtherTypes' BY <1>3 DEF SetRoom
<1>4. ASSUME NEW c \in Calls, Offer(c) PROVE OtherTypes'
  <2>1. call[c].request \in Requests BY <1>4 DEF Offer, CallsFit
  <2>2. PICK t \in Candidates(call[c].skipped) : sessions' = Offered(call[c].request, t) BY <1>4 DEF Offer
  <2>3. Len(sessions') \in Nat
      BY <2>1, <2>2, OfferedFacts, SessionFacts DEF Candidates, SessionsFit
  <2>4. receipt' = [receipt EXCEPT ![call[c].request] = Len(sessions')] /\ UNCHANGED <<enabled, room>>
      BY <1>4 DEF Offer
  <2> QED BY <2>1, <2>3, <2>4
<1>5. CASE UNCHANGED vars BY <1>1, <1>5 DEF vars
<1> QED
  BY <1>1, <1>2, <1>3, <1>4, <1>5
  DEF Next, ReleaseHold, Restart, Transition, OfferByHand, Activate, Close, CloseFailed, CallStep, Ask,
      Reply, OfferFails, Count

LEMMA FitsInit == Init => Fits
<1> SUFFICES ASSUME Init PROVE Fits OBVIOUS
<1> USE DEF Init
<1>1. WorkTypes BY DispatchAssumption DEF WorkTypes, Revisions
<1>2. OtherTypes BY DispatchAssumption DEF OtherTypes
<1>3. SessionsFit BY DEF SessionsFit, OneWorker, Made
<1>4. CallsFit BY DEF CallsFit, CallRecord, Idle
<1>5. HoldsFit
  <2>1. hold \in HoldRows BY DispatchAssumption DEF HoldRows, NoHold
  <2>2. \A t \in Steps : ~hold[t].held BY DEF NoHold
  <2> QED BY <2>1, <2>2 DEF HoldsFit, SaidStands
<1> QED BY <1>1, <1>2, <1>3, <1>4, <1>5 DEF Fits

LEMMA FitsStep == Fits /\ [Next]_vars => Fits'
BY WorkStep, SessionsStep, CallsStep, HoldsStep, OtherStep DEF Fits, Grows

LEMMA FitsAlways == Spec => []Fits
BY FitsInit, FitsStep, PTL DEF Spec

\* Work, sessions, receipts, holds, settings and calls keep their types.
THEOREM TypeCorrect == Spec => []TypeOK
BY FitsAlways, FitsTyped, PTL

-----------------------------------------------------------------------------
(* What is said of holds.                                                  *)

\* Of some holds of a work, that of its present step is the latest.
LEMMA PresentIsLatest ==
    ASSUME Fits, NEW i \in Instances, NEW S \in SUBSET HeldAt(i), work[i].revision \in S
    PROVE  Max(S) = work[i].revision
<1>1. S \in SUBSET Revisions /\ S # {} BY DEF HeldAt
<1>2. Max(S) \in S /\ work[i].revision <= Max(S) BY <1>1, GreatestRevision
<1>3. \A r \in HeldAt(i) : r <= work[i].revision
  <2> TAKE r \in HeldAt(i)
  <2>1. r \in Revisions /\ hold[<<i, r>>].held BY DEF HeldAt
  <2>2. <<i, r>> \in Steps BY <2>1, StepFacts
  <2>3. Reached(<<i, r>>) BY <2>1, <2>2 DEF Fits, HoldsFit
  <2> QED BY <2>3 DEF Reached
<1> DEFINE m == Max(S)
<1>4. m \in Nat /\ work[i].revision \in Nat /\ m <= work[i].revision /\ work[i].revision <= m
    BY <1>1, <1>2, <1>3, StepFacts
<1> HIDE DEF m
<1>5. m = work[i].revision BY <1>4
<1> QED BY <1>5 DEF m

\* HoldsAreSaid, of one instance and one step.
SaysHolds(i) ==
    /\ Untold(i)' => \/ said'[i] \in Placed(i)
                     \/ Untold(i) /\ UNCHANGED said[i] /\ Lifted(i) = {}
    /\ said'[i] \in {None, said[i], work'[i].revision} \cup Placed(i) \/ Lifted(i) # {}

\* Where neither the holds of the work nor its revision nor what it says changes.
LEMMA QuietSays ==
    ASSUME NEW i \in Instances, HeldAt(i)' = HeldAt(i), said'[i] = said[i],
           work'[i].revision = work[i].revision
    PROVE  SaysHolds(i)
BY DEF SaysHolds, Untold, Placed, Lifted

LEMMA AttemptSays ==
    ASSUME Fits, UNCHANGED work, NEW t \in Steps, NEW again \in BOOLEAN, Attempt(t, again),
           NEW i \in Instances
    PROVE  SaysHolds(i)
<1> USE DEF Fits, HoldsFit
<1> DEFINE row == Attempted(hold[t], again)
<1>1. (hold[t].held => row.held) /\ hold' = [hold EXCEPT ![t] = row] BY DEF Attempted, Attempt
<1> HIDE DEF row
<1>2. hold'[t] = row /\ \A u \in Steps : u # t => hold'[u] = hold[u] BY <1>1 DEF HoldRows
<1>3. said' = IF row.held /\ ~hold[t].held THEN [said EXCEPT ![t[1]] = t[2]] ELSE said
    BY <1>2 DEF Attempt
<1>4. t[1] \in Instances /\ t[2] \in Revisions /\ t = <<t[1], t[2]>> BY StepFacts
<1>5. CASE i = t[1] /\ row.held /\ ~hold[t].held
  <2>1. said'[i] = t[2] BY <1>3, <1>4, <1>5
  <2>2. t[2] \in Placed(i) BY <1>2, <1>4, <1>5 DEF Placed, HeldAt
  <2> QED BY <2>1, <2>2 DEF SaysHolds
<1>6. CASE ~(i = t[1] /\ row.held /\ ~hold[t].held)
  <2>1. said'[i] = said[i] BY <1>3, <1>4, <1>6
  <2>2. \A r \in Revisions : hold'[<<i, r>>].held <=> hold[<<i, r>>].held
      BY <1>1, <1>2, <1>4, <1>6, StepFacts
  <2>3. HeldAt(i)' = HeldAt(i) BY <2>2 DEF HeldAt
  <2> QED BY <2>1, <2>3, QuietSays
<1> QED BY <1>5, <1>6

LEMMA AfreshSays == ASSUME Fits, Afresh, NEW i \in Instances PROVE SaysHolds(i)
<1>1. hold' = [t \in Steps |-> NoHold] /\ said'[i] = IF HeldAt(i) # {} THEN None ELSE said[i]
    BY DEF Afresh
<1>2. HeldAt(i)' = {} BY <1>1, StepFacts DEF HeldAt, NoHold
<1> QED BY <1>1, <1>2 DEF SaysHolds, Untold

\* A release says the hold of the present step, where one is left.
LEMMA ReleaseSays ==
    ASSUME Fits, NEW t \in Steps, ReleaseHold(t), NEW i \in Instances
    PROVE  SaysHolds(i)
<1> USE DEF Fits, HoldsFit
<1> DEFINE rest == HeldAt(t[1]) \ {t[2]}
<1>0. UNCHANGED work /\ hold' = [hold EXCEPT ![t] = NoHold] /\ hold[t].held
      /\ said' = [said EXCEPT ![t[1]] = Standing(rest)]
    BY DEF ReleaseHold
<1>1. ~hold'[t].held /\ \A u \in Steps : u # t => hold'[u] = hold[u] BY <1>0 DEF HoldRows, NoHold
<1>2. t[1] \in Instances /\ t[2] \in Revisions /\ t = <<t[1], t[2]>> BY StepFacts
<1>3. CASE i # t[1]
  <2>1. \A r \in Revisions : hold'[<<i, r>>] = hold[<<i, r>>] BY <1>1, <1>2, <1>3, StepFacts
  <2>2. HeldAt(i)' = HeldAt(i) BY <2>1 DEF HeldAt
  <2>3. said'[i] = said[i] BY <1>0, <1>2, <1>3
  <2> QED BY <1>0, <2>2, <2>3, QuietSays
<1>4. CASE i = t[1]
  <2>1. HeldAt(i)' = rest BY <1>1, <1>2, <1>4, StepFacts DEF HeldAt
  <2>2. Lifted(i) # {}
    <3>1. t[2] \in HeldAt(i) /\ t[2] \notin HeldAt(i)' BY <1>0, <1>2, <1>4, <2>1 DEF HeldAt
    <3> QED BY <3>1 DEF Lifted
  <2>3. ~Untold(i)'
    <3>1. SUFFICES ASSUME work[i].revision \in rest PROVE said'[i] = work[i].revision
        BY <1>0, <2>1 DEF Untold
    <3>2. Standing(rest) = Max(rest) BY <3>1 DEF Standing
    <3>3. Max(rest) = work[i].revision BY <1>4, <3>1, PresentIsLatest
    <3> QED BY <1>0, <1>2, <1>4, <3>2, <3>3
  <2> QED BY <2>2, <2>3 DEF SaysHolds
<1> QED BY <1>3, <1>4

\* Nothing is held of the step a move comes to.
LEMMA TransitionSays ==
    ASSUME Fits, NEW j \in Instances, NEW ends \in BOOLEAN, Transition(j, ends), Grows, NEW i \in Instances
    PROVE  SaysHolds(i)
<1> USE DEF Fits, HoldsFit
<1>1. UNCHANGED hold /\ said' = IF ends THEN [said EXCEPT ![j] = None] ELSE said BY DEF Transition
<1>2. HeldAt(i)' = HeldAt(i) BY <1>1 DEF HeldAt
<1>3. CASE i # j
  <2>1. work'[i] = work[i] /\ said'[i] = said[i] BY <1>1, <1>3 DEF Transition, WorkTypes
  <2> QED BY <1>2, <2>1, QuietSays
<1>4. CASE i = j
  <2>1. said'[i] \in {None, said[i]} BY <1>1
  <2>2. work'[i].revision = work[i].revision + 1 BY <1>4 DEF Transition, WorkTypes
  <2>3. work[i].revision \in Nat /\ work'[i].revision \in Revisions
      BY StepFacts DEF Grows, WorkTypes
  <2>4. <<i, work'[i].revision>> \in Steps BY <2>3, StepFacts
  <2>5. ~Reached(<<i, work'[i].revision>>) BY <2>2, <2>3 DEF Reached
  <2>6. ~Untold(i)' BY <1>1, <2>4, <2>5 DEF Untold, HeldAt
  <2> QED BY <2>1, <2>6 DEF SaysHolds
<1> QED BY <1>3, <1>4

\* A restart says the hold of the present step.
LEMMA RestartSays == ASSUME Fits, Restart, NEW i \in Instances PROVE SaysHolds(i)
<1>1. UNCHANGED <<work, hold>>
      /\ said'[i] = IF HeldAt(i) = {} THEN said[i]
                    ELSE IF Max(HeldAt(i)) = work[i].revision THEN work[i].revision ELSE None
    BY DEF Restart
<1>2. HeldAt(i)' = HeldAt(i) BY <1>1 DEF HeldAt
<1>3. ~Untold(i)' BY <1>1, <1>2, PresentIsLatest DEF Untold
<1> QED BY <1>1, <1>3 DEF SaysHolds

LEMMA StepSays == ASSUME Fits, [Next]_vars, NEW i \in Instances PROVE SaysHolds(i)
<1>1. Grows BY WorkStep DEF Fits
<1>2. ASSUME UNCHANGED <<work, hold, said>> PROVE SaysHolds(i) BY <1>2, QuietSays DEF HeldAt
<1>3. ASSUME SetDispatch \/ Halt PROVE SaysHolds(i) BY <1>2, <1>3, AfreshSays DEF SetDispatch, Halt
<1>4. ASSUME NEW n \in Made, NEW again \in BOOLEAN, CloseFailed(n, again) PROVE SaysHolds(i)
    BY <1>4, AttemptSays, SessionFacts DEF CloseFailed, Fits, SessionsFit
<1>5. ASSUME NEW c \in Calls, NEW counted \in BOOLEAN, Count(c, counted) PROVE SaysHolds(i)
    BY <1>2, <1>5, AttemptSays DEF Count, Fits, CallsFit
<1>6. CASE UNCHANGED vars BY <1>2, <1>6 DEF vars
<1> QED
  BY <1>1, <1>2, <1>3, <1>4, <1>5, <1>6, ReleaseSays, TransitionSays, RestartSays
  DEF Next, OfferByHand, Activate, Close, SetRoom, CallStep, Ask, Reply, Offer, OfferFails

\* No work says a hold that was lifted; a hold of the present step is told from the step that
\* places it, and only a failure counted late, which holds an earlier revision, takes the blocker
\* from it, for as long as no hold of the work is released; what is said of a revision the work
\* has left was placed just then, or is what a release left.
THEOREM HoldsAreSaidCorrect == Spec => HoldsAreSaid
<1> DEFINE Stands == \A i \in Instances : said[i] # None => said[i] \in HeldAt(i)
           Says == \A i \in Instances : SaysHolds(i)
<1>1. Fits => Stands BY DEF Fits, HoldsFit, SaidStands, HeldAt
<1>2. Fits /\ [Next]_vars => [Says]_vars BY StepSays
<1>3. Spec => []Stands BY <1>1, FitsAlways, PTL
<1>4. Spec => [][Says]_vars BY <1>2, FitsAlways, PTL DEF Spec
<1> QED BY <1>3, <1>4 DEF HoldsAreSaid, SaysHolds

-----------------------------------------------------------------------------
(* Dispatch keeps its promise.                                             *)

Workers == [t \in Steps |-> Worker(t)]
Failures == [t \in Steps |-> hold[t].attempts]
Held == {t \in Steps : hold[t].held}

\* The live session of a step, where it has one.
LEMMA WorkerFacts ==
    ASSUME SessionsFit, NEW t \in Steps
    PROVE  /\ WorkersAt(t) = {} => Worker(t) = None
           /\ \A n \in WorkersAt(t) : Worker(t) = n /\ n # None /\ WorkersAt(t) = {n}
<1>1. ASSUME WorkersAt(t) = {} PROVE Worker(t) = None BY <1>1 DEF Worker
<1>2. ASSUME NEW n \in WorkersAt(t) PROVE Worker(t) = n /\ n # None /\ WorkersAt(t) = {n}
  <2>1. n \in Made /\ n \in Nat BY SessionFacts DEF WorkersAt, SessionsFit
  <2>2. WorkersAt(t) = {n} BY DEF WorkersAt, SessionsFit, OneWorker
  <2>3. Min({n}) = n BY <2>1 DEF Min
  <2> QED BY <2>1, <2>2, <2>3, StepFacts DEF Worker
<1> QED BY <1>1, <1>2

\* A new session is the worker of its step, and of no other.
LEMMA Taken ==
    ASSUME Fits, SessionsFit', NEW q \in Requests, NEW t \in Steps, WorkersAt(t) = {},
           sessions' = Offered(q, t)
    PROVE  /\ Workers[t] = None /\ Len(sessions') = Len(sessions) + 1
           /\ Workers' = [Workers EXCEPT ![t] = Len(sessions')]
<1>0. SessionsFit BY DEF Fits
<1>n. PICK new \in Nat : new = Len(sessions')
    BY <1>0, OfferedFacts, SessionFacts DEF SessionsFit
<1>1. Made' = Made \cup {new} /\ new \notin Made /\ new = Len(sessions) + 1
      /\ \A n \in Made : sessions'[n] = sessions[n]
    BY <1>0, <1>n, OfferedFacts DEF SessionsFit
<1>2. sessions'[new] = [request |-> q, step |-> t, status |-> "offered"]
    BY <1>0, <1>n, OfferedFacts DEF SessionsFit
<1>3. Live(new)' /\ StepOf(new)' = t BY <1>2 DEF Live, StepOf
<1>4. WorkersAt(t)' = {new}
  <2>1. \A n \in Made : ~(Live(n)' /\ StepOf(n)' = t) BY <1>1 DEF WorkersAt, Live, StepOf
  <2> QED BY <1>1, <1>3, <2>1 DEF WorkersAt
<1>5. \A u \in Steps : u # t => WorkersAt(u)' = WorkersAt(u)
  <2> TAKE u \in Steps
  <2>1. \A n \in Made : Live(n)' = Live(n) /\ StepOf(n)' = StepOf(n) BY <1>1 DEF Live, StepOf
  <2> QED BY <1>1, <1>3, <2>1 DEF WorkersAt
<1>6. Worker(t) = None BY <1>0, WorkerFacts
<1>7. Worker(t)' = new
  <2>1. Min({new}) = new BY DEF Min
  <2> QED BY <1>4, <2>1 DEF Worker
<1>8. \A u \in Steps : u # t => Worker(u)' = Worker(u) BY <1>5 DEF Worker
<1> QED BY <1>n, <1>1, <1>6, <1>7, <1>8 DEF Workers

\* A session that closes leaves its step to none.
LEMMA Left ==
    ASSUME Fits, NEW n \in Made, Live(n), sessions' = Closed(n)
    PROVE  /\ Len(sessions') = Len(sessions) /\ StepOf(n) \in Steps
           /\ Workers' = [t \in Steps |-> IF t \in {StepOf(n)} THEN None ELSE Workers[t]]
<1>0. SessionsFit BY DEF Fits
<1>1. Made' = Made /\ Len(sessions') = Len(sessions) /\ ~Live(n)'
      /\ \A m \in Made : sessions'[m].step = sessions[m].step /\ (m # n => sessions'[m] = sessions[m])
    BY <1>0, StatusKept DEF Closed, SessionsFit, Kept, Live
<1>2. PICK step \in Steps : step = StepOf(n) BY <1>0, SessionFacts DEF SessionsFit
<1>3. WorkersAt(step) = {n} BY <1>0, <1>2, WorkerFacts DEF WorkersAt
<1>4. WorkersAt(step)' = {} BY <1>1, <1>3 DEF WorkersAt, Live, StepOf
<1>5. \A t \in Steps : t # step => WorkersAt(t)' = WorkersAt(t)
    BY <1>1, <1>2 DEF WorkersAt, Live, StepOf
<1>6. Worker(step)' = None BY <1>4 DEF Worker
<1>7. \A t \in Steps : t # step => Worker(t)' = Worker(t) BY <1>5 DEF Worker
<1>8. \A t \in Steps : Worker(t)' = IF t \in {step} THEN None ELSE Workers[t]
    BY <1>6, <1>7 DEF Workers
<1>9. Workers' = [t \in Steps |-> Worker(t)'] BY DEF Workers
<1> QED BY <1>1, <1>2, <1>8, <1>9

\* Nothing else changes the workers.
LEMMA SameWorkers ==
    ASSUME Made' = Made, \A n \in Made : StepOf(n)' = StepOf(n) /\ Live(n)' = Live(n)
    PROVE  Workers' = Workers
<1>1. \A t \in Steps : WorkersAt(t)' = WorkersAt(t) BY DEF WorkersAt
<1> QED BY <1>1 DEF Workers, Worker

\* A failure counted is one of the promise's.
LEMMA Failed ==
    ASSUME Fits, NEW t \in Steps, NEW again \in BOOLEAN, Attempt(t, again)
    PROVE  /\ Failures' = [Failures EXCEPT ![t] = IF @ < MaxFailures THEN @ + 1 ELSE MaxFailures]
           /\ \/ Held' = Held /\ (Failures'[t] = MaxFailures => t \in Held)
              \/ Held' = Held \cup {t} /\ (Failures'[t] = MaxFailures \/ Failures[t] > 0)
<1>1. hold \in HoldRows /\ hold[t] \in [attempts : 0..MaxFailures, held : BOOLEAN]
    BY DEF Fits, HoldsFit, HoldRows
<1> DEFINE row == Attempted(hold[t], again)
           n == hold[t].attempts
<1>2. row.attempts = (IF n < MaxFailures THEN n + 1 ELSE MaxFailures)
      /\ (row.held <=> (hold[t].held \/ n + 1 >= MaxFailures \/ (again /\ n > 0)))
    BY DEF Attempted
<1>3. n \in Nat /\ n <= MaxFailures /\ MaxFailures \in Nat BY <1>1, DispatchAssumption
<1>4. hold' = [hold EXCEPT ![t] = row] BY DEF Attempt
<1> HIDE DEF row
<1>5. hold'[t] = row /\ \A u \in Steps : u # t => hold'[u] = hold[u] BY <1>1, <1>4 DEF HoldRows
<1>6. Failures' = [Failures EXCEPT ![t] = IF @ < MaxFailures THEN @ + 1 ELSE MaxFailures]
    BY <1>2, <1>5 DEF Failures
<1>7. Failures[t] = n /\ Failures'[t] = row.attempts BY <1>5 DEF Failures
<1>8. CASE row.held /\ ~hold[t].held
  <2>1. Held' = Held \cup {t} BY <1>5, <1>8 DEF Held
  <2>2. row.attempts = MaxFailures \/ n > 0 BY <1>2, <1>3, <1>8
  <2> QED BY <1>6, <1>7, <2>1, <2>2
<1>9. CASE ~(row.held /\ ~hold[t].held)
  <2>1. hold[t].held => row.held BY <1>2
  <2>2. Held' = Held BY <1>5, <1>9, <2>1 DEF Held
  <2>3. row.attempts = MaxFailures => t \in Held BY <1>2, <1>3, <1>9 DEF Held
  <2> QED BY <1>6, <1>7, <2>2, <2>3
<1> QED BY <1>8, <1>9

LEMMA ReleaseWorks ==
    ASSUME Fits, NEW t \in Steps, ReleaseHold(t)
    PROVE  Failures' = [Failures EXCEPT ![t] = 0] /\ Held' = Held \ {t}
<1>1. hold' = [hold EXCEPT ![t] = NoHold] /\ hold \in HoldRows BY DEF ReleaseHold, Fits, HoldsFit
<1>2. hold'[t] = NoHold /\ \A u \in Steps : u # t => hold'[u] = hold[u] BY <1>1 DEF HoldRows
<1>3. hold'[t].attempts = 0 /\ ~hold'[t].held BY <1>2 DEF NoHold
<1> QED BY <1>2, <1>3 DEF Failures, Held

LEMMA AfreshWorks == Afresh => Failures' = [t \in Steps |-> 0] /\ Held' = {}
BY DEF Afresh, Failures, Held, NoHold

\* Each step answers, offers by hand, fails, ends, releases or switches, or changes nothing
\* promised.
LEMMA StepKeeps ==
    ASSUME Fits, Fits', [Next]_vars
    PROVE  P!Keep \/ UNCHANGED P!vars
<1> USE DEF P!Keep, P!vars
<1>0. sessions \in Seq(SessionRow) /\ hold \in HoldRows BY DEF Fits, SessionsFit, HoldsFit
<1>h. ASSUME UNCHANGED hold PROVE Failures' = Failures /\ Held' = Held BY <1>h DEF Failures, Held
<1>s. ASSUME UNCHANGED sessions PROVE Workers' = Workers BY <1>s DEF Workers, Worker, WorkersAt, Live, StepOf, Made
<1>1. ASSUME UNCHANGED <<sessions, receipt, hold, enabled>> PROVE UNCHANGED P!vars
    BY <1>1, <1>h, <1>s DEF Workers, Failures, Held
<1>2. ASSUME NEW q \in Requests, NEW t \in Steps, OfferByHand(q, t) PROVE P!ByHand(t)
    BY <1>2, <1>h, Taken DEF OfferByHand, Fits, P!ByHand, P!Takes, Workers, Failures, Held
<1>3. ASSUME NEW c \in Calls, Offer(c) PROVE P!Keep
  <2>1. PICK t \in Candidates(call[c].skipped) : sessions' = Offered(call[c].request, t) BY <1>3 DEF Offer
  <2>2. t \in Steps /\ WorkersAt(t) = {} /\ t \notin Held BY <2>1 DEF Candidates, Held
  <2>3. call[c].request \in Requests BY <1>3 DEF Offer, Fits, CallsFit
  <2>4. receipt[call[c].request] = None /\ enabled BY <1>3 DEF Offer, Open
  <2>5. receipt' = [receipt EXCEPT ![call[c].request] = Len(sessions')] /\ UNCHANGED <<hold, enabled>>
      BY <1>3 DEF Offer
  <2>6. P!Answer(call[c].request, t)
      BY <1>h, <2>1, <2>2, <2>3, <2>4, <2>5, Taken
      DEF Fits, P!Answer, P!Takes, Workers, Failures, Held
  <2> QED BY <2>2, <2>3, <2>6
<1>4. ASSUME NEW n \in Made, Activate(n) PROVE UNCHANGED P!vars
  <2>1. sessions' = [sessions EXCEPT ![n].status = "active"] /\ UNCHANGED <<receipt, hold, enabled>>
        /\ sessions[n].status = "offered"
      BY <1>4 DEF Activate
  <2>2. /\ Len(sessions') = Len(sessions) /\ Made' = Made /\ sessions'[n].status = "active"
        /\ \A m \in Made : sessions'[m].step = sessions[m].step /\ (m # n => sessions'[m] = sessions[m])
      BY <1>0, <2>1, StatusKept DEF Kept, Live
  <2>3. \A m \in Made : StepOf(m)' = StepOf(m) /\ Live(m)' = Live(m) BY <2>1, <2>2 DEF Live, StepOf
  <2>4. Workers' = Workers BY <2>2, <2>3, SameWorkers
  <2> QED BY <1>h, <2>1, <2>2, <2>4 DEF Workers, Failures, Held
<1>5. ASSUME NEW n \in Made, Close(n) PROVE P!End
  <2>1. Live(n) /\ sessions' = Closed(n) /\ UNCHANGED <<receipt, hold, enabled>> BY <1>5 DEF Close
  <2>2. {StepOf(n)} \in SUBSET Steps BY <2>1, Left
  <2> QED BY <1>h, <2>1, <2>2, Left DEF P!End, P!Ended, Workers, Failures, Held
<1>6. ASSUME NEW n \in Made, NEW again \in BOOLEAN, CloseFailed(n, again) PROVE P!Keep
  <2>1. Live(n) /\ sessions' = Closed(n) /\ Attempt(StepOf(n), again) /\ UNCHANGED <<receipt, enabled>>
      BY <1>6 DEF CloseFailed
  <2>2. PICK t \in Steps : t = StepOf(n) BY <2>1, Left
  <2>3. Attempt(t, again) BY <2>1, <2>2 DEF Attempt
  <2>4. P!Fail(t) BY <2>1, <2>2, <2>3, Left, Failed DEF P!Fail, P!Ended, Workers, Failures, Held
  <2> QED BY <2>4
<1>7. ASSUME NEW c \in Calls, NEW counted \in BOOLEAN, Count(c, counted) PROVE P!Keep \/ UNCHANGED P!vars
  <2>1. CASE ~counted BY <1>1, <1>7, <2>1 DEF Count
  <2>2. CASE counted
    <3>1. PICK t \in Steps : t = call[c].target BY <1>7 DEF Count, Fits, CallsFit
    <3>2. Attempt(t, FALSE) /\ UNCHANGED <<sessions, receipt, enabled>>
        BY <1>7, <2>2, <3>1 DEF Count, Attempt
    <3>3. P!Fail(t) BY <1>s, <3>2, Failed DEF P!Fail, P!Ended, Workers, Failures, Held
    <3> QED BY <3>3
  <2> QED BY <2>1, <2>2
<1>8. ASSUME NEW t \in Steps, ReleaseHold(t) PROVE P!GoAhead(t)
    BY <1>8, <1>s, ReleaseWorks DEF ReleaseHold, P!GoAhead, Workers, Failures, Held
<1>9. ASSUME SetDispatch PROVE P!Switch
    BY <1>9, <1>s, AfreshWorks DEF SetDispatch, P!Switch, Workers, Failures, Held
<1>10. ASSUME Halt PROVE P!Switch \/ P!End
  <2>1. sessions' = [n \in Made |-> [sessions[n] EXCEPT !.status = "closed"]] /\ UNCHANGED receipt
      BY <1>10 DEF Halt
  <2>2. Made = 1..Len(sessions) /\ Len(sessions) \in Nat BY <1>0, SessionFacts
  <2>3. \A n \in Made : [sessions[n] EXCEPT !.status = "closed"] \in SessionRow
      BY <1>0, SessionFacts DEF SessionRow
  <2>4. Len(sessions') = Len(sessions) /\ Made' = Made BY <2>1, <2>2, <2>3 DEF Made
  <2>5. \A n \in Made : ~Live(n)'
    <3>1. \A n \in Made : sessions'[n].status = "closed" BY <1>0, <2>1, SessionFacts DEF SessionRow
    <3> QED BY <3>1 DEF Live
  <2>6. \A t \in Steps : Worker(t)' = None BY <2>4, <2>5 DEF Worker, WorkersAt
  <2>7. Workers' = [t \in Steps |-> IF t \in Steps THEN None ELSE Workers[t]] BY <2>6 DEF Workers
  <2>8. CASE enabled
    <3>1. enabled' = ~enabled /\ Afresh BY <1>10, <2>8 DEF Halt
    <3> QED BY <2>1, <2>4, <2>7, <3>1, AfreshWorks DEF P!Switch, P!Ended, Workers, Failures, Held
  <2>9. CASE ~enabled
    <3>1. enabled' = enabled /\ UNCHANGED hold BY <1>10, <2>9 DEF Halt, Fits, OtherTypes
    <3>2. Steps \in SUBSET Steps OBVIOUS
    <3> QED BY <1>h, <2>1, <2>4, <2>7, <3>1, <3>2 DEF P!End, P!Ended, Workers, Failures, Held
  <2> QED BY <2>8, <2>9
<1>11. CASE UNCHANGED vars BY <1>1, <1>11 DEF vars
<1> QED
  BY <1>1, <1>2, <1>3, <1>4, <1>5, <1>6, <1>7, <1>8, <1>9, <1>10, <1>11
  DEF Next, Restart, Transition, SetRoom, CallStep, Ask, Reply, OfferFails

\* However requests are repeated and calls overlap, whatever fails and is counted when, a request
\* is answered with one session, a step has one worker, and one that failed too often is offered
\* by hand only until somebody gives the word.
THEOREM DispatchKeepsPromise == Spec => KeepsPromise
<1>1. Init => P!Start
  <2> SUFFICES ASSUME Init PROVE P!Start OBVIOUS
  <2>1. \A t \in Steps : Worker(t) = None BY DEF Init, Worker, WorkersAt, Made
  <2> QED BY <2>1 DEF Init, P!Start, NoHold
<1>2. Fits /\ Fits' /\ [Next]_vars => [P!Keep]_(P!vars) BY StepKeeps
<1> QED BY <1>1, <1>2, FitsAlways, PTL DEF Spec, KeepsPromise, P!Promise

-----------------------------------------------------------------------------
(* One session for a request.  A step leaves the sessions there are with    *)
(* their requests and adds at most one, of a request that has none.        *)

\* A session keeps its request and its step, and a closed one is never opened again.
SessionStands(n) ==
    /\ n \in Made'
    /\ sessions'[n].request = sessions[n].request
    /\ sessions'[n].step = sessions[n].step
    /\ ~Live(n) => sessions'[n] = sessions[n]

SessionsStand == [][\A n \in Made : SessionStands(n)]_vars

\* A request has one session, made by hand or for the runner that asked, and its receipt is of it.
OneForRequest ==
    /\ \A n, m \in Made : sessions[n].request = sessions[m].request => n = m
    /\ \A q \in Requests :
         receipt[q] # None => receipt[q] \in Made /\ sessions[receipt[q]].request = q

\* A step that failed as often as is allowed waits for a person.
HeldAtCap == \A t \in Steps : hold[t].attempts = MaxFailures => hold[t].held

\* No session is new, or the next one is, and only its request has a new receipt.
NoneMade == Made' = Made /\ UNCHANGED receipt
OneMade(q) ==
    /\ ~Asked(q)
    /\ Made' = Made \cup {Len(sessions')} /\ Len(sessions') \notin Made
    /\ sessions'[Len(sessions')].request = q
    /\ receipt' = receipt \/ receipt' = [receipt EXCEPT ![q] = Len(sessions')]

SessionsGo ==
    /\ \A n \in Made : SessionStands(n)
    /\ NoneMade \/ \E q \in Requests : OneMade(q)

\* A change of one status.
LEMMA StatusStands ==
    ASSUME sessions \in Seq(SessionRow), NEW n \in Made, NEW to \in {"active", "closed"}, Live(n),
           sessions' = [sessions EXCEPT ![n].status = to], UNCHANGED receipt
    PROVE  SessionsGo
<1>1. Made' = Made /\ \A m \in Made : m # n => sessions'[m] = sessions[m] BY StatusKept DEF Kept
<1>2. sessions[n] \in SessionRow BY SessionFacts
<1>3. sessions'[n] = [sessions[n] EXCEPT !.status = to] BY DEF Made
<1>4. SessionStands(n) BY <1>1, <1>2, <1>3 DEF SessionStands, SessionRow
<1> QED BY <1>1, <1>4 DEF SessionsGo, SessionStands, NoneMade

LEMMA SessionsGoOn == ASSUME Fits, [Next]_vars PROVE SessionsGo
<1>0. sessions \in Seq(SessionRow) BY DEF Fits, SessionsFit
<1>1. ASSUME UNCHANGED <<sessions, receipt>> PROVE SessionsGo
    BY <1>1 DEF SessionsGo, SessionStands, NoneMade, Made
<1>2. ASSUME NEW q \in Requests, NEW t \in Steps, sessions' = Offered(q, t), ~Asked(q),
             receipt' = receipt \/ receipt' = [receipt EXCEPT ![q] = Len(sessions')]
      PROVE  SessionsGo
  <2>1. /\ Made' = Made \cup {Len(sessions')} /\ Len(sessions') \notin Made
        /\ \A n \in Made : sessions'[n] = sessions[n]
        /\ sessions'[Len(sessions')] = [request |-> q, step |-> t, status |-> "offered"]
      BY <1>0, <1>2, OfferedFacts
  <2>2. sessions'[Len(sessions')].request = q BY <2>1
  <2>3. OneMade(q) BY <1>2, <2>1, <2>2 DEF OneMade
  <2> QED BY <2>1, <2>3 DEF SessionsGo, SessionStands
<1>3. ASSUME NEW q \in Requests, NEW t \in Steps, OfferByHand(q, t) PROVE SessionsGo
    BY <1>2, <1>3 DEF OfferByHand
<1>4. ASSUME NEW c \in Calls, Offer(c) PROVE SessionsGo
  <2>1. call[c].request \in Requests /\ ~Asked(call[c].request)
      BY <1>4 DEF Offer, Open, Fits, CallsFit
  <2>2. PICK t \in Steps : sessions' = Offered(call[c].request, t) BY <1>4 DEF Offer, Candidates
  <2>3. receipt' = [receipt EXCEPT ![call[c].request] = Len(sessions')] BY <1>4 DEF Offer
  <2> QED BY <1>2, <2>1, <2>2, <2>3
<1>5. ASSUME NEW n \in Made, Activate(n) PROVE SessionsGo
    BY <1>0, <1>5, StatusStands DEF Activate, Live
<1>6. ASSUME NEW n \in Made, Close(n) \/ \E again \in BOOLEAN : CloseFailed(n, again) PROVE SessionsGo
    BY <1>0, <1>6, StatusStands DEF Close, CloseFailed, Closed
<1>7. ASSUME Halt PROVE SessionsGo
  <2>1. sessions' = [n \in Made |-> [sessions[n] EXCEPT !.status = "closed"]] /\ UNCHANGED receipt
      BY <1>7 DEF Halt
  <2>2. Made' = Made BY <2>1 DEF Made
  <2>3. ASSUME NEW n \in Made PROVE SessionStands(n)
    <3>1. sessions[n] \in SessionRow BY <1>0, SessionFacts
    <3>2. sessions'[n] = [sessions[n] EXCEPT !.status = "closed"] BY <2>1
    <3> QED BY <2>2, <3>1, <3>2 DEF SessionStands, SessionRow, Live
  <2> QED BY <2>1, <2>2, <2>3 DEF SessionsGo, NoneMade
<1>8. CASE UNCHANGED vars BY <1>1, <1>8 DEF vars
<1> QED
  BY <1>1, <1>3, <1>4, <1>5, <1>6, <1>7, <1>8
  DEF Next, ReleaseHold, SetDispatch, Restart, Transition, SetRoom, CallStep, Ask, Reply, OfferFails, Count

\* A session keeps its request and its step, and once closed it stays as it is: a late report, a
\* repeated request or a halt opens none again (leaseOnce and closeSession of packages/sessions).
THEOREM SessionsAreFinal == Spec => SessionsStand
<1>1. Fits /\ [Next]_vars => [\A n \in Made : SessionStands(n)]_vars BY SessionsGoOn DEF SessionsGo
<1> QED BY <1>1, FitsAlways, PTL DEF Spec, SessionsStand

LEMMA OneForRequestStep ==
    ASSUME Fits, OneForRequest, [Next]_vars
    PROVE  OneForRequest'
<1>1. SessionsGo BY SessionsGoOn
<1>2. \A n \in Made : n \in Made' /\ sessions'[n].request = sessions[n].request
    BY <1>1 DEF SessionsGo, SessionStands
<1>3. CASE NoneMade BY <1>2, <1>3 DEF NoneMade, OneForRequest
<1>4. ASSUME NEW q \in Requests, OneMade(q) PROVE OneForRequest'
  <2> DEFINE new == Len(sessions')
  <2>1. Made' = Made \cup {new} /\ new \notin Made /\ sessions'[new].request = q BY <1>4 DEF OneMade
  <2>2. \A n \in Made : sessions[n].request # q BY <1>4 DEF OneMade, Asked
  <2> HIDE DEF new
  <2>3. \A n, m \in Made' : sessions'[n].request = sessions'[m].request => n = m
      BY <1>2, <2>1, <2>2 DEF OneForRequest
  <2>4. ASSUME NEW p \in Requests, receipt'[p] # None
        PROVE  receipt'[p] \in Made' /\ sessions'[receipt'[p]].request = p
    <3>1. receipt \in [Requests -> Nat \cup {None}] BY DEF Fits, OtherTypes
    <3>2. receipt' = receipt \/ receipt' = [receipt EXCEPT ![q] = new] BY <1>4 DEF OneMade, new
    <3>3. CASE receipt'[p] = receipt[p] BY <1>2, <2>4, <3>3 DEF OneForRequest
    <3>4. CASE p = q /\ receipt'[p] = new BY <2>1, <3>4
    <3> QED BY <3>1, <3>2, <3>3, <3>4
  <2> QED BY <2>3, <2>4 DEF OneForRequest
<1> QED BY <1>1, <1>3, <1>4 DEF SessionsGo

\* However often a request is repeated, over however many calls at a time and restarts, and
\* whether its first session was offered by hand or automatically, it has one session, and its
\* receipt names that one (leaseOnce and offer of packages/sessions).
THEOREM RequestsHaveOne == Spec => []OneForRequest
<1>1. Init => OneForRequest BY DEF Init, OneForRequest, Made
<1>2. Fits /\ OneForRequest /\ [Next]_vars => OneForRequest' BY OneForRequestStep
<1> QED BY <1>1, <1>2, FitsAlways, PTL DEF Spec

LEMMA HeldAtCapStep ==
    ASSUME Fits, HeldAtCap, [Next]_vars
    PROVE  HeldAtCap'
<1>0. MaxFailures \in Nat \ {0} BY DispatchAssumption
<1>1. hold \in HoldRows BY DEF Fits, HoldsFit
<1>2. ASSUME UNCHANGED hold PROVE HeldAtCap' BY <1>2 DEF HeldAtCap
<1>3. ASSUME Afresh PROVE HeldAtCap' BY <1>0, <1>3 DEF Afresh, HeldAtCap, NoHold
<1>4. ASSUME NEW t \in Steps, NEW again \in BOOLEAN, Attempt(t, again) PROVE HeldAtCap'
  <2> DEFINE row == Attempted(hold[t], again)
  <2>1. hold[t].attempts \in 0..MaxFailures BY <1>1 DEF HoldRows
  <2>2. /\ row.attempts = IF hold[t].attempts < MaxFailures THEN hold[t].attempts + 1 ELSE MaxFailures
        /\ row.held <=> (hold[t].held \/ hold[t].attempts + 1 >= MaxFailures \/ (again /\ hold[t].attempts > 0))
      BY DEF Attempted
  <2>3. row.attempts = MaxFailures => hold[t].attempts + 1 >= MaxFailures BY <1>0, <2>1, <2>2
  <2>4. row.attempts = MaxFailures => row.held BY <2>2, <2>3
  <2>5. hold' = [hold EXCEPT ![t] = row] BY <1>4 DEF Attempt
  <2> HIDE DEF row
  <2>6. hold'[t] = row /\ \A u \in Steps : u # t => hold'[u] = hold[u] BY <1>1, <2>5 DEF HoldRows
  <2> QED BY <2>4, <2>6 DEF HeldAtCap
<1>5. ASSUME NEW t \in Steps, ReleaseHold(t) PROVE HeldAtCap'
  <2>1. hold' = [hold EXCEPT ![t] = NoHold] BY <1>5 DEF ReleaseHold
  <2>2. hold'[t] = NoHold /\ \A u \in Steps : u # t => hold'[u] = hold[u] BY <1>1, <2>1 DEF HoldRows
  <2> QED BY <1>0, <2>2 DEF HeldAtCap, NoHold
<1>6. ASSUME NEW n \in Made, NEW again \in BOOLEAN, CloseFailed(n, again) PROVE HeldAtCap'
  <2>1. PICK t \in Steps : t = StepOf(n) BY SessionFacts DEF Fits, SessionsFit
  <2>2. Attempt(t, again) BY <1>6, <2>1 DEF CloseFailed, Attempt
  <2> QED BY <1>4, <2>2
<1>7. ASSUME NEW c \in Calls, NEW counted \in BOOLEAN, Count(c, counted) PROVE HeldAtCap'
  <2>1. CASE ~counted BY <1>2, <1>7, <2>1 DEF Count
  <2>2. CASE counted
    <3>1. PICK t \in Steps : t = call[c].target BY <1>7 DEF Count, Fits, CallsFit
    <3>2. Attempt(t, FALSE) BY <1>7, <2>2, <3>1 DEF Count, Attempt
    <3> QED BY <1>4, <3>2
  <2> QED BY <2>1, <2>2
<1>8. ASSUME SetDispatch \/ Halt PROVE HeldAtCap'
  <2>1. Afresh \/ UNCHANGED hold BY <1>8 DEF SetDispatch, Halt
  <2> QED BY <1>2, <1>3, <2>1
<1>9. CASE UNCHANGED vars BY <1>2, <1>9 DEF vars
<1> QED
  BY <1>2, <1>5, <1>6, <1>7, <1>8, <1>9
  DEF Next, Restart, Transition, OfferByHand, Activate, Close, SetRoom, CallStep, Ask, Reply, Offer, OfferFails

\* Whoever counts the failures of a step, calls that could not offer it and sessions that ended,
\* in whatever order, a step that reached the cap is held (attempt of packages/sessions).
THEOREM CapHolds == Spec => []HeldAtCap
<1>1. Init => HeldAtCap BY DispatchAssumption DEF Init, HeldAtCap, NoHold
<1>2. Fits /\ HeldAtCap /\ [Next]_vars => HeldAtCap' BY HeldAtCapStep
<1> QED BY <1>1, <1>2, FitsAlways, PTL DEF Spec
=============================================================================

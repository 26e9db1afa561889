------------------------------- MODULE Dispatch -------------------------------
(***************************************************************************)
(* Automatic dispatch (packages/sessions, dispatch.ts): a runner asks for  *)
(* work with a request it may repeat; the server looks for a step under a  *)
(* snapshot, decides again as the writer, and passes over the steps whose  *)
(* offer cannot be built, counting each such failure in a transaction of   *)
(* its own.  A step that failed too often is held, said on its work, and   *)
(* waits for a person.                                                     *)
(*                                                                         *)
(* One project, one owner of runners.  Time is left out: a runner may be   *)
(* away, a failed step may still be backing off, a budget or a question    *)
(* may withhold any step, so a request may always be answered with         *)
(* nothing.  Rented machines and inquiries are left out.                   *)
(***************************************************************************)
EXTENDS Naturals, Sequences, FiniteSets, FiniteSetsExt

CONSTANTS
    Instances,      \* work
    Runners,        \* machines of one owner
    Requests,       \* request ids, each of one runner
    RunnerOf,       \* whose
    Calls,          \* lease calls a server runs at a time
    None,
    MaxRevision,    \* bound: revisions of an instance
    MaxSessions,    \* bound: sessions
    MaxRoom,        \* bound: jobs a runner takes at a time
    MaxFailures     \* maxLaunchFailures

ASSUME DispatchAssumption ==
    /\ MaxRevision \in Nat /\ MaxSessions \in Nat /\ MaxRoom \in Nat /\ MaxFailures \in Nat \ {0}
    /\ RunnerOf \in [Requests -> Runners] /\ None \notin Requests \cup Nat \cup (Instances \X Nat)

Revisions == 0..MaxRevision
Steps == Instances \X Revisions

VARIABLES
    work,           \* wf_instances: revision, whether ended
    sessions,       \* worker_sessions, in the order they were made
    receipt,        \* session_dispatch_receipts, by request
    hold,           \* session_dispatch_holds, by step
    said,           \* the revision the launch_held blocker of an instance names
    enabled,        \* project_session_dispatch
    room,           \* each runner's capacity as it last said, 0 while it may take nothing
    call            \* each lease call: its request, where it stands, the steps it passed over

vars == <<work, sessions, receipt, hold, said, enabled, room, call>>

Idle == [request |-> None, phase |-> "idle", skipped |-> {}, target |-> None]
NoHold == [attempts |-> 0, held |-> FALSE]

Init ==
    /\ work = [i \in Instances |-> [revision |-> 0, ended |-> FALSE]]
    /\ sessions = <<>>
    /\ receipt = [q \in Requests |-> None]
    /\ hold = [t \in Steps |-> NoHold]
    /\ said = [i \in Instances |-> None]
    /\ enabled \in BOOLEAN
    /\ room = [r \in Runners |-> 0]
    /\ call = [c \in Calls |-> Idle]

At(t) == work[t[1]].revision = t[2] /\ ~work[t[1]].ended
Made == DOMAIN sessions
StepOf(n) == sessions[n].step
Live(n) == sessions[n].status \in {"offered", "active"}
WorkersAt(t) == {n \in Made : Live(n) /\ StepOf(n) = t}
Asked(q) == \E n \in Made : sessions[n].request = q

-----------------------------------------------------------------------------
(* Holds.                                                                  *)

\* The counter of attempt(); what it counts past the cap tells nothing apart.  An agent that
\* stopped without a handoff twice running is held before the cap; whether both did is left open.
Attempted(old, again) ==
    [attempts |-> IF old.attempts < MaxFailures THEN old.attempts + 1 ELSE MaxFailures,
     held |-> old.held \/ old.attempts + 1 >= MaxFailures \/ (again /\ old.attempts > 0)]

\* attempt(): the failure that holds the step says so on its work.
Attempt(t, again) ==
    /\ hold' = [hold EXCEPT ![t] = Attempted(hold[t], again)]
    /\ said' = IF hold'[t].held /\ ~hold[t].held THEN [said EXCEPT ![t[1]] = t[2]] ELSE said

HeldAt(i) == {r \in Revisions : hold[<<i, r>>].held}

\* mutant: a release withdraws whatever is said of the work
Mutant_Standing(revisions) == None

\* The hold a release leaves to be said: that of the latest revision.
Standing(revisions) == IF revisions = {} THEN None ELSE Max(revisions)

\* releaseHold(): a person's word for one step.
ReleaseHold(t) ==
    /\ hold[t].held /\ t[2] <= work[t[1]].revision
    /\ hold' = [hold EXCEPT ![t] = NoHold]
    /\ said' = [said EXCEPT ![t[1]] = Standing(HeldAt(t[1]) \ {t[2]})]
    /\ UNCHANGED <<work, sessions, receipt, enabled, room, call>>

\* What the switch does when it changes: every count starts afresh.
Afresh ==
    /\ hold' = [t \in Steps |-> NoHold]
    /\ said' = [i \in Instances |-> IF HeldAt(i) # {} THEN None ELSE said[i]]

SetDispatch ==
    /\ enabled' = ~enabled
    /\ Afresh
    /\ UNCHANGED <<work, sessions, receipt, room, call>>

-----------------------------------------------------------------------------
(* Work and its sessions.                                                  *)

\* Anybody's transition of an instance; at its end its blockers are cleared.
Transition(i, ends) ==
    /\ ~work[i].ended /\ work[i].revision < MaxRevision
    /\ work' = [work EXCEPT ![i] = [revision |-> @.revision + 1, ended |-> ends]]
    /\ said' = IF ends THEN [said EXCEPT ![i] = None] ELSE said
    /\ UNCHANGED <<sessions, receipt, hold, enabled, room, call>>

Offered(q, t) == Append(sessions, [request |-> q, step |-> t, status |-> "offered"])

\* offer(): a person's own, of any step with no live session; a request is used once.
OfferByHand(q, t) ==
    /\ At(t) /\ WorkersAt(t) = {} /\ ~Asked(q) /\ Len(sessions) < MaxSessions
    /\ sessions' = Offered(q, t)
    /\ UNCHANGED <<work, receipt, hold, said, enabled, room, call>>

Activate(n) ==
    /\ sessions[n].status = "offered" /\ At(StepOf(n))
    /\ sessions' = [sessions EXCEPT ![n].status = "active"]
    /\ UNCHANGED <<work, receipt, hold, said, enabled, room, call>>

Closed(n) == [sessions EXCEPT ![n].status = "closed"]

\* closeSession() as a failure: the runner says so while the work stands, or its time ran out (of
\* an offer no process took, of one review visit too many), wherever the work is by then.
CloseFailed(n, again) ==
    /\ Live(n)
    /\ At(StepOf(n)) \/ ~again
    /\ sessions' = Closed(n)
    /\ Attempt(StepOf(n), again)
    /\ UNCHANGED <<work, receipt, enabled, room, call>>

\* closeSession() for any other reason: a handoff, a deadline, a refusal, one halted session.
Close(n) ==
    /\ Live(n)
    /\ sessions' = Closed(n)
    /\ UNCHANGED <<work, receipt, hold, said, enabled, room, call>>

\* halt() of the project: the switch goes off and every live session is closed.
Halt ==
    /\ enabled' = FALSE
    /\ IF enabled THEN Afresh ELSE UNCHANGED <<hold, said>>
    /\ sessions' = [n \in Made |-> [sessions[n] EXCEPT !.status = "closed"]]
    /\ UNCHANGED <<work, receipt, room, call>>

SetRoom(r) ==
    /\ room' \in {[room EXCEPT ![r] = k] : k \in 0..MaxRoom}
    /\ UNCHANGED <<work, sessions, receipt, hold, said, enabled, call>>

-----------------------------------------------------------------------------
(* A lease call.                                                           *)

\* A runner asks, or asks again because no answer reached it.
Ask(c, q) ==
    /\ call[c] = Idle
    /\ call' = [call EXCEPT ![c] = [Idle EXCEPT !.request = q, !.phase = "asked"]]
    /\ UNCHANGED <<work, sessions, receipt, hold, said, enabled, room>>

\* admitRunner(): its live sessions, by hand or not, leave room.
Admitted(r) ==
    Cardinality({n \in Made : Live(n) /\ RunnerOf[sessions[n].request] = r}) < room[r]

\* mutant: only the snapshot looks for an answer
Mutant_Open(q) == enabled /\ Admitted(RunnerOf[q])

\* The request was not answered yet, is no offer's by hand, and may be given work.
Open(q) == receipt[q] = None /\ ~Asked(q) /\ enabled /\ Admitted(RunnerOf[q])

\* candidates() and eligibleCandidates(), less the steps this call passed over.
Candidates(skipped) ==
    {t \in Steps : At(t) /\ WorkersAt(t) = {} /\ ~hold[t].held /\ t \notin skipped}

\* Answered: with the session of its receipt, or with none for any reason; or refused.
Reply(c) ==
    /\ call[c].phase = "asked"
    /\ call' = [call EXCEPT ![c] = Idle]
    /\ UNCHANGED <<work, sessions, receipt, hold, said, enabled, room>>

\* leaseOnce(): an offer and its receipt.  A snapshot looks first; that it saw work is all that is
\* kept of it, and the writer decides again.
Offer(c) ==
    /\ call[c].phase = "asked"
    /\ Open(call[c].request) /\ Len(sessions) < MaxSessions
    /\ \E t \in Candidates(call[c].skipped) : sessions' = Offered(call[c].request, t)
    /\ receipt' = [receipt EXCEPT ![call[c].request] = Len(sessions')]
    /\ call' = [call EXCEPT ![c] = Idle]
    /\ UNCHANGED <<work, hold, said, enabled, room>>

\* An offer that cannot be built rolls back; most failures are counted next.
OfferFails(c) ==
    /\ call[c].phase = "asked" /\ Open(call[c].request)
    /\ \E t \in Candidates(call[c].skipped) :
        call' = [call EXCEPT ![c].phase = "counting", ![c].target = t]
    /\ UNCHANGED <<work, sessions, receipt, hold, said, enabled, room>>

\* mutant: the call forgets what it tried
Mutant_PassedOver(job) == [job EXCEPT !.phase = "asked", !.target = None]

\* The call goes on to the steps behind it.
PassedOver(job) == [job EXCEPT !.phase = "asked", !.target = None, !.skipped = @ \cup {job.target}]

\* poisoned(): one more failure of the step, wherever its work is by now; or none, for a wait, a
\* lost race, a refusal of who asked, or a server's fault.
Count(c, counted) ==
    /\ call[c].phase = "counting"
    /\ IF counted THEN Attempt(call[c].target, FALSE) ELSE UNCHANGED <<hold, said>>
    /\ call' = [call EXCEPT ![c] = PassedOver(@)]
    /\ UNCHANGED <<work, sessions, receipt, enabled, room>>

\* The server dies with its calls; initialize() says the holds that stand and no other.
Restart ==
    /\ call' = [c \in Calls |-> Idle]
    /\ said' = [i \in Instances |->
                  IF HeldAt(i) = {} THEN said[i]
                  ELSE IF Max(HeldAt(i)) = work[i].revision THEN work[i].revision ELSE None]
    /\ UNCHANGED <<work, sessions, receipt, hold, enabled, room>>

-----------------------------------------------------------------------------
CallStep(c) ==
    Reply(c) \/ Offer(c) \/ OfferFails(c) \/ \E counted \in BOOLEAN : Count(c, counted)

Next ==
    \/ \E t \in Steps : ReleaseHold(t)
    \/ SetDispatch \/ Halt \/ Restart
    \/ \E i \in Instances, ends \in BOOLEAN : Transition(i, ends)
    \/ \E q \in Requests, t \in Steps : OfferByHand(q, t)
    \/ \E n \in Made : Activate(n) \/ Close(n) \/ \E again \in BOOLEAN : CloseFailed(n, again)
    \/ \E r \in Runners : SetRoom(r)
    \/ \E c \in Calls : CallStep(c) \/ \E q \in Requests : Ask(c, q)

\* A call runs on: its transactions end, one way or the other.
Fairness == \A c \in Calls : WF_vars(CallStep(c))

Spec == Init /\ [][Next]_vars /\ Fairness

-----------------------------------------------------------------------------
CallRecord ==
    [request : Requests \cup {None}, phase : {"idle", "asked", "counting"},
     skipped : SUBSET Steps, target : Steps \cup {None}]

TypeOK ==
    /\ work \in [Instances -> [revision : Revisions, ended : BOOLEAN]]
    /\ sessions \in Seq([request : Requests, step : Steps, status : {"offered", "active", "closed"}])
    /\ receipt \in [Requests -> Nat \cup {None}]
    /\ hold \in [Steps -> [attempts : 0..MaxFailures, held : BOOLEAN]]
    /\ said \in [Instances -> Revisions \cup {None}]
    /\ enabled \in BOOLEAN
    /\ room \in [Runners -> 0..MaxRoom]
    /\ call \in [Calls -> CallRecord]

\* The blocker of a hold is read only while the work stands at the revision it names.  Work is
\* untold where its present step is held and no person reads so.
Untold(i) == work[i].revision \in HeldAt(i) /\ said[i] # work[i].revision
Placed(i) == HeldAt(i)' \ HeldAt(i)
Lifted(i) == HeldAt(i) \ HeldAt(i)'

\* Holds of all the revisions of a work share one blocker.  It names no hold that was lifted.  A
\* hold of the present step is told from the step that places it, and loses the blocker only to a
\* failure counted late that holds an earlier revision; no release leaves it untold.  And what is
\* said of a revision the work has left is a hold placed just then, or what a release left.
HoldsAreSaid ==
    /\ [](\A i \in Instances : said[i] # None => said[i] \in HeldAt(i))
    /\ [][\A i \in Instances :
            /\ Untold(i)' => \/ said'[i] \in Placed(i)
                             \/ Untold(i) /\ UNCHANGED said[i] /\ Lifted(i) = {}
            /\ said'[i] \in {None, said[i], work'[i].revision} \cup Placed(i) \/ Lifted(i) # {}]_vars

\* Dispatch keeps the promise of DispatchPromise.
Worker(t) == IF WorkersAt(t) = {} THEN None ELSE Min(WorkersAt(t))
P == INSTANCE DispatchPromise WITH
        Cap <- MaxFailures,
        answer <- receipt,
        worker <- [t \in Steps |-> Worker(t)],
        made <- Len(sessions),
        failures <- [t \in Steps |-> hold[t].attempts],
        held <- {t \in Steps : hold[t].held},
        open <- enabled
KeepsPromise == P!Promise

\* Every call is answered in the end: a step whose offers can never be built, whether its
\* failures count or not, does not keep the runner from the queue behind it.
CallsEnd == \A c \in Calls : []<>(call[c] = Idle)
=============================================================================

----------------------------- MODULE WorkLeases -----------------------------
(***************************************************************************)
(* One native Git task (packages/tasks, version 46), the sessions its work *)
(* and its reviews are leased to (sessions, workflows), the claims on its  *)
(* reviews (reviews) and the memberships they rest on (scope).  An action  *)
(* is one committed transaction; what it leaves for later is an event that *)
(* a consumer of Reviews handles, one at a time and in order.              *)
(*                                                                         *)
(* A session's clock running out and the close it ends in are one step: a  *)
(* lapsed session is refused whatever it asks.  Bundles, packets, evidence *)
(* and what Code wants of a commit are left out: they only refuse.         *)
(***************************************************************************)
EXTENDS Naturals, Sequences, FiniteSets

CONSTANTS
    People,         \* human members
    Owner,          \* who created the task: its row's producer_id
    StartRole,      \* the role each person starts with
    Movable,        \* bound: the members whose role changes
    NewRoles,       \* bound: the roles they are given; none: they are removed
    Nobody,         \* no reviewer
    Rounds,         \* TASK_LIMITS.reviewRounds
    MaxSessions,    \* bound: offers of the task
    MaxDeliveries,  \* bound: deliveries, and so reviews
    MaxClaims,      \* bound: claims on a review, when a person makes another
    Spent,          \* the rounds used up before the instance begins
    MaxTurns        \* bound: changes of membership, rounds granted, threads the sweep retires
                    \* and closes while the program is not loaded, together

Sessions == 1..MaxSessions      \* a thread and its actor bear the number of the session that opened them
Deliveries == 1..MaxDeliveries  \* a review bears the number of its delivery
Actors == People \cup Sessions
Roles == {"operator", "producer", "reviewer"}

ASSUME LeaseAssumption ==
    /\ Owner \in People
    /\ StartRole \in [People -> Roles]
    /\ Movable \subseteq People /\ NewRoles \subseteq Roles \cup {"none"}
    /\ People \cap Sessions = {}
    /\ Nobody \notin Actors
    /\ Rounds \in Nat /\ MaxSessions \in Nat /\ MaxDeliveries \in Nat
    /\ MaxClaims \in Nat /\ MaxTurns \in Nat
    /\ Spent \in 0..Rounds

VARIABLES
    task,           \* state, current review (0: none), rounds used and allowed
    movers,         \* wf_history: who made each move; their number is the revision
    reviews,        \* the requests; claim is the generation, since the event it was made at
    sess,           \* worker_sessions: status, actor, source and its membership, step, role
    lease,          \* wf_leases by session: whether it is live, and the claim it names
    thread,         \* session_threads: status and continuity key; a kept or visited one's actor is active
    member,         \* the role each person holds, and the membership it is of
    now,            \* the place in the log: revocations and demotions so far
    closes,         \* session.closed events their consumer has not handled
    losses,         \* the same of revocations and demotions
    lost,           \* the last event at which each actor lost its review permission
    turns           \* what MaxTurns counts

work == <<task, movers>>
hosting == <<sess, thread>>
log == <<now, losses, lost>>
vars == <<work, reviews, hosting, lease, member, closes, log, turns>>

Revision == Len(movers)

NoReview == [status |-> "none", rev |-> 0, producer |-> Nobody, excluded |-> {}, reviewer |-> Nobody,
             claim |-> 0, since |-> 0, byAgent |-> FALSE, override |-> FALSE, verdict |-> "none"]
NoSession == [status |-> "none", actor |-> 0, source |-> Owner, member |-> 0,
              role |-> "none", rev |-> 0]
NoLease == [live |-> FALSE, review |-> 0, claim |-> 0]
NoThread == [status |-> "none", role |-> "none", rev |-> 0]

Init ==
    /\ task = [state |-> "in_progress", review |-> 0, used |-> Spent, allowed |-> Rounds]
    /\ movers = <<>>
    /\ reviews = [r \in Deliveries |-> NoReview]
    /\ sess = [s \in Sessions |-> NoSession]
    /\ lease = [s \in Sessions |-> NoLease]
    /\ thread = [a \in Sessions |-> NoThread]
    /\ member = [p \in People |-> [role |-> StartRole[p], id |-> 0]]
    /\ now = 0
    /\ closes = {}
    /\ losses = {}
    /\ lost = [a \in Actors |-> 0]
    /\ turns = 0

-----------------------------------------------------------------------------
(* Scope: what a role permits, and the events that say it was lost.        *)

\* permits(); a removed member holds no role.
Permits(role, permission) ==
    \/ role = "operator"
    \/ role = "producer" /\ permission = "write"
    \/ role = "reviewer" /\ permission = "review"

Can(p, permission) == Permits(member[p].role, permission)
IsAdministrator(p) == member[p].role = "operator"

\* A worker is revoked for good: the event of one that holds no claim is left out, for it is
\* never asked about and its consumer finds nothing to do.
Concerned(a) == a \in People \/ \E r \in Deliveries : reviews[r].status = "started" /\ reviews[r].reviewer = a

\* appendEvent() of what takes the permission to review from the actors.
Logs(type, actors) ==
    LET logged == {a \in actors : Concerned(a)} IN
    /\ now' = IF logged = {} THEN now ELSE now + 1
    /\ losses' = losses \cup {[type |-> type, subject |-> a, id |-> now + 1] : a \in logged}
    /\ lost' = [a \in Actors |-> IF a \in logged THEN now + 1 ELSE lost[a]]

\* mutant: the log is not asked whether permission was lost meanwhile
Mutant_PermissionLost(review) == FALSE

\* permissionLost() of the reviewer, after the claim was made.
PermissionLost(review) == lost[review.reviewer] > review.since

-----------------------------------------------------------------------------
(* Reviews: a request, its claim, and the ways a claim is given back.      *)

Open(r) == r # 0 /\ reviews[r].status \in {"requested", "started"}

\* request(), as submitDelivery asks for it.
Requested(rev, worker, source) ==
    [NoReview EXCEPT !.status = "requested", !.rev = rev, !.producer = worker, !.excluded = {Owner, source}]

\* excludedFromReview() and directsIndependently(): a worker answers for the authority behind it.
Excluded(review, actor) == actor = review.producer \/ actor \in review.excluded
Directs(review, authority) == authority # review.producer

\* The claim start() writes.
Started(review, actor, at, agent, override) ==
    [review EXCEPT !.status = "started", !.reviewer = actor, !.claim = @ + 1, !.since = at,
                   !.byAgent = agent, !.override = override]

Returned(review) ==
    [review EXCEPT !.status = "requested", !.reviewer = Nobody, !.since = 0,
                   !.byAgent = FALSE, !.override = FALSE]

\* releaseClaim(): a claim that is no longer the one named is left alone.
ReleaseClaim(review, actor, claim) ==
    IF review.status = "started" /\ review.reviewer = actor /\ review.claim = claim
    THEN Returned(review) ELSE review

\* mutant: the event is not compared with the claim
Mutant_Recovered(review, event) ==
    IF review.status = "started" /\ review.reviewer = event.subject THEN Returned(review) ELSE review

\* mutant: whoever may review again keeps the claim
Mutant_Kept(review, event) ==
    IF /\ review.status = "started" /\ review.reviewer = event.subject /\ review.since < event.id
       /\ ~(event.subject \in People /\ Can(event.subject, "review"))
    THEN Returned(review) ELSE review

\* releaseClaims(): an event older than the claim does not touch it.
Recovered(review, event) ==
    IF review.status = "started" /\ review.reviewer = event.subject /\ review.since < event.id
    THEN Returned(review) ELSE review

-----------------------------------------------------------------------------
(* Sessions: who holds the step, and the threads their visits are part of. *)

Live(s) == sess[s].status \in {"offered", "active"}
Needs(role) == IF role = "producer" THEN "write" ELSE "review"

\* requireDelegation() of the membership the session was offered under.
Sourced(s) ==
    /\ member[sess[s].source].id = sess[s].member
    /\ Can(sess[s].source, Needs(sess[s].role))

\* stillHeld() and holdsLease(): the worker may act on the step.
Holds(s) ==
    /\ sess[s].status = "active"
    /\ Sourced(s)
    /\ lease[s].live
    /\ sess[s].rev = Revision

\* handedOff(): the move after the session's revision is its actor's.
HandedOff(s) == Revision > sess[s].rev /\ movers[sess[s].rev + 1] = sess[s].actor

Visits(a) == {v \in Sessions : sess[v].status # "none" /\ sess[v].actor = a}
Visited(a) == \E v \in Visits(a) : Live(v)
Kept(a, role) == thread[a].status = "kept" /\ thread[a].role = role

\* key(): a producer's thread is the work's, a reviewer's is its round's.
KeyHeld(a, role) == Kept(a, role) /\ (role = "reviewer" => thread[a].rev = Revision)

\* open() resumes a thread whose every visit was offered by this source, once none is live.
Resumable(a, role, p) ==
    /\ KeyHeld(a, role)
    /\ ~Visited(a)
    /\ \A v \in Visits(a) : sess[v].source = p /\ sess[v].member = member[p].id

\* What a new thread retires: its key's, and a reviewer's those of the rounds before.
Superseded(role) == {a \in Sessions : IF role = "reviewer" THEN Kept(a, role) ELSE KeyHeld(a, role)}

\* retire(): the actor goes with its thread unless a visit still holds it.
Retires(threads) ==
    [a \in Sessions |-> IF a \in threads
                        THEN [thread[a] EXCEPT !.status = "retired"] ELSE thread[a]]
RevokedWith(threads) == {a \in threads : ~Visited(a)}

-----------------------------------------------------------------------------
(* Offer and activation.                                                   *)

\* leaseRole(): who may lease the task as it stands, and as what.
LeaseRole(p, role) ==
    \/ /\ role = "producer"
       /\ task.state = "in_progress"
       /\ Can(p, "write")
       /\ p = Owner \/ IsAdministrator(p)
    \/ /\ role = "reviewer"
       /\ task.state = "in_review"
       /\ Can(p, "review")
       /\ reviews[task.review].status = "requested"
       /\ reviews[task.review].rev = Revision
       /\ Directs(reviews[task.review], p)

\* No live session holds the step, and no live lease row of it refuses another (wf_leases_active).
StepFree == \A v \in Sessions : Live(v) \/ lease[v].live => sess[v].rev # Revision

\* acquireLease(): a reviewer's lease claims the review it is of.
Acquire(s, role, actor) ==
    IF role = "producer"
    THEN /\ lease' = [lease EXCEPT ![s].live = TRUE]
         /\ UNCHANGED reviews
    ELSE /\ ~Excluded(reviews[task.review], actor)
         /\ reviews' = [reviews EXCEPT ![task.review] = Started(@, actor, now', TRUE, FALSE)]
         /\ lease' = [lease EXCEPT ![s] = [live |-> TRUE, review |-> task.review,
                                           claim |-> reviews[task.review].claim + 1]]

\* offerTransaction() by p.  Whether a thread's conversation was kept is not modelled: one that
\* may be resumed may also be opened anew.
Offer(s, p, role) ==
    /\ sess[s].status = "none"
    /\ \A v \in 1..(s - 1) : sess[v].status # "none"
    /\ LeaseRole(p, role)
    /\ StepFree
    /\ \E actor \in Sessions :
          /\ \/ /\ Resumable(actor, role, p)
                /\ UNCHANGED <<thread, log>>
             \/ /\ actor = s
                /\ thread' = [Retires(Superseded(role)) EXCEPT
                       ![s] = [status |-> "kept", role |-> role, rev |-> Revision]]
                /\ Logs("revoked", RevokedWith(Superseded(role)))
          /\ Acquire(s, role, actor)
          /\ sess' = [sess EXCEPT ![s] = [status |-> "offered", actor |-> actor, source |-> p,
                                          member |-> member[p].id, role |-> role, rev |-> Revision]]
    /\ UNCHANGED <<work, member, closes, turns>>

\* currentReview() and checkSubmit(): the actor holds the claim of the task's review, and no
\* loss of permission since has spoilt it.
HoldsClaim(actor, claim) ==
    /\ task.state = "in_review"
    /\ LET review == reviews[task.review] IN
       /\ review.rev = Revision
       /\ review.status = "started"
       /\ review.reviewer = actor
       /\ review.claim = claim
       /\ ~PermissionLost(review)

\* authenticate() of an offered session: activateLease() and the lease's own check.
Activate(s) ==
    /\ sess[s].status = "offered"
    /\ Sourced(s)
    /\ lease[s].live
    /\ sess[s].rev = Revision
    /\ sess[s].role = "reviewer" => HoldsClaim(sess[s].actor, lease[s].claim)
    /\ sess' = [sess EXCEPT ![s].status = "active"]
    /\ UNCHANGED <<work, reviews, lease, thread, member, closes, log, turns>>

-----------------------------------------------------------------------------
(* The task's moves.                                                       *)

\* submitDelivery() by the worker that holds the work.
Deliver(s) ==
    /\ task.state = "in_progress"
    /\ Holds(s)
    /\ sess[s].role = "producer"
    /\ \E r \in Deliveries :
          /\ reviews[r].status = "none"
          /\ \A q \in 1..(r - 1) : reviews[q].status # "none"
          /\ reviews' = [reviews EXCEPT ![r] = Requested(Revision + 1, sess[s].actor, sess[s].source)]
          /\ task' = [task EXCEPT !.state = "in_review", !.review = r]
    /\ movers' = Append(movers, sess[s].actor)
    /\ UNCHANGED <<hosting, lease, member, closes, log, turns>>

\* reviewAction(): where each verdict takes the task.
Reviewed(verdict) ==
    [task EXCEPT !.state = CASE verdict = "pass" -> "done"
                             [] verdict = "fail" -> "failed"
                             [] verdict = "needs_changes" -> "in_progress",
                 !.used = IF verdict = "needs_changes" THEN @ + 1 ELSE @]

\* submitReview() once the caller may: the move and the verdict commit together.
Submit(actor, verdict) ==
    /\ verdict = "needs_changes" => task.used < task.allowed
    /\ task' = Reviewed(verdict)
    /\ movers' = Append(movers, actor)
    /\ reviews' = [reviews EXCEPT ![task.review].status = "submitted", ![task.review].verdict = verdict]
    /\ UNCHANGED <<hosting, lease, member, closes, log, turns>>

\* By the worker that holds the review's lease, in a checkout of the submitted code.
VerdictByWorker(s, verdict) ==
    /\ Holds(s)
    /\ HoldsClaim(sess[s].actor, lease[s].claim)
    /\ ~Excluded(reviews[task.review], sess[s].actor)
    /\ Directs(reviews[task.review], sess[s].source)
    /\ verdict = "pass" => lease[s].review = task.review
    /\ Submit(sess[s].actor, verdict)

\* independent() of a person.
Independent(p, review) ==
    IF review.override THEN IsAdministrator(p) ELSE ~Excluded(review, p) /\ Directs(review, p)

\* mutant: whoever claims the review by hand may pass it
Mutant_CheckoutReviewer(verdict, review) == TRUE

\* checkoutReviewer() of a reviewer without a session.
CheckoutReviewer(verdict, review) == verdict = "pass" => review.override

\* By the person who claimed the review.
VerdictByPerson(p, verdict) ==
    /\ Can(p, "review")
    /\ task.review # 0
    /\ LET review == reviews[task.review] IN
       /\ HoldsClaim(p, review.claim)
       /\ Independent(p, review)
       /\ CheckoutReviewer(verdict, review)
    /\ Submit(p, verdict)

\* mutant: the review is left as it is
Mutant_Supersede == UNCHANGED reviews

\* supersede(): a submitted verdict stays.
Supersede ==
    reviews' = [r \in Deliveries |-> IF r = task.review /\ Open(r)
                                     THEN [reviews[r] EXCEPT !.status = "superseded"] ELSE reviews[r]]

\* markFailed(), which an unfinished review does not outlive.
MarkFailed(actor) ==
    /\ \/ task.state = "in_progress"
       \/ task.state = "in_review" /\ Open(task.review)
    /\ task' = [task EXCEPT !.state = "failed"]
    /\ movers' = Append(movers, actor)
    /\ IF task.state = "in_review" THEN Supersede ELSE UNCHANGED reviews
    /\ UNCHANGED <<hosting, lease, member, closes, log, turns>>

FailByPerson(p) ==
    /\ Can(p, "write")
    /\ p = Owner \/ IsAdministrator(p)
    /\ MarkFailed(p)

\* isProducer() of a worker: it holds the lease of the work at this revision.
FailByWorker(s) == Holds(s) /\ sess[s].role = "producer" /\ MarkFailed(sess[s].actor)

\* extendLimit() of review_rounds.
ExtendLimit(p) ==
    /\ turns < MaxTurns
    /\ IsAdministrator(p)
    /\ task.state \notin {"done", "failed"}
    /\ task' = [task EXCEPT !.allowed = @ + 1]
    /\ turns' = turns + 1
    /\ UNCHANGED <<movers, reviews, hosting, lease, member, closes, log>>

-----------------------------------------------------------------------------
(* Claims by hand.                                                         *)

\* leasedClaim(): no leased reviewer is shut out unless the rounds are used up, or the owner says so.
LeasedClaim(override) == override \/ task.used >= task.allowed

\* start() by a person.
ClaimByPerson(p, override) ==
    /\ Can(p, "review")
    /\ Open(task.review)
    /\ LET review == reviews[task.review] IN
       /\ review.status = "requested"
       /\ review.claim < MaxClaims
       /\ Independent(p, [review EXCEPT !.override = override])
       /\ LeasedClaim(override)
       /\ reviews' = [reviews EXCEPT ![task.review] = Started(review, p, now, FALSE, override)]
    /\ UNCHANGED <<work, hosting, lease, member, closes, log, turns>>

\* What review.release takes: a leased worker's claim goes with its lease.
HandReleased(review) == review.status = "started" /\ ~review.byAgent

\* release()
ReleaseByPerson(p) ==
    /\ member[p].role # "none"
    /\ Open(task.review)
    /\ HandReleased(reviews[task.review])
    /\ reviews[task.review].reviewer = p \/ IsAdministrator(p)
    /\ reviews' = [reviews EXCEPT ![task.review] = Returned(@)]
    /\ UNCHANGED <<work, hosting, lease, member, closes, log, turns>>

-----------------------------------------------------------------------------
(* Closing a session, and what its close and a revocation leave to do.     *)

\* mutant: the row is released and the claim it names is not given back
Mutant_ReleaseLeaseRow(s) == lease' = [lease EXCEPT ![s].live = FALSE] /\ UNCHANGED reviews

\* mutant: a lease whose claim is gone already is left as it is
Mutant_Stuck(s) ==
    LET review == reviews[lease[s].review] IN
    IF ~lease[s].live \/ (lease[s].review # 0 /\ review.reviewer # sess[s].actor)
    THEN UNCHANGED <<lease, reviews>>
    ELSE /\ lease' = [lease EXCEPT ![s].live = FALSE]
         /\ reviews' = [r \in Deliveries |-> IF r = lease[s].review
                THEN ReleaseClaim(reviews[r], sess[s].actor, lease[s].claim) ELSE reviews[r]]

\* releaseLeaseRow(): the claim goes back with the lease; a released row is left alone.
ReleaseLeaseRow(s) ==
    IF ~lease[s].live THEN UNCHANGED <<lease, reviews>>
    ELSE /\ lease' = [lease EXCEPT ![s].live = FALSE]
         /\ reviews' = [r \in Deliveries |-> IF r = lease[s].review
                THEN ReleaseClaim(reviews[r], sess[s].actor, lease[s].claim) ELSE reviews[r]]

\* threads.closed() retires the thread of a reviewer whose verdict landed, and one whose
\* conversation could not be taken up.  A close for its time or its source says neither.
MayRetire(s) == (sess[s].role = "reviewer" /\ HandedOff(s)) \/ sess[s].actor # s

\* closeSession(), whoever asks: its worker's handoff, a halt, its runner, or the sweep.  With the
\* program away its lease is left to the consumer of its close.
Close(s) ==
    /\ Live(s)
    /\ sess' = [sess EXCEPT ![s].status = "closed"]
    /\ \E retire \in {FALSE, MayRetire(s)}, away \in BOOLEAN :
          LET a == sess[s].actor
              over == retire \/ thread[a].status = "retired" IN
          /\ thread' = IF over THEN [thread EXCEPT ![a].status = "retired"] ELSE thread
          /\ Logs("revoked", IF over /\ away THEN {a} ELSE {})
          /\ closes' = IF away THEN closes \cup {s} ELSE closes
          /\ IF away THEN UNCHANGED <<lease, reviews>> ELSE ReleaseLeaseRow(s)
          /\ away => turns < MaxTurns
          /\ turns' = IF away THEN turns + 1 ELSE turns
    /\ UNCHANGED <<work, member>>

\* threads.expire() of a dormant thread, and lapsed() of one whose visit lost its delegation.
RetireThread(a) ==
    /\ turns < MaxTurns
    /\ thread[a].status = "kept"
    /\ \A v \in Visits(a) : Live(v) => ~Sourced(v)
    /\ thread' = Retires({a})
    /\ Logs("revoked", RevokedWith({a}))
    /\ turns' = turns + 1
    /\ UNCHANGED <<work, reviews, sess, lease, member, closes>>

\* leaseReleaseConsumer: each close is about a lease of its own, so their order is free.
LeaseReleased ==
    \E s \in closes :
        /\ ReleaseLeaseRow(s)
        /\ closes' = closes \ {s}
        /\ UNCHANGED <<work, hosting, member, log, turns>>

\* actorRevoked() and actorPermissionsChanged(): each handles the earliest event of its type.
ClaimsReleased(type) ==
    \E e \in losses :
        /\ e.type = type
        /\ \A f \in losses : f.type = type => e.id <= f.id
        /\ reviews' = [r \in Deliveries |-> Recovered(reviews[r], e)]
        /\ losses' = losses \ {e}
        /\ UNCHANGED <<work, hosting, lease, member, closes, now, lost, turns>>

\* changeMemberRole(), removeMember() (role none) and a join: each begins or ends a membership.
SetRole(p, role) ==
    /\ turns < MaxTurns /\ p \in Movable
    /\ role # member[p].role
    /\ \E q \in People : IF q = p THEN role = "operator" ELSE IsAdministrator(q)
    /\ member' = [member EXCEPT ![p] = [role |-> role, id |-> turns + 1]]
    /\ turns' = turns + 1
    /\ IF role = "none" THEN Logs("revoked", {p})
       ELSE IF Can(p, "review") /\ ~Permits(role, "review") THEN Logs("demoted", {p}) ELSE UNCHANGED log
    /\ UNCHANGED <<work, reviews, hosting, lease, closes>>

-----------------------------------------------------------------------------
Verdicts == {"pass", "needs_changes", "fail"}

ByPerson(p) ==
    \/ \E s \in Sessions, role \in {"producer", "reviewer"} : Offer(s, p, role)
    \/ \E override \in BOOLEAN : ClaimByPerson(p, override)
    \/ \E verdict \in Verdicts : VerdictByPerson(p, verdict)
    \/ ReleaseByPerson(p)
    \/ FailByPerson(p)
    \/ ExtendLimit(p)
    \/ \E role \in NewRoles : SetRole(p, role)

ByWorker(s) ==
    \/ Activate(s)
    \/ Deliver(s)
    \/ \E verdict \in Verdicts : VerdictByWorker(s, verdict)
    \/ FailByWorker(s)

Consumed == LeaseReleased \/ \E type \in {"revoked", "demoted"} : ClaimsReleased(type)

Next ==
    \/ \E p \in People : ByPerson(p)
    \/ \E s \in Sessions : ByWorker(s) \/ Close(s) \/ RetireThread(s)
    \/ Consumed

\* Every session has a hard deadline and the sweep closes it; Domain Events delivers every event.
Fairness ==
    /\ \A s \in Sessions : WF_vars(Close(s))
    /\ WF_vars(LeaseReleased)
    /\ \A type \in {"revoked", "demoted"} : WF_vars(ClaimsReleased(type))

Spec == Init /\ [][Next]_vars /\ Fairness

-----------------------------------------------------------------------------
(* What must hold.                                                         *)

TypeOK ==
    /\ task \in [state : {"in_progress", "in_review", "done", "failed"}, review : 0..MaxDeliveries,
                 used : Nat, allowed : Nat]
    /\ movers \in Seq(Actors)
    /\ reviews \in [Deliveries ->
           [status : {"none", "requested", "started", "submitted", "superseded"}, rev : Nat,
            producer : Actors \cup {Nobody}, excluded : SUBSET People, reviewer : Actors \cup {Nobody},
            claim : Nat, since : Nat, byAgent : BOOLEAN, override : BOOLEAN, verdict : Verdicts \cup {"none"}]]
    /\ sess \in [Sessions ->
           [status : {"none", "offered", "active", "closed"}, actor : Sessions \cup {0}, source : People,
            member : Nat, role : {"none", "producer", "reviewer"}, rev : Nat]]
    /\ lease \in [Sessions -> [live : BOOLEAN, review : 0..MaxDeliveries, claim : Nat]]
    /\ thread \in [Sessions ->
           [status : {"none", "kept", "retired"}, role : {"none", "producer", "reviewer"}, rev : Nat]]
    /\ member \in [People -> [role : Roles \cup {"none"}, id : Nat]]
    /\ now \in Nat
    /\ closes \subseteq Sessions
    /\ losses \subseteq [type : {"revoked", "demoted"}, subject : Actors, id : 1..now]
    /\ lost \in [Actors -> 0..now]
    /\ turns \in Nat

Names(s, r) ==
    /\ lease[s].live /\ lease[s].review = r
    /\ lease[s].claim = reviews[r].claim /\ sess[s].actor = reviews[r].reviewer

\* The reviewer lost the permission after the claim was made.
Spoilt(review) == lost[review.reviewer] > review.since

\* Nothing is stranded: a live lease has a live session or a close that is still to be handled, a
\* worker's claim has the lease that gives it back, and a claim whose holder lost permission has a
\* pending event that takes it back.
NothingStranded ==
    /\ \A s \in Sessions : lease[s].live => Live(s) \/ s \in closes
    /\ \A r \in Deliveries : reviews[r].status = "started" =>
          /\ reviews[r].byAgent => \E s \in Sessions : Names(s, r)
          /\ Spoilt(reviews[r]) => \E e \in losses :
                e.subject = reviews[r].reviewer /\ e.id > reviews[r].since

\* The task waits on exactly one review, of the revision it is at, and an ended or returned
\* task leaves no review that somebody could still claim or decide.
OneOpenReview ==
    /\ \A r \in Deliveries : Open(r) => task.state = "in_review" /\ r = task.review
    /\ task.state = "in_review" => Open(task.review) /\ reviews[task.review].rev = Revision

\* Work is done by the verdict on its last delivery, given from a lease by a reviewer who had no
\* hand in it, or by the owner deciding as owner.
DoneWasPassed ==
    task.state = "done" =>
        LET review == reviews[task.review] IN
        /\ review.verdict = "pass"
        /\ review.rev + 1 = Revision
        /\ review.reviewer = movers[Revision]
        /\ review.override \/ (review.byAgent /\ ~Excluded(review, review.reviewer))

\* A claim goes back to the pool for its own reason only: its worker's session ended, or its
\* person lost permission after making it; events of an earlier claim never touch it.
FreshClaimsStay ==
    [][\A r \in Deliveries :
          reviews[r].status = "started" /\ reviews'[r].status = "requested" =>
              IF reviews[r].byAgent
              THEN \E s \in Sessions : Names(s, r) /\ sess'[s].status = "closed"
              ELSE losses' = losses \/ Spoilt(reviews[r])]_vars

\* A lease whose session closed is released, so that its step can be offered again.
StepFreed == []<>(\A s \in Sessions : lease[s].live => sess[s].status # "closed")

\* A claim does not outlive its holder: a worker's, whose session ends, or that of a person who
\* lost permission, is given back or decided.
ClaimsEnd ==
    []<>(\A r \in Deliveries :
            reviews[r].status = "started" => ~reviews[r].byAgent /\ ~Spoilt(reviews[r]))

-----------------------------------------------------------------------------
(* The promise of an independent judgement.                                *)

Claimed == task.state = "in_review" /\ reviews[task.review].status = "started"

Stage ==
    CASE task.state = "done" -> "passed"
      [] task.state = "failed" ->
            IF task.review # 0 /\ reviews[task.review].verdict = "fail" THEN "rejected" ELSE "ended"
      [] task.state = "in_progress" -> "working"
      [] OTHER -> IF Claimed THEN "claimed" ELSE "waiting"

Means ==
    IF ~Claimed THEN "none"
    ELSE IF reviews[task.review].byAgent THEN "lease"
    ELSE IF reviews[task.review].override THEN "owner" ELSE "hand"

Fit ==
    /\ Claimed
    /\ ~Spoilt(reviews[task.review])
    /\ reviews[task.review].byAgent =>
          \E s \in Sessions : Names(s, task.review) /\ Live(s) /\ Sourced(s)

Promise == INSTANCE ReviewPromise WITH
    Judges <- Actors,
    stage <- Stage,
    judge <- IF Claimed THEN reviews[task.review].reviewer ELSE Nobody,
    means <- Means,
    fit <- Fit,
    barred <- IF task.state = "in_review"
              THEN {reviews[task.review].producer} \cup reviews[task.review].excluded ELSE {}

\* The whole machinery of leases, claims and recoveries implements the promise.
KeepsPromise == Promise!Spec
=============================================================================

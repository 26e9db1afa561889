-------------------------- MODULE WorkLeasesProofs --------------------------
(***************************************************************************)
(* Proofs about WorkLeases, for any roster, any number of sessions,        *)
(* deliveries and claims, and any limit of rounds: the task waits on one   *)
(* review and is done only by a fit judge's verdict, no lease or claim is  *)
(* left without what gives it back, and WorkLeases implements              *)
(* ReviewPromise.                                                          *)
(***************************************************************************)
EXTENDS WorkLeases, TLAPS

-----------------------------------------------------------------------------
(* Type correctness.                                                       *)

Statuses == {"none", "requested", "started", "submitted", "superseded"}

States == {"in_progress", "in_review", "done", "failed"}
TaskRows == [state : States, review : 0..MaxDeliveries, used : Nat, allowed : Nat]

ReviewRows ==
    [status : Statuses, rev : Nat,
     producer : Actors \cup {Nobody}, excluded : SUBSET People, reviewer : Actors \cup {Nobody},
     claim : Nat, since : Nat, byAgent : BOOLEAN, override : BOOLEAN, verdict : Verdicts \cup {"none"}]
SessionRows ==
    [status : {"none", "offered", "active", "closed"}, actor : Sessions \cup {0}, source : People,
     member : Nat, role : {"none", "producer", "reviewer"}, rev : Nat]
LeaseRows == [live : BOOLEAN, review : 0..MaxDeliveries, claim : Nat]
ThreadRows == [status : {"none", "kept", "retired"}, role : {"none", "producer", "reviewer"}, rev : Nat]
Events(n) == [type : {"revoked", "demoted"}, subject : Actors, id : 1..n]

\* A session that was opened has an actor, and work that was delivered has its review.
Placed ==
    /\ \A s \in Sessions : sess[s].status # "none" => sess[s].actor \in Sessions
    /\ task.state \in {"in_review", "done"} => task.review \in Deliveries

\* What becomes of a review is a review.
LEMMA ReviewTypes ==
    ASSUME LeaseAssumption, NEW review \in ReviewRows
    PROVE  /\ \A actor \in Actors, at \in Nat, agent \in BOOLEAN, override \in BOOLEAN :
                 Started(review, actor, at, agent, override) \in ReviewRows
           /\ Returned(review) \in ReviewRows
           /\ \A actor, claim : ReleaseClaim(review, actor, claim) \in ReviewRows
           /\ \A e : Recovered(review, e) \in ReviewRows
<1>1. ASSUME NEW actor \in Actors, NEW at \in Nat, NEW agent \in BOOLEAN, NEW override \in BOOLEAN
      PROVE  Started(review, actor, at, agent, override) \in ReviewRows
  <2>1. review.claim + 1 \in Nat BY DEF ReviewRows
  <2> QED BY <2>1 DEF Started, ReviewRows, Statuses
<1>2. Returned(review) \in ReviewRows BY DEF Returned, ReviewRows, Statuses
<1>3. \A actor, claim : ReleaseClaim(review, actor, claim) \in ReviewRows BY <1>2 DEF ReleaseClaim
<1>4. \A e : Recovered(review, e) \in ReviewRows BY <1>2 DEF Recovered
<1> QED BY <1>1, <1>2, <1>3, <1>4

\* A new request is a review.
LEMMA RequestType ==
    ASSUME LeaseAssumption, NEW rev \in Nat, NEW worker \in Actors, NEW source \in People
    PROVE  Requested(rev, worker, source) \in ReviewRows
<1>1. {Owner, source} \subseteq People BY DEF LeaseAssumption
<1> QED BY <1>1 DEF Requested, NoReview, ReviewRows, Statuses

\* What is written to the log is an event, and its place the last.
LEMMA LogTypes ==
    ASSUME now \in Nat, losses \subseteq Events(now), lost \in [Actors -> 0..now],
           NEW type \in {"revoked", "demoted"}, NEW actors \in SUBSET Actors, Logs(type, actors)
    PROVE  /\ now' \in Nat /\ now' >= now
           /\ losses' \subseteq Events(now')
           /\ lost' \in [Actors -> 0..now']
<1> DEFINE logged == {a \in actors : Concerned(a)}
<1> HIDE DEF logged
<1>1. /\ now' = IF logged = {} THEN now ELSE now + 1
      /\ losses' = losses \cup {[type |-> type, subject |-> a, id |-> now + 1] : a \in logged}
      /\ lost' = [a \in Actors |-> IF a \in logged THEN now + 1 ELSE lost[a]]
      /\ logged \subseteq Actors
    BY DEF Logs, logged
<1>2. now' \in Nat /\ now' >= now BY <1>1
<1>3. losses' \subseteq Events(now')
  <2>1. CASE logged = {} BY <2>1, <1>1
  <2>2. CASE logged # {}
    <3>1. Events(now) \subseteq Events(now') BY <1>2 DEF Events
    <3>2. \A a \in logged : [type |-> type, subject |-> a, id |-> now + 1] \in Events(now')
        BY <2>2, <1>1 DEF Events
    <3> QED BY <3>1, <3>2, <1>1
  <2> QED BY <2>1, <2>2
<1>4. lost' \in [Actors -> 0..now']
  <2>1. \A a \in Actors : (IF a \in logged THEN now + 1 ELSE lost[a]) \in 0..now'
      BY <1>1
  <2> QED BY <2>1, <1>1
<1> QED BY <1>2, <1>3, <1>4

\* TypeOK, of the sets named above.
Types ==
    /\ task \in TaskRows
    /\ movers \in Seq(Actors)
    /\ reviews \in [Deliveries -> ReviewRows]
    /\ sess \in [Sessions -> SessionRows]
    /\ lease \in [Sessions -> LeaseRows]
    /\ thread \in [Sessions -> ThreadRows]
    /\ member \in [People -> [role : Roles \cup {"none"}, id : Nat]]
    /\ now \in Nat
    /\ closes \subseteq Sessions
    /\ losses \subseteq Events(now)
    /\ lost \in [Actors -> 0..now]
    /\ turns \in Nat

LEMMA TypeNames == Types <=> TypeOK
BY DEF Types, TypeOK, States, TaskRows, ReviewRows, Statuses, SessionRows, LeaseRows, ThreadRows, Events

LEMMA TypeInit == LeaseAssumption /\ Init => Types /\ Placed
<1> SUFFICES ASSUME LeaseAssumption, Init PROVE Types /\ Placed OBVIOUS
<1>1. NoReview \in ReviewRows BY DEF NoReview, ReviewRows, Statuses
<1>2. NoSession \in SessionRows BY DEF NoSession, SessionRows, LeaseAssumption
<1>3. NoLease \in LeaseRows BY DEF NoLease, LeaseRows, LeaseAssumption
<1>4. NoThread \in ThreadRows BY DEF NoThread, ThreadRows
<1>5. task \in TaskRows BY DEF Init, TaskRows, States, LeaseAssumption
<1>6. member \in [People -> [role : Roles \cup {"none"}, id : Nat]] BY DEF Init, LeaseAssumption
<1>7. lost \in [Actors -> 0..now] BY DEF Init
<1>8. Placed BY DEF Init, Placed, NoSession
<1>9. /\ movers \in Seq(Actors) /\ now \in Nat /\ closes \subseteq Sessions
      /\ losses \subseteq Events(now) /\ turns \in Nat
    BY DEF Init
<1>10. /\ reviews \in [Deliveries -> ReviewRows] /\ sess \in [Sessions -> SessionRows]
       /\ lease \in [Sessions -> LeaseRows] /\ thread \in [Sessions -> ThreadRows]
    BY <1>1, <1>2, <1>3, <1>4 DEF Init
<1> QED BY <1>5, <1>6, <1>7, <1>8, <1>9, <1>10 DEF Types

\* The rows of tasks, leases and threads keep their shape.
LEMMA RowTypes ==
    /\ \A t \in TaskRows, state \in States, r \in 0..MaxDeliveries, n \in Nat :
          /\ [t EXCEPT !.state = state] \in TaskRows
          /\ [t EXCEPT !.state = state, !.review = r] \in TaskRows
          /\ [t EXCEPT !.state = state, !.used = n] \in TaskRows
          /\ [t EXCEPT !.allowed = n] \in TaskRows
    /\ \A l \in LeaseRows, live \in BOOLEAN : [l EXCEPT !.live = live] \in LeaseRows
    /\ \A t \in ThreadRows : [t EXCEPT !.status = "retired"] \in ThreadRows
<1>0. ASSUME NEW t \in TaskRows, NEW state \in States, NEW r \in 0..MaxDeliveries, NEW n \in Nat
      PROVE  /\ [t EXCEPT !.state = state] \in TaskRows
             /\ [t EXCEPT !.state = state, !.review = r] \in TaskRows
             /\ [t EXCEPT !.state = state, !.used = n] \in TaskRows
             /\ [t EXCEPT !.allowed = n] \in TaskRows
    BY DEF TaskRows
<1>1. ASSUME NEW l \in LeaseRows, NEW live \in BOOLEAN PROVE [l EXCEPT !.live = live] \in LeaseRows
    BY DEF LeaseRows
<1>2. ASSUME NEW t \in ThreadRows PROVE [t EXCEPT !.status = "retired"] \in ThreadRows
    BY DEF ThreadRows
<1> QED BY <1>0, <1>1, <1>2

\* So do the threads that are retired.
LEMMA RetireTypes ==
    ASSUME thread \in [Sessions -> ThreadRows], NEW threads
    PROVE  Retires(threads) \in [Sessions -> ThreadRows]
BY RowTypes DEF Retires

\* A lease's release leaves leases and reviews what they are.
LEMMA ReleaseTypes ==
    ASSUME LeaseAssumption, reviews \in [Deliveries -> ReviewRows], lease \in [Sessions -> LeaseRows],
           NEW s \in Sessions, ReleaseLeaseRow(s)
    PROVE  reviews' \in [Deliveries -> ReviewRows] /\ lease' \in [Sessions -> LeaseRows]
<1>1. \A r \in Deliveries : ReleaseClaim(reviews[r], sess[s].actor, lease[s].claim) \in ReviewRows
    BY ReviewTypes
<1>2. [lease EXCEPT ![s].live = FALSE] \in [Sessions -> LeaseRows]
  <2>1. lease[s] \in LeaseRows OBVIOUS
  <2>2. [lease[s] EXCEPT !.live = FALSE] \in LeaseRows BY <2>1, RowTypes
  <2> QED BY <2>2
<1>3. CASE ~lease[s].live BY <1>3 DEF ReleaseLeaseRow
<1>4. CASE lease[s].live
  <2>1. /\ lease' = [lease EXCEPT ![s].live = FALSE]
        /\ reviews' = [r \in Deliveries |-> IF r = lease[s].review
               THEN ReleaseClaim(reviews[r], sess[s].actor, lease[s].claim) ELSE reviews[r]]
      BY <1>4 DEF ReleaseLeaseRow
  <2> QED BY <2>1, <1>1, <1>2
<1> QED BY <1>3, <1>4

LEMMA OfferTypes ==
    ASSUME LeaseAssumption, Types, Placed, NEW s \in Sessions, NEW p \in People,
           NEW role \in {"producer", "reviewer"}, Offer(s, p, role)
    PROVE  Types' /\ Placed'
<1>1. PICK actor \in Sessions :
          /\ \/ UNCHANGED <<thread, log>>
             \/ /\ thread' = [Retires(Superseded(role)) EXCEPT
                       ![s] = [status |-> "kept", role |-> role, rev |-> Revision]]
                /\ Logs("revoked", RevokedWith(Superseded(role)))
          /\ Acquire(s, role, actor)
          /\ sess' = [sess EXCEPT ![s] = [status |-> "offered", actor |-> actor, source |-> p,
                                          member |-> member[p].id, role |-> role, rev |-> Revision]]
    BY DEF Offer
<1>2. Revision \in Nat /\ member[p].id \in Nat BY DEF Types, Revision
<1>3. sess' \in [Sessions -> SessionRows] /\ Placed'
  <2>1. [status |-> "offered", actor |-> actor, source |-> p, member |-> member[p].id, role |-> role,
         rev |-> Revision] \in SessionRows
      BY <1>2 DEF SessionRows
  <2>2. sess \in [Sessions -> SessionRows] BY DEF Types
  <2>3. sess' \in [Sessions -> SessionRows] BY <1>1, <2>1, <2>2
  <2>4. \A v \in Sessions : sess'[v].status # "none" => sess'[v].actor \in Sessions
      BY <1>1, <2>2 DEF Placed
  <2>5. task' = task BY DEF Offer, work
  <2> QED BY <2>3, <2>4, <2>5 DEF Placed
<1>4. thread' \in [Sessions -> ThreadRows]
  <2>1. [status |-> "kept", role |-> role, rev |-> Revision] \in ThreadRows BY <1>2 DEF ThreadRows
  <2>2. Retires(Superseded(role)) \in [Sessions -> ThreadRows] BY RetireTypes DEF Types
  <2>3. thread \in [Sessions -> ThreadRows] BY DEF Types
  <2> HIDE DEF Types
  <2> QED BY <1>1, <2>1, <2>2, <2>3
<1>5. now' \in Nat /\ losses' \subseteq Events(now') /\ lost' \in [Actors -> 0..now']
  <2>1. RevokedWith(Superseded(role)) \in SUBSET Actors BY DEF RevokedWith, Superseded, Actors
  <2> QED BY <1>1, <2>1, LogTypes DEF Types, log
<1>6. reviews' \in [Deliveries -> ReviewRows] /\ lease' \in [Sessions -> LeaseRows]
  <2>1. CASE role = "producer"
    <3>0. [lease[s] EXCEPT !.live = TRUE] \in LeaseRows BY RowTypes DEF Types
    <3>1. [lease EXCEPT ![s].live = TRUE] \in [Sessions -> LeaseRows] BY <3>0 DEF Types
    <3> QED BY <1>1, <2>1, <3>1 DEF Types, Acquire
  <2>2. CASE role = "reviewer"
    <3>2. /\ reviews' = [reviews EXCEPT ![task.review] = Started(@, actor, now', TRUE, FALSE)]
          /\ lease' = [lease EXCEPT ![s] = [live |-> TRUE, review |-> task.review,
                                            claim |-> reviews[task.review].claim + 1]]
        BY <1>1, <2>2 DEF Acquire
    <3>3. task.review \in Deliveries BY <2>2 DEF Offer, LeaseRole, Placed
    <3>4. Started(reviews[task.review], actor, now', TRUE, FALSE) \in ReviewRows
        BY <3>3, <1>5, ReviewTypes DEF Types, Actors
    <3>5. reviews[task.review].claim + 1 \in Nat BY <3>3 DEF Types, ReviewRows
    <3>6. task.review \in 0..MaxDeliveries BY <3>3 DEF Deliveries, LeaseAssumption
    <3>7. [live |-> TRUE, review |-> task.review, claim |-> reviews[task.review].claim + 1] \in LeaseRows
        BY <3>5, <3>6 DEF LeaseRows
    <3> QED BY <3>2, <3>3, <3>4, <3>7 DEF Types
  <2> QED BY <2>1, <2>2
<1> QED BY <1>3, <1>4, <1>5, <1>6 DEF Types, Offer, work

\* What a move does to the task and to its reviews.
LEMMA MoveTypes ==
    ASSUME LeaseAssumption, Types, Placed, NEW actor \in Actors,
           MarkFailed(actor) \/ \E verdict \in Verdicts : task.state = "in_review" /\ Submit(actor, verdict)
    PROVE  Types' /\ Placed'
<1>1. movers' \in Seq(Actors)
  <2>1. movers' = Append(movers, actor) BY DEF MarkFailed, Submit
  <2> QED BY <2>1 DEF Types
<1>2. UNCHANGED <<hosting, lease, member, closes, log, turns>> BY DEF MarkFailed, Submit
<1>3. \A v \in Sessions : sess'[v].status # "none" => sess'[v].actor \in Sessions
    BY <1>2 DEF Placed, hosting
<1>4. \A review \in ReviewRows, status \in Statuses, verdict \in Verdicts :
         /\ [review EXCEPT !.status = status] \in ReviewRows
         /\ [review EXCEPT !.status = status, !.verdict = verdict] \in ReviewRows
    BY DEF ReviewRows
<1>5. CASE MarkFailed(actor)
  <2>1. task' \in TaskRows /\ task'.state = "failed"
    <3>1. task \in TaskRows /\ "failed" \in States BY DEF Types, States
    <3>2. task' = [task EXCEPT !.state = "failed"] BY <1>5 DEF MarkFailed
    <3>3. task' \in TaskRows
      <4>1. task.review \in 0..MaxDeliveries /\ task.used \in Nat BY <3>1 DEF TaskRows
      <4> QED BY <3>1, <3>2, <4>1, RowTypes
    <3>4. task'.state = "failed" BY <3>1, <3>2 DEF TaskRows
    <3> QED BY <3>3, <3>4
  <2>2. reviews' \in [Deliveries -> ReviewRows]
    <3>1. \A r \in Deliveries : [reviews[r] EXCEPT !.status = "superseded"] \in ReviewRows
      <4>1. TAKE r \in Deliveries
      <4>2. reviews[r] \in ReviewRows /\ "superseded" \in Statuses BY DEF Types, Statuses
      <4> QED BY <4>2, <1>4 DEF Verdicts
    <3>2. CASE UNCHANGED reviews BY <3>2 DEF Types
    <3>3. CASE Supersede BY <3>1, <3>3 DEF Supersede, Types
    <3> QED BY <1>5, <3>2, <3>3 DEF MarkFailed
  <2> QED BY <1>1, <1>2, <1>3, <2>1, <2>2 DEF Types, Placed, hosting, log
<1>6. ASSUME NEW verdict \in Verdicts, task.state = "in_review", Submit(actor, verdict)
      PROVE  Types' /\ Placed'
  <2>1. task.review \in Deliveries BY <1>6 DEF Placed
  <2>2. /\ task' \in TaskRows
        /\ task'.review = task.review
    <3>1. task' = Reviewed(verdict) BY <1>6 DEF Submit
    <3>2. task \in TaskRows /\ task.used + 1 \in Nat /\ task.used \in Nat BY DEF Types, TaskRows
    <3>3. PICK state \in States, n \in Nat : task' = [task EXCEPT !.state = state, !.used = n]
      <4>1. CASE verdict = "pass" BY <3>1, <3>2, <4>1 DEF Reviewed, States
      <4>2. CASE verdict = "fail" BY <3>1, <3>2, <4>2 DEF Reviewed, States
      <4>3. CASE verdict = "needs_changes" BY <3>1, <3>2, <4>3 DEF Reviewed, States
      <4> QED BY <1>6, <4>1, <4>2, <4>3 DEF Verdicts
    <3>4. task.review \in 0..MaxDeliveries BY <3>2 DEF TaskRows
    <3>5. task' \in TaskRows BY <3>2, <3>3, <3>4, RowTypes
    <3>6. task'.review = task.review BY <3>2, <3>3 DEF TaskRows
    <3> QED BY <3>5, <3>6
  <2>3. reviews' \in [Deliveries -> ReviewRows]
    <3>1. reviews' = [reviews EXCEPT ![task.review] =
                         [reviews[task.review] EXCEPT !.status = "submitted", !.verdict = verdict]]
        BY <1>6, <2>1 DEF Submit, Types
    <3>2. reviews[task.review] \in ReviewRows BY <2>1 DEF Types
    <3>3. [reviews[task.review] EXCEPT !.status = "submitted", !.verdict = verdict] \in ReviewRows
        BY <3>2, <1>4, <1>6 DEF Statuses
    <3> QED BY <3>1, <3>3 DEF Types
  <2> QED BY <1>1, <1>2, <1>3, <2>1, <2>2, <2>3 DEF Types, Placed, hosting, log
<1> QED BY <1>5, <1>6

LEMMA DeliverTypes ==
    ASSUME LeaseAssumption, Types, Placed, NEW s \in Sessions, Deliver(s)
    PROVE  Types' /\ Placed'
<1>1. sess[s].actor \in Actors /\ sess[s].source \in People
    BY DEF Deliver, Holds, Placed, Actors, Types, SessionRows
<1>2. PICK r \in Deliveries :
          /\ reviews' = [reviews EXCEPT ![r] = Requested(Revision + 1, sess[s].actor, sess[s].source)]
          /\ task' = [task EXCEPT !.state = "in_review", !.review = r]
    BY DEF Deliver
<1>3. Requested(Revision + 1, sess[s].actor, sess[s].source) \in ReviewRows
  <2>1. Revision + 1 \in Nat BY DEF Revision, Types
  <2> QED BY <2>1, <1>1, RequestType
<1>4. reviews' \in [Deliveries -> ReviewRows] BY <1>2, <1>3 DEF Types
<1>5. /\ task' \in TaskRows
      /\ task'.review \in Deliveries
  <2>1. task \in TaskRows /\ "in_review" \in States /\ r \in 0..MaxDeliveries
      BY DEF Types, States, Deliveries, LeaseAssumption
  <2>2. task.used \in Nat BY <2>1 DEF TaskRows
  <2>3. task' \in TaskRows BY <1>2, <2>1, <2>2, RowTypes
  <2>4. task'.review = r BY <1>2, <2>1 DEF TaskRows
  <2> QED BY <2>3, <2>4
<1>6. movers' \in Seq(Actors) BY <1>1 DEF Deliver, Types
<1> QED BY <1>4, <1>5, <1>6 DEF Types, Placed, Deliver, hosting, log

LEMMA ClaimTypes ==
    ASSUME LeaseAssumption, Types, Placed, NEW p \in People,
           (\E override \in BOOLEAN : ClaimByPerson(p, override)) \/ ReleaseByPerson(p)
    PROVE  Types' /\ Placed'
<1>1. task.review \in Deliveries /\ UNCHANGED <<work, hosting, lease, member, closes, log, turns>>
  <2>1. Open(task.review) /\ UNCHANGED <<work, hosting, lease, member, closes, log, turns>>
      BY DEF ClaimByPerson, ReleaseByPerson
  <2>2. task.review \in 0..MaxDeliveries BY DEF Types, TaskRows
  <2> QED BY <2>1, <2>2 DEF Open, Deliveries, LeaseAssumption
<1>2. reviews' \in [Deliveries -> ReviewRows]
  <2>1. ASSUME NEW override \in BOOLEAN, ClaimByPerson(p, override)
        PROVE  reviews' \in [Deliveries -> ReviewRows]
    <3>1. Started(reviews[task.review], p, now, FALSE, override) \in ReviewRows
        BY <1>1, ReviewTypes DEF Types, Actors
    <3> QED BY <2>1, <3>1 DEF ClaimByPerson, Types
  <2>2. CASE ReleaseByPerson(p)
    <3>1. Returned(reviews[task.review]) \in ReviewRows BY <1>1, ReviewTypes DEF Types
    <3> QED BY <2>2, <3>1 DEF ReleaseByPerson, Types
  <2> QED BY <2>1, <2>2
<1> QED BY <1>1, <1>2 DEF Types, Placed, work, hosting, log

LEMMA CloseTypes ==
    ASSUME LeaseAssumption, Types, Placed, NEW s \in Sessions, Close(s)
    PROVE  Types' /\ Placed'
<1> DEFINE a == sess[s].actor
<1>1. PICK retire \in {FALSE, MayRetire(s)}, away \in BOOLEAN :
          /\ thread' = IF retire \/ thread[a].status = "retired"
                       THEN [thread EXCEPT ![a].status = "retired"] ELSE thread
          /\ Logs("revoked", IF (retire \/ thread[a].status = "retired") /\ away THEN {a} ELSE {})
          /\ closes' = IF away THEN closes \cup {s} ELSE closes
          /\ IF away THEN UNCHANGED <<lease, reviews>> ELSE ReleaseLeaseRow(s)
          /\ turns' = IF away THEN turns + 1 ELSE turns
    BY DEF Close
<1>2. a \in Sessions /\ a \in Actors BY DEF Close, Live, Placed, Actors
<1>3. sess' \in [Sessions -> SessionRows] /\ \A v \in Sessions : sess'[v].actor = sess[v].actor
  <2>1. \A row \in SessionRows : /\ [row EXCEPT !.status = "closed"] \in SessionRows
                                 /\ [row EXCEPT !.status = "closed"].actor = row.actor
      BY DEF SessionRows
  <2>2. sess[s] \in SessionRows BY DEF Types
  <2>3. sess' = [sess EXCEPT ![s] = [sess[s] EXCEPT !.status = "closed"]] BY DEF Close
  <2> QED BY <2>1, <2>2, <2>3 DEF Types
<1>4. thread' \in [Sessions -> ThreadRows]
  <2>1. [thread[a] EXCEPT !.status = "retired"] \in ThreadRows BY <1>2, RowTypes DEF Types
  <2>2. [thread EXCEPT ![a].status = "retired"] \in [Sessions -> ThreadRows] BY <2>1 DEF Types
  <2> QED BY <1>1, <2>2 DEF Types
<1>5. now' \in Nat /\ losses' \subseteq Events(now') /\ lost' \in [Actors -> 0..now']
    BY <1>1, <1>2, LogTypes DEF Types
<1>6. reviews' \in [Deliveries -> ReviewRows] /\ lease' \in [Sessions -> LeaseRows]
  <2>1. CASE away BY <1>1, <2>1 DEF Types
  <2>2. CASE ~away BY <1>1, <2>2, ReleaseTypes DEF Types
  <2> QED BY <2>1, <2>2
<1>7. closes' \subseteq Sessions /\ turns' \in Nat BY <1>1 DEF Types
<1>8. UNCHANGED <<work, member>> BY DEF Close
<1>9. Placed'
  <2>1. \A v \in Sessions : sess'[v].status # "none" => sess[v].status # "none"
      BY DEF Close, Types, Live
  <2> QED BY <1>3, <1>8, <2>1 DEF Placed, work
<1> QED BY <1>3, <1>4, <1>5, <1>6, <1>7, <1>8, <1>9 DEF Types, work

LEMMA EventTypes ==
    ASSUME LeaseAssumption, Types, Placed, Consumed \/ \E a \in Sessions : RetireThread(a)
    PROVE  Types' /\ Placed'
<1>1. CASE LeaseReleased
  <2>1. PICK s \in closes : ReleaseLeaseRow(s) /\ closes' = closes \ {s}
                            /\ UNCHANGED <<work, hosting, member, log, turns>>
      BY <1>1 DEF LeaseReleased
  <2>2. reviews' \in [Deliveries -> ReviewRows] /\ lease' \in [Sessions -> LeaseRows]
      BY <2>1, ReleaseTypes DEF Types
  <2> QED BY <2>1, <2>2 DEF Types, Placed, work, hosting, log
<1>2. ASSUME NEW type \in {"revoked", "demoted"}, ClaimsReleased(type) PROVE Types' /\ Placed'
  <2>1. PICK e \in losses :
            /\ reviews' = [r \in Deliveries |-> Recovered(reviews[r], e)]
            /\ losses' = losses \ {e}
            /\ UNCHANGED <<work, hosting, lease, member, closes, now, lost, turns>>
      BY <1>2 DEF ClaimsReleased
  <2>2. reviews' \in [Deliveries -> ReviewRows]
      BY <2>1, ReviewTypes DEF Types
  <2> QED BY <2>1, <2>2 DEF Types, Placed, work, hosting
<1>3. ASSUME NEW a \in Sessions, RetireThread(a) PROVE Types' /\ Placed'
  <2>1. RevokedWith({a}) \in SUBSET Actors BY DEF RevokedWith, Actors
  <2>2. now' \in Nat /\ losses' \subseteq Events(now') /\ lost' \in [Actors -> 0..now']
      BY <1>3, <2>1, LogTypes DEF Types, RetireThread
  <2>3. thread' \in [Sessions -> ThreadRows] BY <1>3, RetireTypes DEF RetireThread, Types
  <2>4. UNCHANGED <<task, movers, reviews, sess, lease, member, closes>> /\ turns' = turns + 1
      BY <1>3 DEF RetireThread, work
  <2> QED BY <2>2, <2>3, <2>4 DEF Types, Placed
<1> QED BY <1>1, <1>2, <1>3 DEF Consumed

LEMMA RosterTypes ==
    ASSUME LeaseAssumption, Types, Placed, NEW p \in People,
           ExtendLimit(p) \/ \E role \in NewRoles : SetRole(p, role)
    PROVE  Types' /\ Placed'
<1>1. CASE ExtendLimit(p)
  <2>1. task' \in TaskRows
        /\ task'.state = task.state /\ task'.review = task.review
    <3>1. task \in TaskRows BY DEF Types
    <3>2. task.allowed + 1 \in Nat /\ task.state \in States /\ task.review \in 0..MaxDeliveries
        BY <3>1 DEF TaskRows
    <3>3. task' = [task EXCEPT !.allowed = task.allowed + 1] BY <1>1 DEF ExtendLimit
    <3>4. task' \in TaskRows BY <3>1, <3>2, <3>3, RowTypes
    <3>5. task'.state = task.state /\ task'.review = task.review BY <3>1, <3>3 DEF TaskRows
    <3> QED BY <3>4, <3>5
  <2> QED BY <1>1, <2>1 DEF ExtendLimit, Types, Placed, hosting, log
<1>2. ASSUME NEW role \in NewRoles, SetRole(p, role) PROVE Types' /\ Placed'
  <2>1. role \in Roles \cup {"none"} BY DEF LeaseAssumption
  <2>2. member' \in [People -> [role : Roles \cup {"none"}, id : Nat]]
    <3>1. [role |-> role, id |-> turns + 1] \in [role : Roles \cup {"none"}, id : Nat]
        BY <2>1 DEF Types
    <3>2. member' = [member EXCEPT ![p] = [role |-> role, id |-> turns + 1]] BY <1>2 DEF SetRole
    <3> QED BY <3>1, <3>2 DEF Types
  <2>3. now' \in Nat /\ losses' \subseteq Events(now') /\ lost' \in [Actors -> 0..now']
    <3>1. {p} \in SUBSET Actors BY DEF Actors
    <3>2. Logs("revoked", {p}) \/ Logs("demoted", {p}) \/ UNCHANGED log BY <1>2 DEF SetRole
    <3> QED BY <3>1, <3>2, LogTypes DEF Types, log
  <2> QED BY <1>2, <2>2, <2>3 DEF SetRole, Types, Placed, work, hosting
<1> QED BY <1>1, <1>2

LEMMA ActivateTypes ==
    ASSUME Types, Placed, NEW s \in Sessions, Activate(s)
    PROVE  Types' /\ Placed'
<1>1. \A row \in SessionRows : /\ [row EXCEPT !.status = "active"] \in SessionRows
                               /\ [row EXCEPT !.status = "active"].actor = row.actor
    BY DEF SessionRows
<1>2. sess[s] \in SessionRows /\ sess[s].status = "offered" BY DEF Types, Activate
<1>3. sess' = [sess EXCEPT ![s] = [sess[s] EXCEPT !.status = "active"]] BY DEF Activate
<1>4. sess' \in [Sessions -> SessionRows] BY <1>1, <1>2, <1>3 DEF Types
<1>5. \A v \in Sessions : sess'[v].status # "none" => sess'[v].actor \in Sessions
    BY <1>1, <1>2, <1>3 DEF Types, Placed
<1> QED BY <1>4, <1>5 DEF Activate, Types, Placed, work, log

LEMMA TypeStep == LeaseAssumption /\ Types /\ Placed /\ [Next]_vars => Types' /\ Placed'
<1> SUFFICES ASSUME LeaseAssumption, Types, Placed, [Next]_vars PROVE Types' /\ Placed' OBVIOUS
<1>1. ASSUME NEW p \in People, ByPerson(p) PROVE Types' /\ Placed'
  <2>1. ASSUME NEW verdict \in Verdicts, VerdictByPerson(p, verdict) PROVE Types' /\ Placed'
    <3>1. p \in Actors /\ task.state = "in_review" /\ Submit(p, verdict)
        BY <2>1 DEF VerdictByPerson, HoldsClaim, Actors
    <3> QED BY <3>1, MoveTypes
  <2>2. CASE FailByPerson(p)
    <3>1. p \in Actors /\ MarkFailed(p) BY <2>2 DEF FailByPerson, Actors
    <3> QED BY <3>1, MoveTypes
  <2> QED BY <1>1, <2>1, <2>2, OfferTypes, ClaimTypes, RosterTypes DEF ByPerson
<1>2. ASSUME NEW s \in Sessions, ByWorker(s) PROVE Types' /\ Placed'
  <2>1. ASSUME NEW verdict \in Verdicts, VerdictByWorker(s, verdict) PROVE Types' /\ Placed'
    <3>1. /\ sess[s].actor \in Actors /\ task.state = "in_review" /\ Submit(sess[s].actor, verdict)
        BY <2>1 DEF VerdictByWorker, HoldsClaim, Holds, Placed, Actors
    <3> QED BY <3>1, MoveTypes
  <2>2. CASE FailByWorker(s)
    <3>1. sess[s].actor \in Actors /\ MarkFailed(sess[s].actor)
        BY <2>2 DEF FailByWorker, Holds, Placed, Actors
    <3> QED BY <3>1, MoveTypes
  <2> QED BY <1>2, <2>1, <2>2, ActivateTypes, DeliverTypes DEF ByWorker
<1>3. CASE UNCHANGED vars BY <1>3 DEF vars, Types, Placed, work, hosting, log
<1> QED BY <1>1, <1>2, <1>3, CloseTypes, EventTypes DEF Next

\* Every variable keeps its type: the rows of tasks, reviews, sessions, leases, threads and
\* memberships, and the log.
THEOREM TypeCorrect == Spec => []TypeOK
<1> USE LeaseAssumption
<1>1. Init => Types /\ Placed BY TypeInit
<1>2. Types /\ Placed /\ [Next]_vars => Types' /\ Placed' BY TypeStep
<1>3. Types /\ Placed => TypeOK BY TypeNames
<1> QED BY <1>1, <1>2, <1>3, PTL DEF Spec

-----------------------------------------------------------------------------
(* The steps, by what they do to the work and its reviews.                 *)

SameWork == task'.state = task.state /\ task'.review = task.review /\ movers' = movers
Taken(r) ==
    /\ reviews[r].status = "requested"
    /\ \E actor \in Actors, agent \in BOOLEAN, override \in BOOLEAN :
          /\ agent <=> actor \in Sessions
          /\ reviews'[r] = Started(reviews[r], actor, now', agent, override)
GivenBack(r) == reviews[r].status = "started" /\ reviews'[r] = Returned(reviews[r])

\* The work stays where it is, and every review too but for a claim made or given back.
ClaimStep ==
    /\ SameWork /\ now' >= now
    /\ \A r \in Deliveries : reviews'[r] = reviews[r] \/ Taken(r) \/ GivenBack(r)

Moves ==
    \/ \E s \in Sessions : Deliver(s)
    \/ \E actor \in Actors : MarkFailed(actor)
    \/ \E p \in People, verdict \in Verdicts : VerdictByPerson(p, verdict)
    \/ \E s \in Sessions, verdict \in Verdicts : VerdictByWorker(s, verdict)

LEMMA StartedFields ==
    ASSUME NEW review \in ReviewRows, NEW actor, NEW at, NEW agent, NEW override
    PROVE  LET new == Started(review, actor, at, agent, override) IN
           /\ new.status = "started" /\ new.reviewer = actor /\ new.claim = review.claim + 1
           /\ new.since = at /\ new.byAgent = agent /\ new.override = override
           /\ new.rev = review.rev /\ new.verdict = review.verdict
           /\ new.producer = review.producer /\ new.excluded = review.excluded
BY DEF Started, ReviewRows

LEMMA ReturnedFields ==
    ASSUME NEW review \in ReviewRows
    PROVE  LET new == Returned(review) IN
           /\ new.status = "requested" /\ new.reviewer = Nobody /\ new.claim = review.claim
           /\ new.rev = review.rev /\ new.verdict = review.verdict
           /\ new.producer = review.producer /\ new.excluded = review.excluded
BY DEF Returned, ReviewRows

\* What release and recovery do to one review: nothing, or they give it back.
LEMMA ReleaseGivesBack ==
    ASSUME Types, NEW s \in Sessions, ReleaseLeaseRow(s)
    PROVE  \A r \in Deliveries : reviews'[r] = reviews[r] \/ GivenBack(r)
<1>1. CASE ~lease[s].live BY <1>1 DEF ReleaseLeaseRow
<1>2. CASE lease[s].live
  <2>1. reviews' = [r \in Deliveries |-> IF r = lease[s].review
               THEN ReleaseClaim(reviews[r], sess[s].actor, lease[s].claim) ELSE reviews[r]]
      BY <1>2 DEF ReleaseLeaseRow
  <2> QED BY <2>1 DEF ReleaseClaim, GivenBack
<1> QED BY <1>1, <1>2

LEMMA LogOnward == ASSUME now \in Nat, NEW type, NEW actors, Logs(type, actors) PROVE now' >= now
BY DEF Logs

LEMMA Steps ==
    ASSUME LeaseAssumption, Types, Placed, [Next]_vars
    PROVE  ClaimStep \/ Moves
<1>n. now \in Nat /\ now >= now BY DEF Types
<1>1. ASSUME NEW s \in Sessions, NEW p \in People, NEW role \in {"producer", "reviewer"}, Offer(s, p, role)
      PROVE  ClaimStep
  <2>1. PICK actor \in Sessions :
            /\ UNCHANGED log \/ Logs("revoked", RevokedWith(Superseded(role)))
            /\ Acquire(s, role, actor)
      BY <1>1 DEF Offer
  <2>2. SameWork /\ now' >= now BY <1>1, <1>n, <2>1, LogOnward DEF Offer, SameWork, work, log
  <2>3. CASE role = "producer" BY <2>1, <2>2, <2>3 DEF Acquire, ClaimStep
  <2>4. CASE role = "reviewer"
    <3>1. task.review \in Deliveries /\ reviews[task.review].status = "requested"
        BY <1>1, <2>4 DEF Offer, LeaseRole, Placed
    <3>2. reviews' = [reviews EXCEPT ![task.review] = Started(@, actor, now', TRUE, FALSE)]
        BY <2>1, <2>4 DEF Acquire
    <3>3. Taken(task.review) BY <3>1, <3>2 DEF Taken, Types, Actors
    <3> QED BY <2>2, <3>2, <3>3 DEF ClaimStep, Types
  <2> QED BY <2>3, <2>4
<1>2. ASSUME NEW p \in People, NEW override \in BOOLEAN, ClaimByPerson(p, override) PROVE ClaimStep
  <2>1. task.review \in Deliveries
      BY <1>2 DEF ClaimByPerson, Open, Types, TaskRows, Deliveries, LeaseAssumption
  <2>2. /\ reviews[task.review].status = "requested"
        /\ reviews' = [reviews EXCEPT ![task.review] = Started(reviews[task.review], p, now, FALSE, override)]
        /\ now' = now /\ SameWork
      BY <1>2 DEF ClaimByPerson, SameWork, work, log
  <2>3. p \in Actors /\ p \notin Sessions BY DEF Actors, LeaseAssumption
  <2>4. Taken(task.review) BY <2>1, <2>2, <2>3 DEF Taken, Types
  <2> QED BY <2>2, <2>4, <1>n DEF ClaimStep, Types
<1>3. ASSUME NEW p \in People, ReleaseByPerson(p) PROVE ClaimStep
  <2>1. /\ reviews[task.review].status = "started"
        /\ reviews' = [reviews EXCEPT ![task.review] = Returned(@)]
        /\ now' = now /\ SameWork
      BY <1>3 DEF ReleaseByPerson, HandReleased, SameWork, work, log
  <2> QED BY <2>1, <1>n DEF ClaimStep, GivenBack, Types
<1>4. ASSUME NEW s \in Sessions, Close(s) PROVE ClaimStep
  <2>0. PICK away \in BOOLEAN :
            /\ \E actors : Logs("revoked", actors)
            /\ IF away THEN UNCHANGED <<lease, reviews>> ELSE ReleaseLeaseRow(s)
      BY <1>4 DEF Close
  <2>1. PICK actors : Logs("revoked", actors) BY <2>0
  <2>2. SameWork /\ now' >= now BY <1>4, <1>n, <2>1, LogOnward DEF Close, SameWork, work
  <2> QED BY <2>0, <2>2, ReleaseGivesBack DEF ClaimStep
<1>5. ASSUME NEW a \in Sessions, RetireThread(a) PROVE ClaimStep
  <2>1. SameWork /\ now' >= now /\ reviews' = reviews
      BY <1>5, <1>n, LogOnward DEF RetireThread, SameWork, work
  <2> QED BY <2>1 DEF ClaimStep
<1>6. CASE LeaseReleased
  <2>1. PICK s \in closes : ReleaseLeaseRow(s) /\ UNCHANGED <<work, log>>
      BY <1>6 DEF LeaseReleased
  <2>2. s \in Sessions BY DEF Types
  <2> QED BY <2>1, <2>2, <1>n, ReleaseGivesBack DEF ClaimStep, SameWork, work, log
<1>7. ASSUME NEW type \in {"revoked", "demoted"}, ClaimsReleased(type) PROVE ClaimStep
  <2>1. PICK e \in losses :
            /\ reviews' = [r \in Deliveries |-> Recovered(reviews[r], e)]
            /\ UNCHANGED <<work, now>>
      BY <1>7 DEF ClaimsReleased
  <2> QED BY <2>1, <1>n DEF ClaimStep, SameWork, work, Recovered, GivenBack
<1>8. ASSUME NEW p \in People, NEW role \in NewRoles, SetRole(p, role) PROVE ClaimStep
  <2>1. UNCHANGED log \/ Logs("revoked", {p}) \/ Logs("demoted", {p}) BY <1>8 DEF SetRole
  <2>2. now' >= now BY <2>1, <1>n, LogOnward DEF log
  <2> QED BY <1>8, <2>2 DEF SetRole, ClaimStep, SameWork, work
<1>9. ASSUME NEW p \in People, ExtendLimit(p) PROVE ClaimStep
  <2>1. task' = [task EXCEPT !.allowed = @ + 1] /\ task \in TaskRows BY <1>9 DEF ExtendLimit, Types
  <2>2. task'.state = task.state /\ task'.review = task.review BY <2>1 DEF TaskRows
  <2> QED BY <1>9, <2>2, <1>n DEF ExtendLimit, ClaimStep, SameWork, log
<1>10. ASSUME NEW s \in Sessions, Activate(s) PROVE ClaimStep
    BY <1>10, <1>n DEF Activate, ClaimStep, SameWork, work, log
<1>11. CASE UNCHANGED vars BY <1>11, <1>n DEF vars, ClaimStep, SameWork, work, log
<1>12. ASSUME NEW p \in People, FailByPerson(p) PROVE Moves
    BY <1>12 DEF FailByPerson, Moves, Actors
<1>13. ASSUME NEW s \in Sessions, FailByWorker(s) PROVE Moves
    BY <1>13 DEF FailByWorker, Moves, Holds, Placed, Actors
<1>14. ASSUME NEW p \in People, ByPerson(p) PROVE ClaimStep \/ Moves
    BY <1>14, <1>1, <1>2, <1>3, <1>8, <1>9, <1>12 DEF ByPerson, Moves
<1>15. ASSUME NEW s \in Sessions, ByWorker(s) PROVE ClaimStep \/ Moves
    BY <1>15, <1>10, <1>13 DEF ByWorker, Moves
<1> QED BY <1>4, <1>5, <1>6, <1>7, <1>11, <1>14, <1>15 DEF Next, Consumed

-----------------------------------------------------------------------------
(* One review, and the verdict the work is done by.                        *)

\* A claim has its holder; a verdict is given once.
Claims ==
    \A r \in Deliveries :
        LET review == reviews[r] IN
        /\ review.status = "started" =>
              /\ review.reviewer \in Actors
              /\ review.byAgent <=> review.reviewer \in Sessions
              /\ review.claim >= 1 /\ review.since <= now
        /\ review.verdict # "none" => review.status = "submitted"

\* Done work has its verdict; work that goes on was not rejected.
Decided ==
    /\ task.state = "done" => reviews[task.review].status = "submitted"
    /\ task.state \in {"in_progress", "in_review"} /\ task.review # 0 => reviews[task.review].verdict # "fail"

\* A revision has at most one review.
Numbered ==
    \A r \in Deliveries : reviews[r].status # "none" =>
        /\ reviews[r].rev <= Revision
        /\ \A q \in Deliveries : reviews[q].status # "none" /\ reviews[q].rev = reviews[r].rev => q = r

Judgement == Types /\ Placed /\ OneOpenReview /\ DoneWasPassed /\ Claims /\ Decided /\ Numbered

LEMMA JudgementInit == LeaseAssumption /\ Init => Judgement
<1> SUFFICES ASSUME LeaseAssumption, Init PROVE Judgement OBVIOUS
<1>1. Types /\ Placed BY TypeInit
<1>2. \A r \in Deliveries : reviews[r].status = "none" /\ reviews[r].verdict = "none"
    BY DEF Init, NoReview
<1>3. \A r : r \in 0..MaxDeliveries /\ Open(r) => r \in Deliveries BY DEF Open, Deliveries, LeaseAssumption
<1>4. OneOpenReview /\ DoneWasPassed /\ Claims /\ Decided /\ Numbered
    BY <1>2 DEF Init, OneOpenReview, DoneWasPassed, Claims, Decided, Numbered, Open
<1> QED BY <1>1, <1>4 DEF Judgement

\* What a claim made or given back leaves of a review.
LEMMA ClaimStepRows ==
    ASSUME Types, ClaimStep, NEW r \in Deliveries
    PROVE  /\ reviews'[r].rev = reviews[r].rev /\ reviews'[r].verdict = reviews[r].verdict
           /\ reviews'[r].producer = reviews[r].producer /\ reviews'[r].excluded = reviews[r].excluded
           /\ reviews'[r].status # "none" <=> reviews[r].status # "none"
           /\ Open(r)' <=> Open(r)
           /\ reviews[r].status \notin {"requested", "started"} => reviews'[r] = reviews[r]
<1>1. reviews[r] \in ReviewRows BY DEF Types
<1>2. CASE reviews'[r] = reviews[r] BY <1>2 DEF Open
<1>3. CASE Taken(r)
  <2>1. PICK actor, at, agent, override :
            reviews'[r] = Started(reviews[r], actor, at, agent, override)
      BY <1>3 DEF Taken
  <2>2. reviews[r].status = "requested" BY <1>3 DEF Taken
  <2> QED BY <1>1, <2>1, <2>2, StartedFields DEF Open
<1>4. CASE GivenBack(r) BY <1>1, <1>4, ReturnedFields DEF GivenBack, Open
<1> QED BY <1>2, <1>3, <1>4 DEF ClaimStep

LEMMA ClaimStepJudges ==
    ASSUME LeaseAssumption, Judgement, Types', Placed', ClaimStep
    PROVE  Judgement'
<1> USE DEF Judgement
<1>w. /\ task'.state = task.state /\ task'.review = task.review /\ movers' = movers
      /\ Revision' = Revision /\ now' >= now /\ now \in Nat /\ now' \in Nat
    BY DEF ClaimStep, SameWork, Revision, Types
<1>r. task.review \in 0..MaxDeliveries /\ \A r \in 0..MaxDeliveries : r # 0 => r \in Deliveries
    BY DEF Types, TaskRows, Deliveries, LeaseAssumption
<1>1. OneOpenReview'
  <2>1. \A r \in Deliveries : Open(r)' => task'.state = "in_review" /\ r = task'.review
      BY <1>w, ClaimStepRows DEF OneOpenReview
  <2>2. ASSUME task.state = "in_review"
        PROVE  Open(task.review)' /\ reviews'[task'.review].rev = Revision'
    <3>1. PICK q \in Deliveries : q = task.review BY <2>2 DEF Placed
    <3>2. Open(q) /\ reviews[q].rev = Revision BY <2>2, <3>1 DEF OneOpenReview
    <3>3. Open(q)' /\ reviews'[q].rev = Revision BY <3>2, ClaimStepRows
    <3>4. task'.review = q BY <3>1, <1>w
    <3> QED BY <3>3, <3>4, <1>w DEF Open
  <2> QED BY <2>1, <2>2, <1>w DEF OneOpenReview
<1>2. DoneWasPassed' /\ Decided'
  <2>1. ASSUME task.state = "done" PROVE reviews'[task.review] = reviews[task.review]
    <3>1. task.review \in Deliveries /\ reviews[task.review].status = "submitted"
        BY <2>1 DEF Placed, Decided
    <3> QED BY <3>1, ClaimStepRows
  <2>2. DoneWasPassed' BY <2>1, <1>w DEF DoneWasPassed, Excluded
  <2>3. task.review # 0 => reviews'[task.review].verdict = reviews[task.review].verdict
      BY <1>r, ClaimStepRows
  <2>4. Decided' BY <2>1, <2>3, <1>w DEF Decided
  <2> QED BY <2>2, <2>4
<1>3. Claims'
  <2>1. SUFFICES ASSUME NEW r \in Deliveries
        PROVE  /\ reviews'[r].status = "started" =>
                    /\ reviews'[r].reviewer \in Actors
                    /\ reviews'[r].byAgent <=> reviews'[r].reviewer \in Sessions
                    /\ reviews'[r].claim >= 1 /\ reviews'[r].since <= now'
               /\ reviews'[r].verdict # "none" => reviews'[r].status = "submitted"
      BY DEF Claims
  <2>2. reviews[r] \in ReviewRows /\ reviews[r].since \in Nat /\ reviews[r].claim \in Nat
      BY DEF Types, ReviewRows
  <2>3. CASE reviews'[r] = reviews[r] BY <2>2, <2>3, <1>w DEF Claims
  <2>4. CASE Taken(r)
    <3>1. PICK actor \in Actors, agent \in BOOLEAN, override \in BOOLEAN :
              /\ agent <=> actor \in Sessions
              /\ reviews'[r] = Started(reviews[r], actor, now', agent, override)
        BY <2>4 DEF Taken
    <3>2. /\ reviews'[r].status = "started" /\ reviews'[r].reviewer = actor
          /\ reviews'[r].claim = reviews[r].claim + 1 /\ reviews'[r].since = now'
          /\ reviews'[r].byAgent = agent /\ reviews'[r].verdict = reviews[r].verdict
        BY <3>1, <2>2, StartedFields
    <3>3. reviews[r].verdict = "none" BY <2>4 DEF Taken, Claims
    <3>4. reviews'[r].claim >= 1 /\ reviews'[r].since <= now' BY <3>2, <2>2, <1>w
    <3> QED BY <3>1, <3>2, <3>3, <3>4
  <2>5. CASE GivenBack(r)
    <3>1. reviews'[r].status = "requested" /\ reviews'[r].verdict = reviews[r].verdict
        BY <2>2, <2>5, ReturnedFields DEF GivenBack
    <3> QED BY <2>5, <3>1 DEF GivenBack, Claims
  <2> QED BY <2>3, <2>4, <2>5 DEF ClaimStep
<1>4. Numbered' BY <1>w, ClaimStepRows DEF Numbered
<1> QED BY <1>1, <1>2, <1>3, <1>4

LEMMA DeliverJudges ==
    ASSUME LeaseAssumption, Judgement, Types', Placed', NEW s \in Sessions, Deliver(s)
    PROVE  Judgement'
<1> USE DEF Judgement
<1>1. PICK r \in Deliveries :
          /\ reviews[r].status = "none"
          /\ reviews' = [reviews EXCEPT ![r] = Requested(Revision + 1, sess[s].actor, sess[s].source)]
          /\ task' = [task EXCEPT !.state = "in_review", !.review = r]
    BY DEF Deliver
<1>2. task'.state = "in_review" /\ task'.review = r BY <1>1 DEF Types, TaskRows
<1>3. /\ reviews'[r].status = "requested" /\ reviews'[r].verdict = "none"
      /\ reviews'[r].rev = Revision + 1
    BY <1>1 DEF Types, Requested, NoReview
<1>4. \A q \in Deliveries : q # r => reviews'[q] = reviews[q] BY <1>1 DEF Types
<1>5. Revision' = Revision + 1 /\ Revision \in Nat /\ now' = now
  <2>1. movers' = Append(movers, sess[s].actor) /\ now' = now BY DEF Deliver, log
  <2> QED BY <2>1 DEF Revision, Types
<1>6. \A q \in Deliveries : ~Open(q) BY DEF Deliver, OneOpenReview
<1>7. 0 \notin Deliveries BY DEF Deliveries, LeaseAssumption
<1>8. OneOpenReview'
  <2>1. \A q \in Deliveries : Open(q)' => q = r BY <1>4, <1>6, <1>7 DEF Open
  <2>2. Open(r)' BY <1>3, <1>7 DEF Open
  <2>3. Open(task.review)' BY <1>2, <2>2 DEF Open
  <2> QED BY <1>2, <1>3, <1>5, <2>1, <2>3 DEF OneOpenReview
<1>9. DoneWasPassed' /\ Decided' BY <1>2, <1>3 DEF DoneWasPassed, Decided
<1>10. Claims'
  <2>1. SUFFICES ASSUME NEW q \in Deliveries
        PROVE  /\ reviews'[q].status = "started" =>
                    /\ reviews'[q].reviewer \in Actors
                    /\ reviews'[q].byAgent <=> reviews'[q].reviewer \in Sessions
                    /\ reviews'[q].claim >= 1 /\ reviews'[q].since <= now'
               /\ reviews'[q].verdict # "none" => reviews'[q].status = "submitted"
      BY DEF Claims
  <2>2. CASE q = r BY <2>2, <1>3
  <2>3. CASE q # r BY <2>3, <1>4, <1>5 DEF Claims
  <2> QED BY <2>2, <2>3
<1>11. Numbered'
  <2>1. \A q \in Deliveries : q # r /\ reviews[q].status # "none" => reviews[q].rev <= Revision
      BY DEF Numbered
  <2>2. \A q \in Deliveries : reviews[q].rev \in Nat BY DEF Types, ReviewRows
  <2> QED BY <1>3, <1>4, <1>5, <2>1, <2>2 DEF Numbered
<1> QED BY <1>8, <1>9, <1>10, <1>11

LEMMA FailJudges ==
    ASSUME LeaseAssumption, Judgement, Types', Placed', NEW actor \in Actors, MarkFailed(actor)
    PROVE  Judgement'
<1> USE DEF Judgement
<1>1. task'.state = "failed" /\ task'.review = task.review
    BY DEF MarkFailed, Types, TaskRows
<1>2. Revision' = Revision + 1 /\ Revision \in Nat /\ now' = now
  <2>1. movers' = Append(movers, actor) /\ now' = now BY DEF MarkFailed, log
  <2> QED BY <2>1 DEF Revision, Types
<1>3. \A r \in Deliveries :
         /\ \/ reviews'[r] = reviews[r]
            \/ Open(r) /\ reviews'[r] = [reviews[r] EXCEPT !.status = "superseded"]
         /\ ~Open(r)'
  <2>1. CASE task.state = "in_review"
    <3>1. Supersede BY <2>1 DEF MarkFailed
    <3>2. SUFFICES ASSUME NEW r \in Deliveries
          PROVE  /\ \/ reviews'[r] = reviews[r]
                    \/ Open(r) /\ reviews'[r] = [reviews[r] EXCEPT !.status = "superseded"]
                 /\ ~Open(r)'
        OBVIOUS
    <3>3. reviews[r] \in ReviewRows BY DEF Types
    <3>4. CASE Open(r)
      <4>1. r = task.review BY <3>4 DEF OneOpenReview
      <4>2. reviews'[r] = [reviews[r] EXCEPT !.status = "superseded"] BY <3>1, <3>4, <4>1 DEF Supersede
      <4>3. reviews'[r].status = "superseded" BY <4>2, <3>3 DEF ReviewRows
      <4> QED BY <3>4, <4>2, <4>3 DEF Open
    <3>5. CASE ~Open(r)
      <4>1. reviews'[r] = reviews[r] BY <3>1, <3>5 DEF Supersede
      <4> QED BY <3>5, <4>1 DEF Open
    <3> QED BY <3>4, <3>5
  <2>2. CASE task.state # "in_review"
    <3>1. reviews' = reviews /\ \A r \in Deliveries : ~Open(r)
        BY <2>2 DEF MarkFailed, OneOpenReview
    <3> QED BY <3>1 DEF Open
  <2> QED BY <2>1, <2>2
<1>4. \A r \in Deliveries :
         /\ reviews'[r].rev = reviews[r].rev /\ reviews'[r].verdict = reviews[r].verdict
         /\ reviews'[r].status # "none" <=> reviews[r].status # "none"
         /\ reviews'[r].status = "started" => reviews'[r] = reviews[r]
  <2>1. TAKE r \in Deliveries
  <2>2. CASE reviews'[r] = reviews[r] BY <2>2
  <2>3. CASE Open(r) /\ reviews'[r] = [reviews[r] EXCEPT !.status = "superseded"]
    <3>1. reviews[r] \in ReviewRows BY DEF Types
    <3>2. /\ reviews'[r].status = "superseded" /\ reviews'[r].rev = reviews[r].rev
          /\ reviews'[r].verdict = reviews[r].verdict
        BY <2>3, <3>1 DEF ReviewRows
    <3> QED BY <2>3, <3>2 DEF Open
  <2> QED BY <1>3, <2>2, <2>3
<1>5. OneOpenReview' BY <1>1, <1>3 DEF OneOpenReview
<1>6. DoneWasPassed' /\ Decided' BY <1>1 DEF DoneWasPassed, Decided
<1>7. Claims'
  <2>1. \A r \in Deliveries : reviews'[r].verdict # "none" => reviews'[r].status = "submitted"
    <3>1. \A r \in Deliveries : reviews[r].verdict # "none" => reviews[r].status = "submitted"
        BY DEF Claims
    <3>2. TAKE r \in Deliveries
    <3>3. CASE reviews'[r] = reviews[r] BY <3>1, <3>3
    <3>4. CASE Open(r) BY <3>1, <3>4, <1>4 DEF Open
    <3> QED BY <1>3, <3>3, <3>4
  <2> QED BY <2>1, <1>2, <1>4 DEF Claims
<1>8. Numbered'
  <2>1. \A r \in Deliveries : reviews[r].rev \in Nat BY DEF Types, ReviewRows
  <2> QED BY <2>1, <1>2, <1>4 DEF Numbered
<1> QED BY <1>5, <1>6, <1>7, <1>8

\* What a verdict makes of the task and of its review.
LEMMA SubmitRows ==
    ASSUME Types, task.review \in Deliveries, NEW actor, NEW verdict \in Verdicts, Submit(actor, verdict)
    PROVE  /\ task'.review = task.review /\ task'.state \in {"done", "failed", "in_progress"}
           /\ task'.state = "done" <=> verdict = "pass"
           /\ task'.state = "failed" <=> verdict = "fail"
           /\ reviews' = [reviews EXCEPT ![task.review] =
                             [reviews[task.review] EXCEPT !.status = "submitted", !.verdict = verdict]]
           /\ LET new == reviews'[task.review]
                  old == reviews[task.review] IN
              /\ new.status = "submitted" /\ new.verdict = verdict
              /\ new.rev = old.rev /\ new.reviewer = old.reviewer /\ new.override = old.override
              /\ new.byAgent = old.byAgent /\ new.producer = old.producer /\ new.excluded = old.excluded
           /\ \A r \in Deliveries : r # task.review => reviews'[r] = reviews[r]
           /\ movers' = Append(movers, actor) /\ now' = now
<1>1. task' = Reviewed(verdict) /\ task \in TaskRows BY DEF Submit, Types
<1>2. /\ task'.review = task.review /\ task'.state \in {"done", "failed", "in_progress"}
      /\ task'.state = "done" <=> verdict = "pass"
      /\ task'.state = "failed" <=> verdict = "fail"
  <2>1. CASE verdict = "pass"
    <3>1. task' = [task EXCEPT !.state = "done", !.used = task.used] BY <1>1, <2>1 DEF Reviewed
    <3> QED BY <3>1, <2>1, <1>1 DEF TaskRows
  <2>2. CASE verdict = "fail"
    <3>1. task' = [task EXCEPT !.state = "failed", !.used = task.used] BY <1>1, <2>2 DEF Reviewed
    <3> QED BY <3>1, <2>2, <1>1 DEF TaskRows
  <2>3. CASE verdict = "needs_changes"
    <3>1. task' = [task EXCEPT !.state = "in_progress", !.used = task.used + 1] BY <1>1, <2>3 DEF Reviewed
    <3> QED BY <3>1, <2>3, <1>1 DEF TaskRows
  <2> QED BY <2>1, <2>2, <2>3 DEF Verdicts
<1>3. reviews' = [reviews EXCEPT ![task.review] =
                     [reviews[task.review] EXCEPT !.status = "submitted", !.verdict = verdict]]
    BY DEF Submit, Types
<1>4. reviews[task.review] \in ReviewRows BY DEF Types
<1>5. LET new == reviews'[task.review]
          old == reviews[task.review] IN
      /\ new.status = "submitted" /\ new.verdict = verdict
      /\ new.rev = old.rev /\ new.reviewer = old.reviewer /\ new.override = old.override
      /\ new.byAgent = old.byAgent /\ new.producer = old.producer /\ new.excluded = old.excluded
  <2>1. reviews'[task.review] = [reviews[task.review] EXCEPT !.status = "submitted", !.verdict = verdict]
      BY <1>3 DEF Types
  <2> QED BY <2>1, <1>4 DEF ReviewRows
<1>6. \A r \in Deliveries : r # task.review => reviews'[r] = reviews[r] BY <1>3 DEF Types
<1> QED BY <1>2, <1>3, <1>5, <1>6 DEF Submit, log

\* A verdict on a claimed review.
LEMMA SubmitJudges ==
    ASSUME LeaseAssumption, Judgement, Types', Placed',
           NEW actor \in Actors, NEW claim, NEW verdict \in Verdicts, HoldsClaim(actor, claim),
           verdict = "pass" => \/ reviews[task.review].override
                               \/ reviews[task.review].byAgent /\ ~Excluded(reviews[task.review], actor),
           Submit(actor, verdict)
    PROVE  Judgement'
<1> USE DEF Judgement
<1>1. PICK q \in Deliveries : q = task.review BY DEF HoldsClaim, Placed
<1>2. /\ task.state = "in_review" /\ reviews[q].status = "started" /\ reviews[q].reviewer = actor
      /\ reviews[q].rev = Revision
    BY <1>1 DEF HoldsClaim
<1>3. /\ task'.review = q /\ task'.state \in {"done", "failed", "in_progress"}
      /\ task'.state = "done" <=> verdict = "pass"
      /\ task'.state = "failed" <=> verdict = "fail"
    BY <1>1, SubmitRows
<1>4. /\ reviews'[q].status = "submitted" /\ reviews'[q].verdict = verdict
      /\ reviews'[q].rev = reviews[q].rev /\ reviews'[q].reviewer = reviews[q].reviewer
      /\ reviews'[q].override = reviews[q].override /\ reviews'[q].byAgent = reviews[q].byAgent
      /\ reviews'[q].producer = reviews[q].producer /\ reviews'[q].excluded = reviews[q].excluded
    BY <1>1, SubmitRows
<1>5. \A r \in Deliveries : r # q => reviews'[r] = reviews[r] BY <1>1, SubmitRows
<1>6. movers' = Append(movers, actor) /\ now' = now BY <1>1, SubmitRows
<1>7. Revision' = Revision + 1 /\ Revision \in Nat /\ movers'[Revision'] = actor
    BY <1>6 DEF Revision, Types
<1>8. OneOpenReview'
  <2>1. \A r \in Deliveries : r # q => ~Open(r) BY <1>1 DEF OneOpenReview
  <2>2. \A r \in Deliveries : ~Open(r)' BY <2>1, <1>4, <1>5 DEF Open
  <2> QED BY <2>2, <1>3 DEF OneOpenReview
<1>9. DoneWasPassed'
  <2>1. SUFFICES ASSUME verdict = "pass"
        PROVE  /\ reviews'[q].verdict = "pass"
               /\ reviews'[q].rev + 1 = Revision'
               /\ reviews'[q].reviewer = movers'[Revision']
               /\ \/ reviews'[q].override
                  \/ reviews'[q].byAgent /\ ~Excluded(reviews'[q], reviews'[q].reviewer)
      BY <1>3 DEF DoneWasPassed, Excluded
  <2>2. ~Excluded(reviews[q], actor) => ~Excluded(reviews'[q], reviews'[q].reviewer)
      BY <1>2, <1>4 DEF Excluded
  <2> QED BY <2>1, <2>2, <1>1, <1>2, <1>4, <1>7
<1>10. Decided' BY <1>3, <1>4 DEF Decided
<1>11. Claims'
  <2>1. SUFFICES ASSUME NEW r \in Deliveries
        PROVE  /\ reviews'[r].status = "started" =>
                    /\ reviews'[r].reviewer \in Actors
                    /\ reviews'[r].byAgent <=> reviews'[r].reviewer \in Sessions
                    /\ reviews'[r].claim >= 1 /\ reviews'[r].since <= now'
               /\ reviews'[r].verdict # "none" => reviews'[r].status = "submitted"
      BY DEF Claims
  <2>2. CASE r = q BY <2>2, <1>4
  <2>3. CASE r # q BY <2>3, <1>5, <1>6 DEF Claims
  <2> QED BY <2>2, <2>3
<1>12. Numbered'
  <2>1. \A r \in Deliveries : /\ reviews'[r].rev = reviews[r].rev
                              /\ reviews'[r].status # "none" <=> reviews[r].status # "none"
      BY <1>2, <1>4, <1>5
  <2>2. \A r \in Deliveries : reviews[r].rev \in Nat BY DEF Types, ReviewRows
  <2> QED BY <2>1, <2>2, <1>7 DEF Numbered
<1> QED BY <1>8, <1>9, <1>10, <1>11, <1>12

LEMMA JudgementStep == LeaseAssumption /\ Judgement /\ [Next]_vars => Judgement'
<1> SUFFICES ASSUME LeaseAssumption, Judgement, [Next]_vars PROVE Judgement' OBVIOUS
<1>1. Types /\ Placed BY DEF Judgement
<1>2. Types' /\ Placed' BY <1>1, TypeStep
<1>3. CASE ClaimStep BY <1>2, <1>3, ClaimStepJudges
<1>4. ASSUME NEW p \in People, NEW verdict \in Verdicts, VerdictByPerson(p, verdict) PROVE Judgement'
  <2>1. p \in Actors /\ HoldsClaim(p, reviews[task.review].claim) /\ Submit(p, verdict)
      BY <1>4 DEF VerdictByPerson, Actors
  <2>2. verdict = "pass" => reviews[task.review].override
      BY <1>4 DEF VerdictByPerson, CheckoutReviewer
  <2> QED BY <1>2, <2>1, <2>2, SubmitJudges
<1>5. ASSUME NEW s \in Sessions, NEW verdict \in Verdicts, VerdictByWorker(s, verdict) PROVE Judgement'
  <2>1. /\ sess[s].actor \in Sessions /\ sess[s].actor \in Actors
        /\ HoldsClaim(sess[s].actor, lease[s].claim) /\ Submit(sess[s].actor, verdict)
        /\ ~Excluded(reviews[task.review], sess[s].actor)
      BY <1>1, <1>5 DEF VerdictByWorker, Holds, Placed, Actors
  <2>2. task.review \in Deliveries BY <1>1, <2>1 DEF HoldsClaim, Placed
  <2>3. reviews[task.review].byAgent BY <2>1, <2>2 DEF HoldsClaim, Judgement, Claims
  <2> QED BY <1>2, <2>1, <2>3, SubmitJudges
<1> QED BY <1>1, <1>2, <1>3, <1>4, <1>5, Steps, DeliverJudges, FailJudges DEF Moves

LEMMA JudgementInvariant == Spec => []Judgement
<1>1. Init => Judgement BY JudgementInit, LeaseAssumption
<1>2. Judgement /\ [Next]_vars => Judgement' BY JudgementStep, LeaseAssumption
<1> QED BY <1>1, <1>2, PTL DEF Spec

\* The task waits on exactly one review, of the revision it is at, and no other review can be
\* claimed or decided, whatever claims are made and lost meanwhile.
THEOREM OneOpenReviewCorrect == Spec => []OneOpenReview
<1>1. Judgement => OneOpenReview BY DEF Judgement
<1> QED BY <1>1, JudgementInvariant, PTL

\* Work is done only by the verdict on its last delivery, given from a lease by a reviewer that had
\* no hand in it, or by the owner deciding as owner.
THEOREM DoneWasPassedCorrect == Spec => []DoneWasPassed
<1>1. Judgement => DoneWasPassed BY DEF Judgement
<1> QED BY <1>1, JudgementInvariant, PTL

-----------------------------------------------------------------------------
(* Nothing is stranded.                                                    *)

\* The three parts of NothingStranded.
LeasesTended == \A s \in Sessions : lease[s].live => Live(s) \/ s \in closes
ClaimsNamed ==
    \A r \in Deliveries : reviews[r].status = "started" /\ reviews[r].byAgent => \E s \in Sessions : Names(s, r)
LossesPending ==
    \A r \in Deliveries : reviews[r].status = "started" /\ Spoilt(reviews[r]) =>
        \E e \in losses : e.subject = reviews[r].reviewer /\ e.id > reviews[r].since

LEMMA StrandedParts == NothingStranded <=> LeasesTended /\ ClaimsNamed /\ LossesPending
BY DEF NothingStranded, LeasesTended, ClaimsNamed, LossesPending

\* A session's actor was opened with its thread, and has one live visit at most; what is leased
\* was opened, and what is to be released was closed.
Visiting ==
    /\ \A s \in Sessions : sess[s].status # "none" =>
          sess[sess[s].actor].status # "none" /\ thread[sess[s].actor].status # "none"
    /\ \A a \in Sessions : thread[a].status # "none" => sess[a].status # "none"
    /\ \A s \in Sessions : lease[s].live => sess[s].status # "none"
    /\ \A s \in closes : sess[s].status = "closed"
    /\ \A v, w \in Sessions : Live(v) /\ Live(w) /\ sess[v].actor = sess[w].actor => v = w

\* A pending event is not later than its actor's last loss, and a worker it is about is gone.
Pending ==
    \A e \in losses :
        /\ lost[e.subject] >= e.id
        /\ e.subject \in Sessions => thread[e.subject].status = "retired" /\ ~Visited(e.subject)

\* An event is recorded, or none is.
LogStep == UNCHANGED log \/ \E type \in {"revoked", "demoted"}, actors \in SUBSET Actors : Logs(type, actors)

LEMMA LogGrows ==
    ASSUME Types, LogStep
    PROVE  /\ losses \subseteq losses'
           /\ \A a \in Actors : \/ lost'[a] = lost[a]
                                \/ \E e \in losses' : e.subject = a /\ e.id = now + 1
<1>1. CASE UNCHANGED log BY <1>1 DEF log
<1>2. ASSUME NEW type \in {"revoked", "demoted"}, NEW actors \in SUBSET Actors, Logs(type, actors)
      PROVE  /\ losses \subseteq losses'
             /\ \A a \in Actors : \/ lost'[a] = lost[a]
                                  \/ \E e \in losses' : e.subject = a /\ e.id = now + 1
  <2> DEFINE logged == {a \in actors : Concerned(a)}
  <2> HIDE DEF logged
  <2>1. /\ losses' = losses \cup {[type |-> type, subject |-> a, id |-> now + 1] : a \in logged}
        /\ lost' = [a \in Actors |-> IF a \in logged THEN now + 1 ELSE lost[a]]
      BY <1>2 DEF Logs, logged
  <2>2. ASSUME NEW a \in logged
        PROVE  \E e \in losses' : e.subject = a /\ e.id = now + 1
    <3>1. [type |-> type, subject |-> a, id |-> now + 1] \in losses' BY <2>1
    <3> QED BY <3>1
  <2>3. \A a \in Actors : a \notin logged => lost'[a] = lost[a] BY <2>1
  <2> QED BY <2>1, <2>2, <2>3
<1> QED BY <1>1, <1>2 DEF LogStep

\* A step that only adds to the log leaves every loss its event.
LEMMA PendingStays ==
    ASSUME LeaseAssumption, Judgement, Types', LogStep, LossesPending,
           \A r \in Deliveries : reviews'[r].status = "started" => reviews'[r] = reviews[r] \/ Taken(r)
    PROVE  LossesPending'
<1> USE DEF Judgement
<1>1. SUFFICES ASSUME NEW r \in Deliveries, reviews'[r].status = "started",
                      lost'[reviews'[r].reviewer] > reviews'[r].since
               PROVE  \E e \in losses' : e.subject = reviews'[r].reviewer /\ e.id > reviews'[r].since
    BY DEF LossesPending, Spoilt
<1>2. CASE reviews'[r] = reviews[r]
  <2>1. reviews[r].reviewer \in Actors /\ reviews[r].since <= now
      BY <1>1, <1>2 DEF Claims
  <2>2. now \in Nat /\ reviews[r].since \in Nat BY DEF Types, ReviewRows
  <2>3. CASE lost'[reviews[r].reviewer] = lost[reviews[r].reviewer]
      BY <1>1, <1>2, <2>3, LogGrows DEF LossesPending, Spoilt
  <2>4. CASE lost'[reviews[r].reviewer] # lost[reviews[r].reviewer]
    <3>1. PICK e \in losses' : e.subject = reviews[r].reviewer /\ e.id = now + 1
        BY <2>1, <2>4, LogGrows
    <3> QED BY <1>2, <2>1, <2>2, <3>1
  <2> QED BY <2>3, <2>4
<1>3. CASE Taken(r)
  <2>1. PICK actor \in Actors, agent \in BOOLEAN, override \in BOOLEAN :
            reviews'[r] = Started(reviews[r], actor, now', agent, override)
      BY <1>3 DEF Taken
  <2>2. reviews'[r].reviewer = actor /\ reviews'[r].since = now'
      BY <2>1, StartedFields DEF Types
  <2>3. lost'[actor] \in 0..now' /\ now' \in Nat BY DEF Types
  <2> QED BY <1>1, <2>2, <2>3
<1> QED BY <1>1, <1>2, <1>3

\* A step that leaves leases, actors and workers' claims alone leaves every such claim its lease.
LEMMA NamesStay ==
    ASSUME ClaimsNamed, lease' = lease, \A s \in Sessions : sess'[s].actor = sess[s].actor,
           \A r \in Deliveries : reviews'[r].status = "started" /\ reviews'[r].byAgent => reviews'[r] = reviews[r]
    PROVE  ClaimsNamed'
BY DEF ClaimsNamed, Names

\* A release takes back the claim its lease names, and no other.
LEMMA NamesReleased ==
    ASSUME Judgement, ClaimsNamed, NEW s \in Sessions, ReleaseLeaseRow(s),
           \A v \in Sessions : sess'[v].actor = sess[v].actor
    PROVE  /\ ClaimsNamed'
           /\ \A v \in Sessions : lease'[v].live <=> v # s /\ lease[v].live
           /\ \A r \in Deliveries : GivenBack(r) => Names(s, r)
<1> USE DEF Judgement
<1>1. CASE ~lease[s].live
  <2>1. lease' = lease /\ reviews' = reviews BY <1>1 DEF ReleaseLeaseRow
  <2>2. \A r \in Deliveries : ~GivenBack(r)
      BY <2>1, ReturnedFields DEF GivenBack, Types
  <2> QED BY <1>1, <2>1, <2>2 DEF ClaimsNamed, Names
<1>2. CASE lease[s].live
  <2>1. /\ lease' = [lease EXCEPT ![s].live = FALSE]
        /\ reviews' = [r \in Deliveries |-> IF r = lease[s].review
               THEN ReleaseClaim(reviews[r], sess[s].actor, lease[s].claim) ELSE reviews[r]]
      BY <1>2 DEF ReleaseLeaseRow
  <2>2. \A v \in Sessions : v # s => lease'[v] = lease[v] BY <2>1 DEF Types
  <2>3. lease'[s].live = FALSE
    <3>1. lease[s] \in LeaseRows BY DEF Types
    <3>2. lease'[s] = [lease[s] EXCEPT !.live = FALSE] BY <2>1 DEF Types
    <3> QED BY <3>1, <3>2 DEF LeaseRows
  <2>4. \A r \in Deliveries : reviews'[r] = reviews[r] \/ (Names(s, r) /\ GivenBack(r))
      BY <1>2, <2>1 DEF ReleaseClaim, Names, GivenBack
  <2>5. \A r \in Deliveries : Names(s, r) /\ reviews[r].status = "started" => GivenBack(r)
      BY <2>1 DEF ReleaseClaim, Names, GivenBack
  <2>6. ASSUME NEW r \in Deliveries, GivenBack(r)
        PROVE  reviews'[r] # reviews[r] /\ reviews'[r].status = "requested"
      BY <2>6, ReturnedFields DEF GivenBack, Types
  <2>7. ClaimsNamed'
    <3>1. SUFFICES ASSUME NEW r \in Deliveries, reviews'[r].status = "started", reviews'[r].byAgent
                   PROVE  \E v \in Sessions : Names(v, r)'
        BY DEF ClaimsNamed
    <3>2. reviews'[r] = reviews[r] BY <2>4, <2>6, <3>1
    <3>3. ~Names(s, r) BY <2>5, <2>6, <3>1, <3>2
    <3>4. PICK v \in Sessions : Names(v, r) BY <3>1, <3>2 DEF ClaimsNamed
    <3>5. Names(v, r)' BY <2>2, <3>2, <3>3, <3>4 DEF Names
    <3> QED BY <3>5
  <2> QED BY <2>2, <2>3, <2>4, <2>6, <2>7
<1> QED BY <1>1, <1>2

Tended == Judgement /\ Visiting /\ Pending /\ NothingStranded

LEMMA TendedInit == LeaseAssumption /\ Init => Tended
<1> SUFFICES ASSUME LeaseAssumption, Init PROVE Tended OBVIOUS
<1>1. Judgement BY JudgementInit
<1>2. \A s \in Sessions : sess[s].status = "none" /\ ~lease[s].live /\ thread[s].status = "none"
    BY DEF Init, NoSession, NoLease, NoThread
<1>3. \A r \in Deliveries : reviews[r].status = "none" BY DEF Init, NoReview
<1>4. losses = {} /\ closes = {} BY DEF Init
<1> QED BY <1>1, <1>2, <1>3, <1>4 DEF Tended, Visiting, Pending, NothingStranded, Live

\* The log knows of workers whose thread was retired when no visit held it.
LEMMA PendingLogged ==
    ASSUME Types, Types', Pending, NEW type \in {"revoked", "demoted"}, NEW actors \in SUBSET Actors,
           Logs(type, actors),
           \A a \in Sessions :
              a \in actors \/ (thread[a].status = "retired" /\ ~Visited(a)) =>
                  thread'[a].status = "retired" /\ ~Visited(a)'
    PROVE  Pending'
<1> DEFINE logged == {a \in actors : Concerned(a)}
<1> HIDE DEF logged
<1>1. /\ losses' = losses \cup {[type |-> type, subject |-> a, id |-> now + 1] : a \in logged}
      /\ lost' = [a \in Actors |-> IF a \in logged THEN now + 1 ELSE lost[a]]
      /\ logged \subseteq actors
    BY DEF Logs, logged
<1>2. SUFFICES ASSUME NEW e \in losses'
               PROVE  /\ lost'[e.subject] >= e.id
                      /\ e.subject \in Sessions =>
                            thread'[e.subject].status = "retired" /\ ~Visited(e.subject)'
    BY DEF Pending
<1>3. CASE e \in losses
  <2>1. lost[e.subject] >= e.id /\ e.id \in 1..now /\ e.subject \in Actors /\ now \in Nat
        /\ lost[e.subject] \in 0..now
      BY <1>3 DEF Pending, Types, Events
  <2>2. lost'[e.subject] >= e.id BY <1>1, <2>1
  <2> QED BY <1>3, <2>2 DEF Pending
<1>4. ASSUME NEW a \in logged, e = [type |-> type, subject |-> a, id |-> now + 1]
      PROVE  /\ lost'[e.subject] >= e.id
             /\ e.subject \in Sessions =>
                   thread'[e.subject].status = "retired" /\ ~Visited(e.subject)'
  <2>1. e.subject = a /\ e.id = now + 1 /\ a \in actors /\ a \in Actors BY <1>1, <1>4
  <2>2. lost'[a] = now + 1 /\ now \in Nat BY <1>1, <1>4, <2>1 DEF Types
  <2> QED BY <2>1, <2>2
<1> QED BY <1>1, <1>3, <1>4

\* The same where no event is recorded.
LEMMA PendingKept ==
    ASSUME Pending, losses' \subseteq losses, lost' = lost,
           \A a \in Sessions : thread[a].status = "retired" /\ ~Visited(a) =>
                  thread'[a].status = "retired" /\ ~Visited(a)'
    PROVE  Pending'
BY DEF Pending

\* Steps that leave sessions, threads, leases and the log alone.
Still == UNCHANGED <<hosting, lease, closes, log>>

LEMMA StillTends ==
    ASSUME LeaseAssumption, Tended, Judgement', Still,
           \A r \in Deliveries : reviews'[r].status = "started" =>
               reviews'[r] = reviews[r] \/ (Taken(r) /\ ~reviews'[r].byAgent)
    PROVE  Tended'
<1> USE DEF Tended
<1>1. UNCHANGED <<sess, thread, lease, closes, now, losses, lost>> BY DEF Still, hosting, log
<1>2. Visiting' BY <1>1 DEF Visiting, Live
<1>3. Pending' BY <1>1 DEF Pending, Visited, Visits, Live
<1>4. LeasesTended' BY <1>1, StrandedParts DEF LeasesTended, Live
<1>5. ClaimsNamed' BY <1>1, StrandedParts, NamesStay
<1>6. LossesPending'
  <2>1. LogStep BY DEF Still, LogStep
  <2> QED BY <2>1, StrandedParts, PendingStays DEF Judgement
<1> QED BY <1>2, <1>3, <1>4, <1>5, <1>6 DEF LeasesTended, ClaimsNamed, LossesPending, NothingStranded

LEMMA OfferTends ==
    ASSUME LeaseAssumption, Tended, Judgement', NEW s \in Sessions, NEW p \in People,
           NEW role \in {"producer", "reviewer"}, Offer(s, p, role)
    PROVE  Tended'
<1> USE DEF Tended
<1>t. Types /\ Types' BY DEF Judgement
<1>1. PICK actor \in Sessions :
          /\ \/ /\ Resumable(actor, role, p)
                /\ UNCHANGED <<thread, log>>
             \/ /\ actor = s
                /\ thread' = [Retires(Superseded(role)) EXCEPT
                       ![s] = [status |-> "kept", role |-> role, rev |-> Revision]]
                /\ Logs("revoked", RevokedWith(Superseded(role)))
          /\ Acquire(s, role, actor)
          /\ sess' = [sess EXCEPT ![s] = [status |-> "offered", actor |-> actor, source |-> p,
                                          member |-> member[p].id, role |-> role, rev |-> Revision]]
    BY DEF Offer
<1>2. sess[s].status = "none" /\ closes' = closes BY DEF Offer
<1>3. sess'[s].status = "offered" /\ sess'[s].actor = actor BY <1>1, <1>t DEF Types
<1>4. \A v \in Sessions : v # s => sess'[v] = sess[v] BY <1>1, <1>t DEF Types
<1>5. ~lease[s].live /\ thread[s].status = "none" /\ s \notin closes BY <1>2 DEF Visiting
<1>6. \A v \in Sessions : v # s => lease'[v] = lease[v] /\ lease'[s].live
  <2>1. CASE role = "producer"
    <3>1. lease' = [lease EXCEPT ![s] = [lease[s] EXCEPT !.live = TRUE]] BY <1>1, <2>1 DEF Acquire
    <3>2. lease[s] \in LeaseRows BY <1>t DEF Types
    <3>3. [lease[s] EXCEPT !.live = TRUE].live BY <3>2 DEF LeaseRows
    <3> QED BY <3>1, <3>3, <1>t DEF Types
  <2>2. CASE role = "reviewer" BY <1>1, <2>2, <1>t DEF Acquire, Types
  <2> QED BY <2>1, <2>2
<1>r. \A r \in Deliveries : reviews'[r] # reviews[r] =>
          /\ role = "reviewer" /\ r = task.review
          /\ reviews'[r] = Started(reviews[r], actor, now', TRUE, FALSE)
          /\ lease'[s] = [live |-> TRUE, review |-> r, claim |-> reviews[r].claim + 1]
  <2>1. CASE role = "producer" BY <1>1, <2>1 DEF Acquire
  <2>2. CASE role = "reviewer"
    <3>1. /\ reviews' = [reviews EXCEPT ![task.review] = Started(@, actor, now', TRUE, FALSE)]
          /\ lease' = [lease EXCEPT ![s] = [live |-> TRUE, review |-> task.review,
                                            claim |-> reviews[task.review].claim + 1]]
        BY <1>1, <2>2 DEF Acquire
    <3>2. reviews \in [Deliveries -> ReviewRows] /\ lease \in [Sessions -> LeaseRows] BY <1>t DEF Types
    <3> QED BY <2>2, <3>1, <3>2
  <2> QED BY <2>1, <2>2
\* The one whose visits are resumed has no live visit; a new one has no visit at all.
<1>7. ~Visited(actor) /\ (actor = s \/ (thread[actor].status = "kept" /\ sess[actor].status # "none"))
  <2>1. CASE actor = s
    <3>1. \A v \in Sessions : sess[v].status # "none" => sess[v].actor # s BY <1>2 DEF Visiting
    <3> QED BY <2>1, <3>1 DEF Visited, Visits
  <2>2. CASE actor # s
    <3>1. Resumable(actor, role, p) BY <1>1, <2>2
    <3> QED BY <3>1 DEF Resumable, KeyHeld, Kept, Visiting
  <2> QED BY <2>1, <2>2
<1>8. \A a \in Sessions : thread[a].status # "none" => thread'[a].status # "none"
  <2>1. CASE thread' = thread BY <2>1
  <2>2. CASE thread' = [Retires(Superseded(role)) EXCEPT
                ![s] = [status |-> "kept", role |-> role, rev |-> Revision]]
    <3>1. \A t \in ThreadRows : [t EXCEPT !.status = "retired"].status = "retired" BY DEF ThreadRows
    <3> QED BY <2>2, <3>1, <1>t DEF Retires, Types
  <2> QED BY <1>1, <2>1, <2>2
<1>9. /\ \A a \in Sessions : a # s /\ thread'[a].status # "none" => thread[a].status # "none"
      /\ thread'[actor].status # "none"
  <2>1. CASE thread' = thread /\ Resumable(actor, role, p)
      BY <2>1 DEF Resumable, KeyHeld, Kept
  <2>2. CASE actor = s /\ thread' = [Retires(Superseded(role)) EXCEPT
                ![s] = [status |-> "kept", role |-> role, rev |-> Revision]]
    <3>1. thread'[s].status = "kept" BY <2>2, <1>t DEF Retires, Types
    <3>2. \A a \in Sessions : a # s /\ a \notin Superseded(role) => thread'[a] = thread[a]
        BY <2>2, <1>t DEF Retires, Types
    <3>3. \A a \in Superseded(role) : thread[a].status = "kept" BY DEF Superseded, KeyHeld, Kept
    <3> QED BY <2>2, <3>1, <3>2, <3>3
  <2> QED BY <1>1, <2>1, <2>2
<1>10. Visiting'
  <2>1. \A v \in Sessions : sess'[v].status # "none" =>
            sess'[sess'[v].actor].status # "none" /\ thread'[sess'[v].actor].status # "none"
    <3>1. SUFFICES ASSUME NEW v \in Sessions, sess'[v].status # "none"
                   PROVE  sess'[sess'[v].actor].status # "none" /\ thread'[sess'[v].actor].status # "none"
        OBVIOUS
    <3>2. CASE v = s BY <3>2, <1>3, <1>4, <1>7, <1>9
    <3>3. CASE v # s
      <4>1. sess[v].status # "none" /\ sess'[v].actor = sess[v].actor BY <3>1, <3>3, <1>4
      <4>2. sess[v].actor \in Sessions /\ sess[sess[v].actor].status # "none"
            /\ thread[sess[v].actor].status # "none"
          BY <4>1 DEF Visiting, Judgement, Placed
      <4>3. sess[v].actor # s BY <4>2, <1>2
      <4> QED BY <4>1, <4>2, <4>3, <1>4, <1>8
    <3> QED BY <3>2, <3>3
  <2>2. \A a \in Sessions : thread'[a].status # "none" => sess'[a].status # "none"
      BY <1>3, <1>4, <1>9 DEF Visiting
  <2>3. \A v \in Sessions : lease'[v].live => sess'[v].status # "none"
      BY <1>3, <1>4, <1>6 DEF Visiting
  <2>4. \A v \in closes' : sess'[v].status = "closed" BY <1>2, <1>4, <1>5, <1>t DEF Visiting, Types
  <2>5. \A v, w \in Sessions : Live(v)' /\ Live(w)' /\ sess'[v].actor = sess'[w].actor => v = w
    <3>1. SUFFICES ASSUME NEW v \in Sessions, NEW w \in Sessions, Live(v)', Live(w)',
                          sess'[v].actor = sess'[w].actor, v # w
                   PROVE  FALSE
        OBVIOUS
    <3>2. \A u \in Sessions : u # s /\ Live(u)' => Live(u) /\ sess[u].actor # actor
      <4>1. \A u \in Sessions : u # s /\ Live(u)' => Live(u) BY <1>4 DEF Live
      <4>2. \A u \in Sessions : Live(u) => sess[u].actor # actor BY <1>7 DEF Visited, Visits, Live
      <4> QED BY <4>1, <4>2
    <3>3. CASE v # s /\ w # s BY <3>1, <3>2, <3>3, <1>4 DEF Visiting
    <3>4. CASE v = s BY <3>1, <3>2, <3>4, <1>3, <1>4
    <3>5. CASE w = s BY <3>1, <3>2, <3>5, <1>3, <1>4
    <3> QED BY <3>3, <3>4, <3>5
  <2> QED BY <2>1, <2>2, <2>3, <2>4, <2>5 DEF Visiting
<1>11. Pending'
  <2>1. \A a \in Sessions : a # actor /\ ~Visited(a) => ~Visited(a)'
      BY <1>3, <1>4 DEF Visited, Visits, Live
  <2>2. CASE UNCHANGED <<thread, log>> /\ Resumable(actor, role, p)
    <3>1. thread[actor].status = "kept" BY <2>2 DEF Resumable, KeyHeld, Kept
    <3> QED BY <2>1, <2>2, <3>1, PendingKept DEF log
  <2>3. CASE /\ actor = s
             /\ thread' = [Retires(Superseded(role)) EXCEPT
                    ![s] = [status |-> "kept", role |-> role, rev |-> Revision]]
             /\ Logs("revoked", RevokedWith(Superseded(role)))
    <3> DEFINE actors == RevokedWith(Superseded(role))
    <3>1. actors \in SUBSET Actors BY DEF RevokedWith, Superseded, Actors
    <3>2. \A a \in Sessions : a \in actors \/ (thread[a].status = "retired" /\ ~Visited(a)) =>
              a # s /\ ~Visited(a) /\ thread'[a].status = "retired"
      <4>1. \A t \in ThreadRows : [t EXCEPT !.status = "retired"].status = "retired" BY DEF ThreadRows
      <4>2. \A a \in Superseded(role) : a # s BY <1>5 DEF Superseded, KeyHeld, Kept
      <4>3. \A a \in Sessions : a # s /\ a \in Superseded(role) => thread'[a].status = "retired"
          BY <2>3, <4>1, <1>t DEF Retires, Types
      <4>4. \A a \in Sessions : a # s /\ a \notin Superseded(role) => thread'[a] = thread[a]
          BY <2>3, <1>t DEF Retires, Types
      <4> QED BY <4>2, <4>3, <4>4, <1>5 DEF RevokedWith
    <3> HIDE DEF actors
    <3> QED BY <2>1, <2>3, <3>1, <3>2, <1>t, PendingLogged DEF actors
  <2> QED BY <1>1, <2>2, <2>3
<1>12. LeasesTended'
  <2>1. SUFFICES ASSUME NEW v \in Sessions, lease'[v].live PROVE Live(v)' \/ v \in closes'
      BY DEF LeasesTended
  <2>2. CASE v = s BY <2>2, <1>3 DEF Live
  <2>3. CASE v # s
    <3>1. Live(v) \/ v \in closes BY <2>1, <2>3, <1>6, StrandedParts DEF LeasesTended
    <3> QED BY <2>3, <3>1, <1>2, <1>4 DEF Live
  <2> QED BY <2>2, <2>3
<1>13. ClaimsNamed'
  <2>1. SUFFICES ASSUME NEW r \in Deliveries, reviews'[r].status = "started", reviews'[r].byAgent
                 PROVE  \E v \in Sessions : Names(v, r)'
      BY DEF ClaimsNamed
  <2>2. CASE reviews'[r] = reviews[r]
    <3>1. PICK v \in Sessions : Names(v, r) BY <2>1, <2>2, StrandedParts DEF ClaimsNamed
    <3>2. v # s BY <3>1, <1>5 DEF Names
    <3>3. Names(v, r)' BY <2>2, <3>1, <3>2, <1>4, <1>6 DEF Names
    <3> QED BY <3>3
  <2>3. CASE reviews'[r] # reviews[r]
    <3>1. /\ reviews'[r] = Started(reviews[r], actor, now', TRUE, FALSE)
          /\ lease'[s] = [live |-> TRUE, review |-> r, claim |-> reviews[r].claim + 1]
        BY <2>3, <1>r
    <3>2. reviews[r] \in ReviewRows BY <1>t DEF Types
    <3>3. reviews'[r].reviewer = actor /\ reviews'[r].claim = reviews[r].claim + 1
        BY <3>1, <3>2 DEF Started, ReviewRows
    <3>4. lease'[s].live /\ lease'[s].review = r /\ lease'[s].claim = reviews[r].claim + 1
        BY <3>1, <1>6
    <3>5. Names(s, r)' BY <3>3, <3>4, <1>3 DEF Names
    <3> QED BY <3>5
  <2> QED BY <2>2, <2>3
<1>14. LossesPending'
  <2>1. LogStep
    <3>1. RevokedWith(Superseded(role)) \in SUBSET Actors BY DEF RevokedWith, Superseded, Actors
    <3> QED BY <1>1, <3>1 DEF LogStep, log
  <2>2. \A r \in Deliveries : reviews'[r].status = "started" => reviews'[r] = reviews[r] \/ Taken(r)
    <3>1. SUFFICES ASSUME NEW r \in Deliveries, reviews'[r] # reviews[r] PROVE Taken(r) OBVIOUS
    <3>2. /\ role = "reviewer" /\ r = task.review
          /\ reviews'[r] = Started(reviews[r], actor, now', TRUE, FALSE)
        BY <3>1, <1>r
    <3>3. reviews[r].status = "requested" BY <3>2 DEF Offer, LeaseRole
    <3> QED BY <3>2, <3>3 DEF Taken, Actors
  <2> QED BY <1>t, <2>1, <2>2, StrandedParts, PendingStays
<1> QED BY <1>10, <1>11, <1>12, <1>13, <1>14 DEF LeasesTended, ClaimsNamed, LossesPending, NothingStranded

\* A step that opens no session: no visit begins, and no thread comes back.
NoVisitBegins ==
    /\ \A s \in Sessions :
          /\ sess'[s].actor = sess[s].actor
          /\ sess'[s].status # "none" <=> sess[s].status # "none"
          /\ Live(s)' => Live(s)
    /\ \A a \in Sessions :
          /\ thread'[a].status # "none" <=> thread[a].status # "none"
          /\ thread[a].status = "retired" => thread'[a].status = "retired"

LEMMA VisitsEnd ==
    ASSUME Judgement, Visiting, NoVisitBegins, \A s \in Sessions : lease'[s].live => lease[s].live,
           \A s \in closes' : s \in Sessions /\ sess'[s].status = "closed"
    PROVE  Visiting' /\ \A a \in Sessions : ~Visited(a) => ~Visited(a)'
<1>1. \A s \in Sessions : sess[s].status # "none" => sess[s].actor \in Sessions
    BY DEF Judgement, Placed
<1>2. Visiting' BY <1>1 DEF Visiting, NoVisitBegins
<1>3. \A a \in Sessions : ~Visited(a) => ~Visited(a)' BY DEF Visited, Visits, NoVisitBegins
<1> QED BY <1>2, <1>3

LEMMA RetiredRows ==
    ASSUME thread \in [Sessions -> ThreadRows], NEW threads, thread' = Retires(threads),
           \A a \in threads : a \in Sessions => thread[a].status # "none"
    PROVE  \A a \in Sessions :
              /\ thread'[a].status # "none" <=> thread[a].status # "none"
              /\ thread[a].status = "retired" => thread'[a].status = "retired"
              /\ a \in threads => thread'[a].status = "retired"
<1>1. TAKE a \in Sessions
<1>2. thread[a] \in ThreadRows OBVIOUS
<1>3. CASE a \in threads
  <2>1. thread'[a] = [thread[a] EXCEPT !.status = "retired"] BY <1>3 DEF Retires
  <2>2. thread'[a].status = "retired" BY <1>2, <2>1 DEF ThreadRows
  <2> QED BY <1>3, <2>2
<1>4. CASE a \notin threads
  <2>1. thread'[a] = thread[a] BY <1>4 DEF Retires
  <2> QED BY <1>4, <2>1
<1> QED BY <1>3, <1>4

LEMMA CloseTends ==
    ASSUME LeaseAssumption, Tended, Judgement', NEW s \in Sessions, Close(s)
    PROVE  Tended'
<1> USE DEF Tended
<1>t. Types /\ Types' BY DEF Judgement
<1> DEFINE a == sess[s].actor
<1>1. PICK retire \in {FALSE, MayRetire(s)}, away \in BOOLEAN :
          LET over == retire \/ thread[a].status = "retired" IN
          /\ thread' = IF over THEN [thread EXCEPT ![a].status = "retired"] ELSE thread
          /\ Logs("revoked", IF over /\ away THEN {a} ELSE {})
          /\ closes' = IF away THEN closes \cup {s} ELSE closes
          /\ IF away THEN UNCHANGED <<lease, reviews>> ELSE ReleaseLeaseRow(s)
    BY DEF Close
<1> DEFINE over == retire \/ thread[a].status = "retired"
           gone == IF over /\ away THEN {a} ELSE {}
<1>2. a \in Sessions /\ Live(s) /\ thread[a].status # "none"
    BY DEF Close, Live, Judgement, Placed, Visiting
<1>3. /\ sess'[s].status = "closed"
      /\ \A v \in Sessions : sess'[v].actor = sess[v].actor /\ (v # s => sess'[v] = sess[v])
  <2>1. sess[s] \in SessionRows BY <1>t DEF Types
  <2>2. sess' = [sess EXCEPT ![s] = [sess[s] EXCEPT !.status = "closed"]] BY DEF Close
  <2>3. sess'[s] = [sess[s] EXCEPT !.status = "closed"] BY <2>2, <1>t DEF Types
  <2> QED BY <2>1, <2>2, <2>3 DEF SessionRows
<1>4. \A b \in Sessions : b # a => thread'[b] = thread[b]
  <2>1. CASE over BY <2>1, <1>1, <1>t DEF Types
  <2>2. CASE ~over BY <2>2, <1>1
  <2> QED BY <2>1, <2>2
<1>5. thread'[a].status # "none" /\ (over => thread'[a].status = "retired")
  <2>1. CASE over
    <3>1. thread'[a] = [thread[a] EXCEPT !.status = "retired"] BY <2>1, <1>1, <1>2, <1>t DEF Types
    <3>2. thread[a] \in ThreadRows BY <1>2, <1>t DEF Types
    <3>3. thread'[a].status = "retired" BY <3>1, <3>2 DEF ThreadRows
    <3> QED BY <3>3
  <2>2. CASE ~over BY <2>2, <1>1, <1>2
  <2> QED BY <2>1, <2>2
<1>6. NoVisitBegins BY <1>2, <1>3, <1>4, <1>5 DEF NoVisitBegins, Live
<1>7. \A v \in Sessions : lease'[v].live => lease[v].live
    BY <1>1, <1>3, NamesReleased, StrandedParts
<1>8. Visiting' /\ \A b \in Sessions : ~Visited(b) => ~Visited(b)'
  <2>1. \A v \in closes' : v \in Sessions /\ sess'[v].status = "closed"
      BY <1>1, <1>3, <1>t DEF Visiting, Types
  <2> QED BY <2>1, <1>6, <1>7, VisitsEnd
\* The session was its actor's one live visit.
<1>9. \A b \in Sessions : b = a => ~Visited(b)'
  <2>1. \A v \in Sessions : Live(v) /\ sess[v].actor = a => v = s BY <1>2 DEF Visiting
  <2> QED BY <2>1, <1>3 DEF Visited, Visits, Live
<1>10. gone \in SUBSET Actors BY <1>2 DEF Actors
<1>11. Pending'
  <2>1. \A b \in Sessions :
            b \in gone \/ (thread[b].status = "retired" /\ ~Visited(b)) =>
                thread'[b].status = "retired" /\ ~Visited(b)'
    <3>1. TAKE b \in Sessions
    <3>2. b \in gone => over /\ b = a OBVIOUS
    <3>3. b = a => ~Visited(b)' BY <1>9
    <3>4. CASE b = a BY <3>2, <3>3, <3>4, <1>5
    <3>5. CASE b # a BY <3>2, <3>5, <1>4, <1>8
    <3> QED BY <3>4, <3>5
  <2> HIDE DEF gone
  <2>2. Logs("revoked", gone) BY <1>1 DEF gone
  <2> QED BY <2>1, <2>2, <1>10, <1>t, PendingLogged
<1>12. LeasesTended'
  <2>1. SUFFICES ASSUME NEW v \in Sessions, lease'[v].live PROVE Live(v)' \/ v \in closes'
      BY DEF LeasesTended
  <2>2. CASE v = s
    <3>1. away BY <1>1, <1>3, <2>1, <2>2, NamesReleased, StrandedParts
    <3> QED BY <2>2, <3>1, <1>1
  <2>3. CASE v # s
    <3>1. Live(v) \/ v \in closes BY <2>1, <1>7, StrandedParts DEF LeasesTended
    <3> QED BY <2>3, <3>1, <1>1, <1>3 DEF Live
  <2> QED BY <2>2, <2>3
<1>13. ClaimsNamed'
  <2>1. CASE away BY <2>1, <1>1, <1>3, StrandedParts, NamesStay
  <2>2. CASE ~away BY <2>2, <1>1, <1>3, StrandedParts, NamesReleased
  <2> QED BY <2>1, <2>2
<1>14. LossesPending'
  <2> HIDE DEF gone
  <2>1. LogStep
    <3>1. Logs("revoked", gone) BY <1>1 DEF gone
    <3> QED BY <3>1, <1>10 DEF LogStep
  <2>2. \A r \in Deliveries : reviews'[r].status = "started" => reviews'[r] = reviews[r] \/ Taken(r)
    <3>1. \A r \in Deliveries : reviews'[r] = reviews[r] \/ GivenBack(r) BY <1>1, <1>t, ReleaseGivesBack
    <3>2. \A r \in Deliveries : GivenBack(r) => reviews'[r].status = "requested"
        BY <1>t, ReturnedFields DEF GivenBack, Types
    <3> QED BY <3>1, <3>2
  <2> QED BY <1>t, <2>1, <2>2, StrandedParts, PendingStays
<1> QED BY <1>8, <1>11, <1>12, <1>13, <1>14 DEF LeasesTended, ClaimsNamed, LossesPending, NothingStranded

LEMMA ActivateTends ==
    ASSUME LeaseAssumption, Tended, Judgement', NEW s \in Sessions, Activate(s)
    PROVE  Tended'
<1> USE DEF Tended
<1>t. Types /\ Types' BY DEF Judgement
<1>1. UNCHANGED <<reviews, lease, thread, closes, losses, lost, now>> BY DEF Activate, log
<1>2. /\ sess[s].status = "offered" /\ sess'[s].status = "active"
      /\ \A v \in Sessions : sess'[v].actor = sess[v].actor /\ (v # s => sess'[v] = sess[v])
  <2>1. sess[s] \in SessionRows BY <1>t DEF Types
  <2>2. sess' = [sess EXCEPT ![s] = [sess[s] EXCEPT !.status = "active"]] BY DEF Activate
  <2>3. sess'[s] = [sess[s] EXCEPT !.status = "active"] BY <2>2, <1>t DEF Types
  <2> QED BY <2>1, <2>2, <2>3 DEF SessionRows, Activate
<1>3. NoVisitBegins /\ \A v \in Sessions : Live(v)' <=> Live(v) BY <1>1, <1>2 DEF NoVisitBegins, Live
<1>4. Visiting' /\ \A a \in Sessions : ~Visited(a) => ~Visited(a)'
  <2>1. \A v \in closes' : v \in Sessions /\ sess'[v].status = "closed"
      BY <1>1, <1>2, <1>t DEF Visiting, Types
  <2> QED BY <2>1, <1>1, <1>3, VisitsEnd
<1>5. Pending' BY <1>1, <1>4, PendingKept
<1>6. LeasesTended' BY <1>1, <1>3, StrandedParts DEF LeasesTended
<1>7. ClaimsNamed' BY <1>1, <1>2, StrandedParts, NamesStay
<1>8. LossesPending'
  <2>1. LogStep BY <1>1 DEF LogStep, log
  <2> QED BY <1>1, <1>t, <2>1, StrandedParts, PendingStays
<1> QED BY <1>4, <1>5, <1>6, <1>7, <1>8 DEF LeasesTended, ClaimsNamed, LossesPending, NothingStranded

LEMMA RetireTends ==
    ASSUME LeaseAssumption, Tended, Judgement', NEW a \in Sessions, RetireThread(a)
    PROVE  Tended'
<1> USE DEF Tended
<1>t. Types /\ Types' BY DEF Judgement
<1>1. /\ UNCHANGED <<reviews, sess, lease, closes>> /\ thread' = Retires({a})
      /\ Logs("revoked", RevokedWith({a})) /\ thread[a].status = "kept"
    BY DEF RetireThread
<1>2. \A b \in Sessions :
         /\ thread'[b].status # "none" <=> thread[b].status # "none"
         /\ thread[b].status = "retired" => thread'[b].status = "retired"
         /\ b \in {a} => thread'[b].status = "retired"
    BY <1>1, <1>t, RetiredRows DEF Types
<1>3. NoVisitBegins BY <1>1, <1>2 DEF NoVisitBegins, Live
<1>4. Visiting' /\ \A b \in Sessions : ~Visited(b) => ~Visited(b)'
  <2>1. \A v \in closes' : v \in Sessions /\ sess'[v].status = "closed"
      BY <1>1, <1>t DEF Visiting, Types
  <2> QED BY <2>1, <1>1, <1>3, VisitsEnd
<1>5. RevokedWith({a}) \in SUBSET Actors BY DEF RevokedWith, Actors
<1>6. Pending'
  <2>1. \A b \in RevokedWith({a}) : b = a /\ ~Visited(b) BY DEF RevokedWith
  <2>2. \A b \in Sessions :
            b \in RevokedWith({a}) \/ (thread[b].status = "retired" /\ ~Visited(b)) =>
                thread'[b].status = "retired" /\ ~Visited(b)'
      BY <1>2, <1>4, <2>1
  <2> QED BY <2>2, <1>1, <1>5, <1>t, PendingLogged
<1>7. LeasesTended' BY <1>1, StrandedParts DEF LeasesTended, Live
<1>8. ClaimsNamed' BY <1>1, StrandedParts, NamesStay
<1>9. LossesPending'
  <2>1. LogStep BY <1>1, <1>5 DEF LogStep
  <2> QED BY <1>1, <1>t, <2>1, StrandedParts, PendingStays
<1> QED BY <1>4, <1>6, <1>7, <1>8, <1>9 DEF LeasesTended, ClaimsNamed, LossesPending, NothingStranded

LEMMA ReleasedTends ==
    ASSUME LeaseAssumption, Tended, Judgement', LeaseReleased
    PROVE  Tended'
<1> USE DEF Tended
<1>t. Types /\ Types' BY DEF Judgement
<1>1. PICK s \in closes : ReleaseLeaseRow(s) /\ closes' = closes \ {s}
                          /\ UNCHANGED <<work, hosting, member, log, turns>>
    BY DEF LeaseReleased
<1>2. s \in Sessions /\ UNCHANGED <<sess, thread, now, losses, lost>> BY <1>1, <1>t DEF Types, hosting, log
<1>3. NoVisitBegins BY <1>2 DEF NoVisitBegins, Live
<1>4. \A v \in Sessions : lease'[v].live <=> v # s /\ lease[v].live
    BY <1>1, <1>2, NamesReleased, StrandedParts
<1>5. Visiting' /\ \A b \in Sessions : ~Visited(b) => ~Visited(b)'
  <2>1. \A v \in closes' : v \in Sessions /\ sess'[v].status = "closed"
      BY <1>1, <1>2, <1>t DEF Visiting, Types
  <2> QED BY <2>1, <1>3, <1>4, VisitsEnd
<1>6. Pending' BY <1>2, <1>5, PendingKept
<1>7. LeasesTended' BY <1>1, <1>2, <1>4, StrandedParts DEF LeasesTended, Live
<1>8. ClaimsNamed' BY <1>1, <1>2, StrandedParts, NamesReleased
<1>9. LossesPending'
  <2>1. LogStep BY <1>2 DEF LogStep, log
  <2>2. \A r \in Deliveries : reviews'[r].status = "started" => reviews'[r] = reviews[r] \/ Taken(r)
    <3>1. \A r \in Deliveries : reviews'[r] = reviews[r] \/ GivenBack(r)
        BY <1>1, <1>2, <1>t, ReleaseGivesBack
    <3>2. \A r \in Deliveries : GivenBack(r) => reviews'[r].status = "requested"
        BY <1>t, ReturnedFields DEF GivenBack, Types
    <3> QED BY <3>1, <3>2
  <2> QED BY <1>t, <2>1, <2>2, StrandedParts, PendingStays
<1> QED BY <1>5, <1>6, <1>7, <1>8, <1>9 DEF LeasesTended, ClaimsNamed, LossesPending, NothingStranded

\* An event takes back only the claims it is newer than, and is gone when none is left.
LEMMA RecoveredTends ==
    ASSUME LeaseAssumption, Tended, Judgement', NEW type \in {"revoked", "demoted"}, ClaimsReleased(type)
    PROVE  Tended'
<1> USE DEF Tended
<1>t. Types /\ Types' BY DEF Judgement
<1>1. PICK e \in losses :
          /\ reviews' = [r \in Deliveries |-> Recovered(reviews[r], e)]
          /\ losses' = losses \ {e}
          /\ UNCHANGED <<work, hosting, lease, member, closes, now, lost, turns>>
    BY DEF ClaimsReleased
<1>2. UNCHANGED <<sess, thread, lease, closes, now, lost>> BY <1>1 DEF hosting
<1>3. Visiting' BY <1>2 DEF Visiting, Live
<1>4. Pending' BY <1>1, <1>2 DEF Pending, Visited, Visits, Live
<1>5. LeasesTended' BY <1>2, StrandedParts DEF LeasesTended, Live
<1>6. \A r \in Deliveries : reviews'[r].status = "started" =>
          /\ reviews'[r] = reviews[r]
          /\ ~(reviews[r].reviewer = e.subject /\ reviews[r].since < e.id)
  <2>1. TAKE r \in Deliveries
  <2>2. reviews'[r] = Recovered(reviews[r], e) /\ reviews[r] \in ReviewRows BY <1>1, <1>t DEF Types
  <2>3. Returned(reviews[r]).status = "requested" BY <2>2, ReturnedFields
  <2> QED BY <2>2, <2>3 DEF Recovered
<1>7. ClaimsNamed' BY <1>2, <1>6, StrandedParts, NamesStay
<1>8. LossesPending'
  <2>1. SUFFICES ASSUME NEW r \in Deliveries, reviews'[r].status = "started",
                        lost'[reviews'[r].reviewer] > reviews'[r].since
                 PROVE  \E f \in losses' : f.subject = reviews'[r].reviewer /\ f.id > reviews'[r].since
      BY DEF LossesPending, Spoilt
  <2>2. PICK f \in losses : f.subject = reviews[r].reviewer /\ f.id > reviews[r].since
      BY <2>1, <1>2, <1>6, StrandedParts DEF LossesPending, Spoilt
  <2>3. f # e
    <3>1. /\ now \in Nat /\ reviews[r] \in ReviewRows /\ e \in Events(now) /\ f \in Events(now)
        BY <1>t DEF Types
    <3>2. e.id \in Nat /\ reviews[r].since \in Nat BY <3>1 DEF Events, ReviewRows
    <3> QED BY <2>1, <2>2, <3>2, <1>6
  <2> QED BY <2>1, <2>2, <2>3, <1>1, <1>6
<1> QED BY <1>3, <1>4, <1>5, <1>7, <1>8 DEF LeasesTended, ClaimsNamed, LossesPending, NothingStranded

LEMMA RoleTends ==
    ASSUME LeaseAssumption, Tended, Judgement', NEW p \in People, NEW role \in NewRoles, SetRole(p, role)
    PROVE  Tended'
<1> USE DEF Tended
<1>t. Types /\ Types' BY DEF Judgement
<1>1. UNCHANGED <<reviews, sess, thread, lease, closes>> BY DEF SetRole, hosting
<1>2. {p} \in SUBSET Actors /\ p \notin Sessions BY DEF Actors, LeaseAssumption
<1>3. UNCHANGED log \/ \E type \in {"revoked", "demoted"} : Logs(type, {p}) BY DEF SetRole
<1>4. Visiting' BY <1>1 DEF Visiting, Live
<1>5. \A a \in Sessions : Visited(a)' <=> Visited(a) BY <1>1 DEF Visited, Visits, Live
<1>6. Pending'
  <2>1. CASE UNCHANGED log BY <2>1, <1>1, <1>5, PendingKept DEF log
  <2>2. ASSUME NEW type \in {"revoked", "demoted"}, Logs(type, {p}) PROVE Pending'
    <3>1. \A a \in Sessions : a \in {p} \/ (thread[a].status = "retired" /\ ~Visited(a)) =>
              thread'[a].status = "retired" /\ ~Visited(a)'
        BY <1>1, <1>2, <1>5
    <3> QED BY <2>2, <3>1, <1>2, <1>t, PendingLogged
  <2> QED BY <1>3, <2>1, <2>2
<1>7. LeasesTended' BY <1>1, StrandedParts DEF LeasesTended, Live
<1>8. ClaimsNamed' BY <1>1, StrandedParts, NamesStay
<1>9. LossesPending'
  <2>1. LogStep BY <1>2, <1>3 DEF LogStep
  <2> QED BY <1>1, <1>t, <2>1, StrandedParts, PendingStays
<1> QED BY <1>4, <1>6, <1>7, <1>8, <1>9 DEF LeasesTended, ClaimsNamed, LossesPending, NothingStranded

\* Moves, and claims by hand.
LEMMA StillSteps ==
    ASSUME LeaseAssumption, Judgement, Judgement',
           \/ Moves
           \/ \E p \in People : ReleaseByPerson(p) \/ ExtendLimit(p)
                  \/ \E override \in BOOLEAN : ClaimByPerson(p, override)
           \/ UNCHANGED vars
    PROVE  /\ Still
           /\ \A r \in Deliveries : reviews'[r].status = "started" =>
                 reviews'[r] = reviews[r] \/ (Taken(r) /\ ~reviews'[r].byAgent)
<1> DEFINE Goal == /\ Still
                   /\ \A r \in Deliveries : reviews'[r].status = "started" =>
                         reviews'[r] = reviews[r] \/ (Taken(r) /\ ~reviews'[r].byAgent)
<1>t. reviews \in [Deliveries -> ReviewRows] BY DEF Judgement, Types
<1>1. ASSUME NEW s \in Sessions, Deliver(s) PROVE Goal
  <2>1. PICK q \in Deliveries :
            reviews' = [reviews EXCEPT ![q] = Requested(Revision + 1, sess[s].actor, sess[s].source)]
      BY <1>1 DEF Deliver
  <2>2. reviews'[q].status = "requested" BY <2>1, <1>t DEF Requested, NoReview
  <2>3. \A r \in Deliveries : r # q => reviews'[r] = reviews[r] BY <2>1, <1>t
  <2>4. Still BY <1>1 DEF Deliver, Still
  <2> QED BY <2>2, <2>3, <2>4
<1>2. ASSUME NEW actor \in Actors, MarkFailed(actor) PROVE Goal
  <2>1. \A r \in Deliveries : \/ reviews'[r] = reviews[r]
                              \/ reviews'[r] = [reviews[r] EXCEPT !.status = "superseded"]
      BY <1>2 DEF MarkFailed, Supersede
  <2>2. \A review \in ReviewRows : [review EXCEPT !.status = "superseded"].status = "superseded"
      BY DEF ReviewRows
  <2>3. \A r \in Deliveries : reviews'[r].status = "started" => reviews'[r] = reviews[r]
    <3>1. TAKE r \in Deliveries
    <3>2. reviews[r] \in ReviewRows BY <1>t
    <3> QED BY <2>1, <2>2, <3>2
  <2>4. Still BY <1>2 DEF MarkFailed, Still
  <2> QED BY <2>3, <2>4
<1>3. ASSUME NEW actor, NEW claim, NEW verdict \in Verdicts, HoldsClaim(actor, claim), Submit(actor, verdict)
      PROVE  Goal
  <2>1. task.review \in Deliveries BY <1>3 DEF HoldsClaim, Judgement, Placed
  <2>2. /\ reviews'[task.review].status = "submitted"
        /\ \A r \in Deliveries : r # task.review => reviews'[r] = reviews[r]
      BY <1>3, <2>1, SubmitRows DEF Judgement
  <2>3. Still BY <1>3 DEF Submit, Still
  <2> QED BY <2>2, <2>3
<1>4. ASSUME NEW p \in People, ReleaseByPerson(p) PROVE Goal
  <2>1. reviews' = [reviews EXCEPT ![task.review] = Returned(@)] /\ Still
      BY <1>4 DEF ReleaseByPerson, Still
  <2>2. \A r \in Deliveries : reviews'[r].status = "started" => reviews'[r] = reviews[r]
    <3>1. TAKE r \in Deliveries
    <3>2. Returned(reviews[r]).status = "requested" BY <1>t, ReturnedFields
    <3>3. reviews'[r] = reviews[r] \/ reviews'[r] = Returned(reviews[r]) BY <2>1, <1>t
    <3> QED BY <3>2, <3>3
  <2> QED BY <2>1, <2>2
<1>5. ASSUME NEW p \in People, NEW override \in BOOLEAN, ClaimByPerson(p, override) PROVE Goal
  <2>1. /\ reviews[task.review].status = "requested" /\ now' = now
        /\ reviews' = [reviews EXCEPT ![task.review] = Started(reviews[task.review], p, now, FALSE, override)]
        /\ Still
      BY <1>5 DEF ClaimByPerson, Still, log
  <2>2. p \in Actors /\ p \notin Sessions BY DEF Actors, LeaseAssumption
  <2>3. \A r \in Deliveries : reviews'[r] = reviews[r] \/ (Taken(r) /\ ~reviews'[r].byAgent)
    <3>1. TAKE r \in Deliveries
    <3>2. CASE r # task.review BY <3>2, <2>1, <1>t
    <3>3. CASE r = task.review
      <4>1. reviews'[r] = Started(reviews[r], p, now', FALSE, override) BY <3>3, <2>1, <1>t
      <4>2. Taken(r) BY <4>1, <3>3, <2>1, <2>2 DEF Taken
      <4>3. reviews[r] \in ReviewRows BY <1>t
      <4>4. ~reviews'[r].byAgent BY <4>1, <4>3 DEF Started, ReviewRows
      <4> QED BY <4>2, <4>4
    <3> QED BY <3>2, <3>3
  <2> QED BY <2>1, <2>3
<1>6. ASSUME NEW p \in People, ExtendLimit(p) PROVE Goal BY <1>6 DEF ExtendLimit, Still
<1>7. ASSUME UNCHANGED vars PROVE Goal BY <1>7 DEF vars, Still
<1>8. ASSUME NEW p \in People, NEW verdict \in Verdicts, VerdictByPerson(p, verdict) PROVE Goal
  <2>1. HoldsClaim(p, reviews[task.review].claim) /\ Submit(p, verdict) BY <1>8 DEF VerdictByPerson
  <2> HIDE DEF Goal
  <2> QED BY <2>1, <1>3
<1>9. ASSUME NEW s \in Sessions, NEW verdict \in Verdicts, VerdictByWorker(s, verdict) PROVE Goal
  <2>1. HoldsClaim(sess[s].actor, lease[s].claim) /\ Submit(sess[s].actor, verdict)
      BY <1>9 DEF VerdictByWorker
  <2> HIDE DEF Goal
  <2> QED BY <2>1, <1>3
<1> HIDE DEF Goal
<1>10. ASSUME Moves PROVE Goal BY <1>10, <1>1, <1>2, <1>8, <1>9 DEF Moves
<1>11. ASSUME NEW p \in People,
              ReleaseByPerson(p) \/ ExtendLimit(p) \/ \E override \in BOOLEAN : ClaimByPerson(p, override)
       PROVE  Goal
    BY <1>4, <1>5, <1>6, <1>11
<1>12. Goal BY <1>7, <1>10, <1>11
<1> QED BY <1>12 DEF Goal

LEMMA TendedStep == LeaseAssumption /\ Tended /\ [Next]_vars => Tended'
<1> SUFFICES ASSUME LeaseAssumption, Tended, [Next]_vars PROVE Tended' OBVIOUS
<1>j. Judgement /\ Judgement' BY JudgementStep DEF Tended
<1>1. CASE Moves BY <1>1, <1>j, StillSteps, StillTends
<1>2. CASE UNCHANGED vars BY <1>2, <1>j, StillSteps, StillTends
<1>3. ASSUME NEW p \in People, ByPerson(p) PROVE Tended'
  <2>1. CASE ReleaseByPerson(p) \/ ExtendLimit(p) \/ \E override \in BOOLEAN : ClaimByPerson(p, override)
      BY <2>1, <1>j, StillSteps, StillTends
  <2>2. CASE FailByPerson(p) BY <1>1, <2>2 DEF FailByPerson, Moves, Actors
  <2>3. ASSUME NEW verdict \in Verdicts, VerdictByPerson(p, verdict) PROVE Tended'
      BY <1>1, <2>3 DEF Moves
  <2> QED BY <1>3, <1>j, <2>1, <2>2, <2>3, OfferTends, RoleTends DEF ByPerson
<1>4. ASSUME NEW s \in Sessions, ByWorker(s) PROVE Tended'
  <2>1. CASE FailByWorker(s)
    <3>1. sess[s].actor \in Actors /\ MarkFailed(sess[s].actor)
        BY <1>j, <2>1 DEF FailByWorker, Holds, Judgement, Placed, Actors
    <3> QED BY <1>1, <3>1 DEF Moves
  <2>2. CASE Deliver(s) BY <1>1, <2>2 DEF Moves
  <2>3. ASSUME NEW verdict \in Verdicts, VerdictByWorker(s, verdict) PROVE Tended'
      BY <1>1, <2>3 DEF Moves
  <2> QED BY <1>4, <1>j, <2>1, <2>2, <2>3, ActivateTends DEF ByWorker
<1> QED BY <1>j, <1>2, <1>3, <1>4, CloseTends, RetireTends, ReleasedTends, RecoveredTends DEF Next, Consumed

LEMMA TendedInvariant == Spec => []Tended
<1>1. Init => Tended BY TendedInit, LeaseAssumption
<1>2. Tended /\ [Next]_vars => Tended' BY TendedStep, LeaseAssumption
<1> QED BY <1>1, <1>2, PTL DEF Spec

\* A live lease has a live session or a close still to be handled, a worker's claim has the lease
\* that gives it back, and a claim whose holder lost permission has a pending event that takes it.
THEOREM NothingStrandedCorrect == Spec => []NothingStranded
<1>1. Tended => NothingStranded BY DEF Tended
<1> QED BY <1>1, TendedInvariant, PTL

-----------------------------------------------------------------------------
(* Fresh claims stay.                                                      *)

\* No move returns a claimed review to the pool.
LEMMA MovesReturnNothing ==
    ASSUME LeaseAssumption, Judgement, Judgement', Moves,
           NEW r \in Deliveries, reviews[r].status = "started"
    PROVE  reviews'[r].status # "requested"
<1>t. reviews \in [Deliveries -> ReviewRows] BY DEF Judgement, Types
<1>1. ASSUME NEW s \in Sessions, Deliver(s) PROVE reviews'[r].status # "requested"
  <2>1. PICK q \in Deliveries :
            /\ reviews[q].status = "none"
            /\ reviews' = [reviews EXCEPT ![q] = Requested(Revision + 1, sess[s].actor, sess[s].source)]
      BY <1>1 DEF Deliver
  <2> QED BY <2>1, <1>t
<1>2. ASSUME NEW actor \in Actors, MarkFailed(actor) PROVE reviews'[r].status # "requested"
  <2>1. reviews'[r] = reviews[r] \/ reviews'[r] = [reviews[r] EXCEPT !.status = "superseded"]
      BY <1>2 DEF MarkFailed, Supersede
  <2>2. reviews[r] \in ReviewRows BY <1>t
  <2>3. [reviews[r] EXCEPT !.status = "superseded"].status = "superseded" BY <2>2 DEF ReviewRows
  <2> QED BY <2>1, <2>3
<1>3. ASSUME NEW actor, NEW claim, NEW verdict \in Verdicts, HoldsClaim(actor, claim), Submit(actor, verdict)
      PROVE  reviews'[r].status # "requested"
  <2>1. task.review \in Deliveries BY <1>3 DEF HoldsClaim, Judgement, Placed
  <2>2. /\ reviews'[task.review].status = "submitted"
        /\ \A q \in Deliveries : q # task.review => reviews'[q] = reviews[q]
      BY <1>3, <2>1, SubmitRows DEF Judgement
  <2> QED BY <2>2
<1>4. ASSUME NEW p \in People, NEW verdict \in Verdicts, VerdictByPerson(p, verdict)
      PROVE  reviews'[r].status # "requested"
  <2>1. HoldsClaim(p, reviews[task.review].claim) /\ Submit(p, verdict) BY <1>4 DEF VerdictByPerson
  <2> QED BY <2>1, <1>3
<1>5. ASSUME NEW s \in Sessions, NEW verdict \in Verdicts, VerdictByWorker(s, verdict)
      PROVE  reviews'[r].status # "requested"
  <2>1. HoldsClaim(sess[s].actor, lease[s].claim) /\ Submit(sess[s].actor, verdict)
      BY <1>5 DEF VerdictByWorker
  <2> QED BY <2>1, <1>3
<1> QED BY <1>1, <1>2, <1>4, <1>5 DEF Moves

\* Why a claim is given back.
GoodReason(r) ==
    IF reviews[r].byAgent
    THEN \E s \in Sessions : Names(s, r) /\ sess'[s].status = "closed"
    ELSE losses' = losses \/ Spoilt(reviews[r])

\* The release of a session's lease gives back the claim that names it, a worker's.
LEMMA ReleaseHasReason ==
    ASSUME LeaseAssumption, Tended, NEW s \in Sessions, ReleaseLeaseRow(s),
           sess[s].status # "none", sess'[s].status = "closed",
           \A v \in Sessions : sess'[v].actor = sess[v].actor,
           NEW r \in Deliveries, GivenBack(r)
    PROVE  GoodReason(r)
<1>1. Judgement /\ ClaimsNamed BY StrandedParts DEF Tended
<1>2. Names(s, r) BY <1>1, NamesReleased
<1>3. reviews[r].reviewer \in Sessions
  <2>1. sess[s].actor \in Sessions BY <1>1 DEF Judgement, Placed
  <2> QED BY <2>1, <1>2 DEF Names
<1>4. reviews[r].byAgent BY <1>1, <1>3 DEF GivenBack, Judgement, Claims
<1> QED BY <1>2, <1>4 DEF GoodReason

LEMMA RecoveryHasReason ==
    ASSUME LeaseAssumption, Tended, NEW type \in {"revoked", "demoted"}, ClaimsReleased(type),
           NEW r \in Deliveries, GivenBack(r)
    PROVE  GoodReason(r)
<1>t. Judgement /\ Types BY DEF Tended, Judgement
<1>1. PICK e \in losses :
          /\ reviews' = [q \in Deliveries |-> Recovered(reviews[q], e)]
          /\ UNCHANGED <<work, hosting, lease, member, closes, now, lost, turns>>
    BY DEF ClaimsReleased
<1>2. reviews[r].status = "started" /\ reviews'[r].status = "requested"
    BY <1>t, ReturnedFields DEF GivenBack, Types
<1>3. reviews[r].reviewer = e.subject /\ reviews[r].since < e.id
    BY <1>1, <1>2 DEF Recovered
<1>4. lost[e.subject] >= e.id /\ (e.subject \in Sessions =>
          thread[e.subject].status = "retired" /\ ~Visited(e.subject))
    BY DEF Tended, Pending
<1>5. CASE reviews[r].byAgent
  <2>1. PICK s \in Sessions : Names(s, r)
      BY <1>2, <1>5, StrandedParts DEF Tended, ClaimsNamed
  <2>2. Live(s) \/ s \in closes BY <2>1, StrandedParts DEF Tended, LeasesTended, Names
  <2>3. reviews[r].reviewer \in Sessions BY <1>2, <1>5, <1>t DEF Judgement, Claims
  <2>4. ~Live(s)
    <3>1. sess[s].actor = e.subject BY <2>1, <1>3 DEF Names
    <3>2. ~Visited(e.subject) BY <1>3, <1>4, <2>3
    <3> QED BY <3>1, <3>2 DEF Visited, Visits, Live
  <2>5. sess[s].status = "closed" BY <2>2, <2>4 DEF Tended, Visiting
  <2>6. sess' = sess BY <1>1 DEF hosting
  <2> QED BY <1>5, <2>1, <2>5, <2>6 DEF GoodReason
<1>6. CASE ~reviews[r].byAgent
  <2>1. e \in Events(now) /\ now \in Nat /\ lost \in [Actors -> 0..now] /\ reviews[r] \in ReviewRows
      BY <1>t DEF Types
  <2>2. e.id \in Nat /\ lost[e.subject] \in Nat /\ reviews[r].since \in Nat
      BY <2>1 DEF Events, ReviewRows
  <2>3. lost[reviews[r].reviewer] > reviews[r].since BY <1>3, <1>4, <2>2
  <2> QED BY <1>6, <2>3 DEF GoodReason, Spoilt
<1> QED BY <1>5, <1>6

LEMMA ClaimsHaveReasons ==
    ASSUME LeaseAssumption, Tended, Tended', Next, NEW r \in Deliveries,
           reviews[r].status = "started", reviews'[r].status = "requested"
    PROVE  GoodReason(r)
<1>t. Judgement /\ Judgement' /\ Types /\ Types' /\ Placed BY DEF Tended, Judgement
<1>1. ~Moves BY <1>t, MovesReturnNothing
<1>2. GivenBack(r)
  <2>1. ClaimStep BY <1>t, <1>1, Steps
  <2> QED BY <2>1 DEF ClaimStep, Taken
<1>3. ASSUME NEW s \in Sessions, Close(s) PROVE GoodReason(r)
  <2>1. PICK away \in BOOLEAN : IF away THEN UNCHANGED <<lease, reviews>> ELSE ReleaseLeaseRow(s)
      BY <1>3 DEF Close
  <2>2. ReleaseLeaseRow(s) BY <2>1
  <2>3. sess[s].status # "none" /\ sess'[s].status = "closed"
        /\ \A v \in Sessions : sess'[v].actor = sess[v].actor
    <3>1. sess[s] \in SessionRows /\ sess' = [sess EXCEPT ![s] = [sess[s] EXCEPT !.status = "closed"]]
        BY <1>3, <1>t DEF Close, Types
    <3>2. sess'[s] = [sess[s] EXCEPT !.status = "closed"] BY <3>1, <1>t DEF Types
    <3> QED BY <1>3, <3>1, <3>2 DEF Close, Live, SessionRows
  <2> QED BY <1>2, <2>2, <2>3, ReleaseHasReason
<1>4. CASE LeaseReleased
  <2>1. PICK s \in closes : ReleaseLeaseRow(s) /\ UNCHANGED hosting BY <1>4 DEF LeaseReleased
  <2>2. s \in Sessions /\ sess[s].status = "closed" /\ sess' = sess
      BY <2>1, <1>t DEF Types, Tended, Visiting, hosting
  <2> QED BY <1>2, <2>1, <2>2, ReleaseHasReason
<1>5. ASSUME NEW type \in {"revoked", "demoted"}, ClaimsReleased(type) PROVE GoodReason(r)
    BY <1>2, <1>5, RecoveryHasReason
<1>6. ASSUME NEW p \in People, ReleaseByPerson(p) PROVE GoodReason(r)
  <2>1. /\ ~reviews[task.review].byAgent /\ losses' = losses
        /\ reviews' = [reviews EXCEPT ![task.review] = Returned(@)]
      BY <1>6 DEF ReleaseByPerson, HandReleased, log
  <2>2. r = task.review BY <2>1, <1>t DEF Types
  <2> QED BY <2>1, <2>2 DEF GoodReason
\* The other steps return no claim.
<1>7. ASSUME reviews' = reviews PROVE GoodReason(r) BY <1>7
<1>8. ASSUME NEW s \in Sessions, NEW p \in People, NEW role \in {"producer", "reviewer"}, Offer(s, p, role)
      PROVE  GoodReason(r)
  <2>1. PICK actor \in Sessions : Acquire(s, role, actor) BY <1>8 DEF Offer
  <2>2. CASE role = "producer" BY <2>1, <2>2, <1>7 DEF Acquire
  <2>3. CASE role = "reviewer"
    <3>1. reviews[task.review].status = "requested" BY <1>8, <2>3 DEF Offer, LeaseRole
    <3>2. reviews' = [reviews EXCEPT ![task.review] = Started(@, actor, now', TRUE, FALSE)]
        BY <2>1, <2>3 DEF Acquire
    <3>3. reviews'[r] = reviews[r] BY <3>1, <3>2, <1>t DEF Types
    <3> QED BY <3>3
  <2> QED BY <2>2, <2>3
<1>9. ASSUME NEW p \in People, NEW override \in BOOLEAN, ClaimByPerson(p, override) PROVE GoodReason(r)
  <2>1. /\ reviews[task.review].status = "requested"
        /\ reviews' = [reviews EXCEPT ![task.review] = Started(reviews[task.review], p, now, FALSE, override)]
      BY <1>9 DEF ClaimByPerson
  <2>2. reviews'[r] = reviews[r] BY <2>1, <1>t DEF Types
  <2> QED BY <2>2
<1>10. ASSUME NEW a \in Sessions, RetireThread(a) PROVE GoodReason(r) BY <1>7, <1>10 DEF RetireThread
<1>11. ASSUME NEW p \in People, NEW role \in NewRoles, SetRole(p, role) PROVE GoodReason(r)
    BY <1>7, <1>11 DEF SetRole
<1>12. ASSUME NEW p \in People, ExtendLimit(p) PROVE GoodReason(r) BY <1>7, <1>12 DEF ExtendLimit
<1>13. ASSUME NEW s \in Sessions, Activate(s) PROVE GoodReason(r) BY <1>7, <1>13 DEF Activate
<1>14. ASSUME NEW p \in People, ByPerson(p) PROVE GoodReason(r)
  <2>1. ~FailByPerson(p) BY <1>1 DEF Moves, FailByPerson, Actors
  <2>2. \A verdict \in Verdicts : ~VerdictByPerson(p, verdict) BY <1>1 DEF Moves
  <2> QED BY <1>14, <2>1, <2>2, <1>6, <1>8, <1>9, <1>11, <1>12 DEF ByPerson
<1>15. ASSUME NEW s \in Sessions, ByWorker(s) PROVE GoodReason(r)
  <2>1. ~FailByWorker(s) BY <1>1, <1>t DEF Moves, FailByWorker, Holds, Placed, Actors
  <2>2. \A verdict \in Verdicts : ~VerdictByWorker(s, verdict) BY <1>1 DEF Moves
  <2>3. ~Deliver(s) BY <1>1 DEF Moves
  <2> QED BY <1>15, <2>1, <2>2, <2>3, <1>13 DEF ByWorker
<1> QED BY <1>3, <1>4, <1>5, <1>10, <1>14, <1>15 DEF Next, Consumed

\* A claim goes back to the pool only for the end of its worker's session, by its person's own
\* choice or an administrator's, or because its person lost permission after making it.
THEOREM FreshClaimsStayCorrect == Spec => FreshClaimsStay
<1>1. Tended /\ Tended' /\ [Next]_vars =>
        [\A r \in Deliveries :
            reviews[r].status = "started" /\ reviews'[r].status = "requested" =>
                IF reviews[r].byAgent
                THEN \E s \in Sessions : Names(s, r) /\ sess'[s].status = "closed"
                ELSE losses' = losses \/ Spoilt(reviews[r])]_vars
    BY LeaseAssumption, ClaimsHaveReasons DEF GoodReason
<1> QED BY <1>1, TendedInvariant, PTL DEF Spec, FreshClaimsStay

-----------------------------------------------------------------------------
(* WorkLeases implements ReviewPromise.                                    *)

\* A membership is of the time it began, and a lease of the revision it was taken at.
Dated ==
    /\ \A p \in People : member[p].id <= turns
    /\ \A s \in Sessions :
          /\ sess[s].member <= turns
          /\ sess[s].status = "none" => lease[s].review = 0
          /\ lease[s].review = 0 => lease[s].claim = 0
          /\ lease[s].review # 0 => /\ reviews[lease[s].review].status # "none"
                                    /\ reviews[lease[s].review].rev = sess[s].rev

\* What a session is stays, but for its status; a lease keeps what it names.
SessionsStay ==
    /\ \A s \in Sessions :
          /\ sess'[s].actor = sess[s].actor /\ sess'[s].source = sess[s].source
          /\ sess'[s].member = sess[s].member /\ sess'[s].role = sess[s].role
          /\ sess'[s].rev = sess[s].rev
          /\ sess'[s].status # "none" <=> sess[s].status # "none"
          /\ Live(s)' => Live(s)
          /\ lease'[s].live => lease[s].live
          /\ lease'[s].review = lease[s].review /\ lease'[s].claim = lease[s].claim
    /\ \A p \in People : member'[p] = member[p] \/ (member'[p].id = turns + 1 /\ turns' = turns + 1)
    /\ turns' >= turns
    /\ \A a \in Actors : lost'[a] >= lost[a]

\* Reviews but for a claim given back.
OnlyGivenBack == \A r \in Deliveries : reviews'[r] = reviews[r] \/ GivenBack(r)

LEMMA LostGrows ==
    ASSUME Types, UNCHANGED log \/ \E type \in {"revoked", "demoted"}, actors \in SUBSET Actors : Logs(type, actors)
    PROVE  \A a \in Actors : lost'[a] >= lost[a]
<1>1. now \in Nat /\ \A a \in Actors : lost[a] \in 0..now BY DEF Types
<1>2. CASE UNCHANGED log BY <1>1, <1>2 DEF log
<1>3. ASSUME NEW type \in {"revoked", "demoted"}, NEW actors \in SUBSET Actors, Logs(type, actors)
      PROVE  \A a \in Actors : lost'[a] >= lost[a]
  <2> DEFINE logged == {a \in actors : Concerned(a)}
  <2> HIDE DEF logged
  <2>1. lost' = [a \in Actors |-> IF a \in logged THEN now + 1 ELSE lost[a]]
      BY <1>3 DEF Logs, logged
  <2> QED BY <2>1, <1>1
<1> QED BY <1>2, <1>3

LEMMA ReleaseStays ==
    ASSUME Types, NEW s \in Sessions, ReleaseLeaseRow(s)
    PROVE  /\ OnlyGivenBack
           /\ \A v \in Sessions : /\ lease'[v].live => lease[v].live
                                  /\ lease'[v].review = lease[v].review /\ lease'[v].claim = lease[v].claim
<1>1. OnlyGivenBack BY ReleaseGivesBack DEF OnlyGivenBack
<1>2. lease' = lease \/ lease' = [lease EXCEPT ![s] = [lease[s] EXCEPT !.live = FALSE]]
    BY DEF ReleaseLeaseRow
<1>3. lease[s] \in LeaseRows /\ lease \in [Sessions -> LeaseRows] BY DEF Types
<1>4. \A v \in Sessions : lease'[v] = lease[v] \/ lease'[v] = [lease[v] EXCEPT !.live = FALSE]
    BY <1>2, <1>3
<1>5. \A l \in LeaseRows : /\ ~[l EXCEPT !.live = FALSE].live
                           /\ [l EXCEPT !.live = FALSE].review = l.review
                           /\ [l EXCEPT !.live = FALSE].claim = l.claim
    BY DEF LeaseRows
<1>6. \A v \in Sessions : /\ lease'[v].live => lease[v].live
                          /\ lease'[v].review = lease[v].review /\ lease'[v].claim = lease[v].claim
  <2>1. TAKE v \in Sessions
  <2>2. lease[v] \in LeaseRows BY <1>3
  <2> QED BY <2>2, <1>4, <1>5
<1> QED BY <1>1, <1>6

\* Every step but an offer and a claim by hand.
LEMMA QuietSteps ==
    ASSUME LeaseAssumption, Tended, Tended', [Next]_vars, ~Moves,
           \A s \in Sessions, p \in People, role \in {"producer", "reviewer"} : ~Offer(s, p, role),
           \A p \in People, override \in BOOLEAN : ~ClaimByPerson(p, override)
    PROVE  SessionsStay /\ OnlyGivenBack
<1> DEFINE Goal == SessionsStay /\ OnlyGivenBack
<1>t. Judgement /\ Types /\ Types' /\ Placed BY DEF Tended, Judgement
<1>u. turns \in Nat BY <1>t DEF Types
<1>l. UNCHANGED log => \A a \in Actors : lost'[a] >= lost[a] BY <1>t, LostGrows
<1>1. ASSUME NEW s \in Sessions, Close(s) PROVE Goal
  <2>1. PICK retire \in {FALSE, MayRetire(s)}, away \in BOOLEAN :
            LET over == retire \/ thread[sess[s].actor].status = "retired" IN
            /\ Logs("revoked", IF over /\ away THEN {sess[s].actor} ELSE {})
            /\ IF away THEN UNCHANGED <<lease, reviews>> ELSE ReleaseLeaseRow(s)
            /\ turns' = IF away THEN turns + 1 ELSE turns
      BY <1>1 DEF Close
  <2>2. \A a \in Actors : lost'[a] >= lost[a]
    <3>1. sess[s].actor \in Actors BY <1>1, <1>t DEF Close, Live, Placed, Actors
    <3> QED BY <2>1, <3>1, <1>t, LostGrows
  <2>3. /\ OnlyGivenBack
        /\ \A v \in Sessions : /\ lease'[v].live => lease[v].live
                               /\ lease'[v].review = lease[v].review /\ lease'[v].claim = lease[v].claim
      BY <2>1, <1>t, ReleaseStays DEF OnlyGivenBack
  <2>4. \A v \in Sessions : \/ sess'[v] = sess[v]
                            \/ Live(v) /\ sess'[v] = [sess[v] EXCEPT !.status = "closed"]
      BY <1>1, <1>t DEF Close, Types
  <2>5. \A v \in Sessions :
          /\ sess'[v].actor = sess[v].actor /\ sess'[v].source = sess[v].source
          /\ sess'[v].member = sess[v].member /\ sess'[v].role = sess[v].role
          /\ sess'[v].rev = sess[v].rev
          /\ sess'[v].status # "none" <=> sess[v].status # "none"
          /\ Live(v)' => Live(v)
    <3>1. TAKE v \in Sessions
    <3>2. sess[v] \in SessionRows BY <1>t DEF Types
    <3>3. CASE sess'[v] = sess[v] BY <3>3 DEF Live
    <3>4. CASE Live(v) /\ sess'[v] = [sess[v] EXCEPT !.status = "closed"]
        BY <3>2, <3>4 DEF Live, SessionRows
    <3> QED BY <2>4, <3>3, <3>4
  <2>6. member' = member /\ turns' >= turns BY <1>1, <2>1, <1>u DEF Close
  <2> QED BY <2>2, <2>3, <2>5, <2>6 DEF SessionsStay
<1>2. ASSUME NEW a \in Sessions, RetireThread(a) PROVE Goal
  <2>1. /\ Logs("revoked", RevokedWith({a})) /\ turns' = turns + 1
        /\ UNCHANGED <<reviews, sess, lease, member>>
      BY <1>2 DEF RetireThread
  <2>2. RevokedWith({a}) \in SUBSET Actors BY DEF RevokedWith, Actors
  <2>3. \A b \in Actors : lost'[b] >= lost[b] BY <2>1, <2>2, <1>t, LostGrows
  <2> QED BY <2>1, <2>3, <1>u DEF SessionsStay, OnlyGivenBack, Live
<1>3. ASSUME LeaseReleased PROVE Goal
  <2>1. PICK s \in closes : ReleaseLeaseRow(s) /\ UNCHANGED <<hosting, member, log, turns>>
      BY <1>3 DEF LeaseReleased
  <2>2. s \in Sessions BY <1>t DEF Types
  <2>3. /\ OnlyGivenBack
        /\ \A v \in Sessions : /\ lease'[v].live => lease[v].live
                               /\ lease'[v].review = lease[v].review /\ lease'[v].claim = lease[v].claim
      BY <2>1, <2>2, <1>t, ReleaseStays
  <2> QED BY <2>1, <2>3, <1>u, <1>l DEF SessionsStay, Live, hosting
<1>4. ASSUME NEW type \in {"revoked", "demoted"}, ClaimsReleased(type) PROVE Goal
  <2>1. PICK e \in losses :
            /\ reviews' = [r \in Deliveries |-> Recovered(reviews[r], e)]
            /\ UNCHANGED <<hosting, lease, member, lost, turns>>
      BY <1>4 DEF ClaimsReleased
  <2>2. OnlyGivenBack BY <2>1 DEF OnlyGivenBack, Recovered, GivenBack
  <2>3. \A a \in Actors : lost'[a] >= lost[a]
    <3>1. \A a \in Actors : lost[a] \in 0..now /\ now \in Nat BY <1>t DEF Types
    <3> QED BY <2>1, <3>1
  <2> QED BY <2>1, <2>2, <2>3, <1>u DEF SessionsStay, Live, hosting
<1>5. ASSUME NEW p \in People, NEW role \in NewRoles, SetRole(p, role) PROVE Goal
  <2>1. /\ UNCHANGED log \/ Logs("revoked", {p}) \/ Logs("demoted", {p})
        /\ UNCHANGED <<reviews, sess, lease>> /\ turns' = turns + 1
        /\ member' = [member EXCEPT ![p] = [role |-> role, id |-> turns + 1]]
      BY <1>5 DEF SetRole, hosting
  <2>2. \A a \in Actors : lost'[a] >= lost[a]
    <3>1. {p} \in SUBSET Actors BY DEF Actors
    <3> QED BY <2>1, <3>1, <1>t, LostGrows
  <2>3. \A q \in People : member'[q] = member[q] \/ (member'[q].id = turns + 1 /\ turns' = turns + 1)
      BY <2>1, <1>t DEF Types
  <2> QED BY <2>1, <2>2, <2>3, <1>u DEF SessionsStay, OnlyGivenBack, Live
<1>6. ASSUME NEW p \in People, ReleaseByPerson(p) PROVE Goal
  <2>1. /\ reviews[task.review].status = "started"
        /\ reviews' = [reviews EXCEPT ![task.review] = Returned(@)]
        /\ UNCHANGED <<hosting, lease, member, log, turns>>
      BY <1>6 DEF ReleaseByPerson, HandReleased
  <2>2. OnlyGivenBack BY <2>1, <1>t DEF OnlyGivenBack, GivenBack, Types
  <2> QED BY <2>1, <2>2, <1>u, <1>l DEF SessionsStay, Live, hosting
<1>7. ASSUME NEW p \in People, ExtendLimit(p) PROVE Goal
  <2>1. UNCHANGED <<reviews, hosting, lease, member, log>> /\ turns' = turns + 1
      BY <1>7 DEF ExtendLimit
  <2> QED BY <2>1, <1>u, <1>l DEF SessionsStay, OnlyGivenBack, Live, hosting
<1>8. ASSUME NEW s \in Sessions, Activate(s) PROVE Goal
  <2>1. UNCHANGED <<reviews, lease, member, log, turns>> BY <1>8 DEF Activate
  <2>2. \A v \in Sessions : \/ sess'[v] = sess[v]
                            \/ Live(v) /\ sess'[v] = [sess[v] EXCEPT !.status = "active"]
      BY <1>8, <1>t DEF Activate, Types, Live
  <2>3. \A v \in Sessions :
          /\ sess'[v].actor = sess[v].actor /\ sess'[v].source = sess[v].source
          /\ sess'[v].member = sess[v].member /\ sess'[v].role = sess[v].role
          /\ sess'[v].rev = sess[v].rev
          /\ sess'[v].status # "none" <=> sess[v].status # "none"
          /\ Live(v)' => Live(v)
    <3>1. TAKE v \in Sessions
    <3>2. sess[v] \in SessionRows BY <1>t DEF Types
    <3>3. CASE sess'[v] = sess[v] BY <3>3 DEF Live
    <3>4. CASE Live(v) /\ sess'[v] = [sess[v] EXCEPT !.status = "active"]
        BY <3>2, <3>4 DEF Live, SessionRows
    <3> QED BY <2>2, <3>3, <3>4
  <2> QED BY <2>1, <2>3, <1>u, <1>l DEF SessionsStay, OnlyGivenBack
<1>9. ASSUME UNCHANGED vars PROVE Goal
    BY <1>9, <1>u, <1>l DEF vars, SessionsStay, OnlyGivenBack, Live, hosting
<1> HIDE DEF Goal
<1>10. ASSUME NEW p \in People, ByPerson(p) PROVE Goal
  <2>1. ~FailByPerson(p) /\ \A verdict \in Verdicts : ~VerdictByPerson(p, verdict)
      BY DEF Moves, FailByPerson, Actors
  <2> QED BY <2>1, <1>5, <1>6, <1>7, <1>10 DEF ByPerson
<1>11. ASSUME NEW s \in Sessions, ByWorker(s) PROVE Goal
  <2>1. ~FailByWorker(s) BY <1>t DEF Moves, FailByWorker, Holds, Placed, Actors
  <2>2. ~Deliver(s) /\ \A verdict \in Verdicts : ~VerdictByWorker(s, verdict) BY DEF Moves
  <2> QED BY <2>1, <2>2, <1>8, <1>11 DEF ByWorker
<1>12. Goal BY <1>1, <1>2, <1>3, <1>4, <1>9, <1>10, <1>11 DEF Next, Consumed
<1> QED BY <1>12 DEF Goal

Whole == Tended /\ Dated

LEMMA DatedInit == LeaseAssumption /\ Init => Dated
<1> SUFFICES ASSUME LeaseAssumption, Init PROVE Dated OBVIOUS
<1>1. turns = 0 /\ \A p \in People : member[p].id = 0 BY DEF Init
<1>2. \A s \in Sessions : sess[s].member = 0 /\ lease[s].review = 0 /\ lease[s].claim = 0
    BY DEF Init, NoSession, NoLease
<1> QED BY <1>1, <1>2 DEF Dated

\* A review once made keeps its revision.
LEMMA RevisionsStay ==
    ASSUME LeaseAssumption, Judgement, Judgement', [Next]_vars, NEW r \in Deliveries, reviews[r].status # "none"
    PROVE  reviews'[r].status # "none" /\ reviews'[r].rev = reviews[r].rev
<1>t. Types /\ Placed /\ reviews \in [Deliveries -> ReviewRows] BY DEF Judgement, Types
<1>1. CASE ClaimStep BY <1>1, <1>t, ClaimStepRows
<1>2. ASSUME NEW s \in Sessions, Deliver(s)
      PROVE  reviews'[r].status # "none" /\ reviews'[r].rev = reviews[r].rev
  <2>1. PICK q \in Deliveries :
            /\ reviews[q].status = "none"
            /\ reviews' = [reviews EXCEPT ![q] = Requested(Revision + 1, sess[s].actor, sess[s].source)]
      BY <1>2 DEF Deliver
  <2> QED BY <2>1, <1>t
<1>3. ASSUME NEW actor \in Actors, MarkFailed(actor)
      PROVE  reviews'[r].status # "none" /\ reviews'[r].rev = reviews[r].rev
  <2>1. reviews'[r] = reviews[r] \/ reviews'[r] = [reviews[r] EXCEPT !.status = "superseded"]
      BY <1>3 DEF MarkFailed, Supersede
  <2>2. reviews[r] \in ReviewRows BY <1>t
  <2> QED BY <2>1, <2>2 DEF ReviewRows
<1>4. ASSUME NEW actor, NEW claim, NEW verdict \in Verdicts, HoldsClaim(actor, claim), Submit(actor, verdict)
      PROVE  reviews'[r].status # "none" /\ reviews'[r].rev = reviews[r].rev
  <2>1. task.review \in Deliveries BY <1>4, <1>t DEF HoldsClaim, Placed
  <2>2. /\ reviews'[task.review].status = "submitted"
        /\ reviews'[task.review].rev = reviews[task.review].rev
        /\ \A q \in Deliveries : q # task.review => reviews'[q] = reviews[q]
      BY <1>4, <1>t, <2>1, SubmitRows
  <2> QED BY <2>2
<1>5. ASSUME NEW p \in People, NEW verdict \in Verdicts, VerdictByPerson(p, verdict)
      PROVE  reviews'[r].status # "none" /\ reviews'[r].rev = reviews[r].rev
  <2>1. HoldsClaim(p, reviews[task.review].claim) /\ Submit(p, verdict) BY <1>5 DEF VerdictByPerson
  <2> QED BY <2>1, <1>4
<1>6. ASSUME NEW s \in Sessions, NEW verdict \in Verdicts, VerdictByWorker(s, verdict)
      PROVE  reviews'[r].status # "none" /\ reviews'[r].rev = reviews[r].rev
  <2>1. HoldsClaim(sess[s].actor, lease[s].claim) /\ Submit(sess[s].actor, verdict)
      BY <1>6 DEF VerdictByWorker
  <2> QED BY <2>1, <1>4
<1> QED BY <1>t, <1>1, <1>2, <1>3, <1>5, <1>6, Steps DEF Moves

\* Sessions that stay keep their dates.
LEMMA StayDated ==
    ASSUME LeaseAssumption, Whole, Tended', [Next]_vars, SessionsStay
    PROVE  Dated'
<1>t. /\ Judgement /\ Judgement' /\ turns \in Nat /\ turns' \in Nat
      /\ member \in [People -> [role : Roles \cup {"none"}, id : Nat]]
      /\ sess \in [Sessions -> SessionRows] /\ lease \in [Sessions -> LeaseRows]
    BY DEF Whole, Tended, Judgement, Types
<1>1. \A p \in People : member'[p].id <= turns'
  <2>1. \A p \in People : member[p].id \in Nat /\ member[p].id <= turns BY <1>t DEF Whole, Dated
  <2> QED BY <2>1, <1>t DEF SessionsStay
<1>2. SUFFICES ASSUME NEW s \in Sessions
               PROVE  /\ sess'[s].member <= turns'
                      /\ sess'[s].status = "none" => lease'[s].review = 0
                      /\ lease'[s].review = 0 => lease'[s].claim = 0
                      /\ lease'[s].review # 0 => /\ reviews'[lease'[s].review].status # "none"
                                                 /\ reviews'[lease'[s].review].rev = sess'[s].rev
    BY <1>1 DEF Dated
<1>3. sess'[s].member <= turns'
  <2>1. sess[s].member \in Nat BY <1>t DEF SessionRows
  <2>2. sess[s].member <= turns /\ sess'[s].member = sess[s].member /\ turns' >= turns
      BY DEF Whole, Dated, SessionsStay
  <2> QED BY <2>1, <2>2, <1>t
<1>4. lease'[s].review # 0 => /\ reviews'[lease'[s].review].status # "none"
                             /\ reviews'[lease'[s].review].rev = sess'[s].rev
  <2>1. SUFFICES ASSUME lease[s].review # 0
                 PROVE  /\ reviews'[lease[s].review].status # "none"
                        /\ reviews'[lease[s].review].rev = sess[s].rev
      BY DEF SessionsStay
  <2>2. lease[s].review \in Deliveries
      BY <2>1, <1>t DEF LeaseRows, Deliveries, LeaseAssumption
  <2>3. reviews[lease[s].review].status # "none" /\ reviews[lease[s].review].rev = sess[s].rev
      BY <2>1 DEF Whole, Dated
  <2> QED BY <2>2, <2>3, <1>t, RevisionsStay
<1> QED BY <1>3, <1>4 DEF Whole, Dated, SessionsStay

\* Moves and claims by hand leave sessions alone.
LEMMA StillStays ==
    ASSUME Types, Still, UNCHANGED <<member, turns>>
    PROVE  SessionsStay
<1>1. \A a \in Actors : lost'[a] >= lost[a] BY LostGrows DEF Still
<1>2. turns \in Nat BY DEF Types
<1> QED BY <1>1, <1>2 DEF Still, SessionsStay, Live, hosting

LEMMA OfferDated ==
    ASSUME LeaseAssumption, Whole, Tended', NEW s \in Sessions, NEW p \in People,
           NEW role \in {"producer", "reviewer"}, Offer(s, p, role)
    PROVE  Dated'
<1>t. /\ Judgement /\ Judgement' /\ Types /\ Placed
      /\ sess \in [Sessions -> SessionRows] /\ lease \in [Sessions -> LeaseRows]
      /\ reviews \in [Deliveries -> ReviewRows]
    BY DEF Whole, Tended, Judgement, Types
<1>n. [Next]_vars
  <2>1. ByPerson(p) BY DEF ByPerson
  <2> QED BY <2>1 DEF Next
<1>1. PICK actor \in Sessions :
          /\ Acquire(s, role, actor)
          /\ sess' = [sess EXCEPT ![s] = [status |-> "offered", actor |-> actor, source |-> p,
                                          member |-> member[p].id, role |-> role, rev |-> Revision]]
    BY DEF Offer
<1>2. /\ sess'[s].member = member[p].id /\ sess'[s].status = "offered" /\ sess'[s].rev = Revision
      /\ \A v \in Sessions : v # s => sess'[v] = sess[v]
    BY <1>1, <1>t
<1>3. member' = member /\ turns' = turns /\ sess[s].status = "none" BY DEF Offer
<1>4. lease[s].review = 0 /\ lease[s].claim = 0 BY <1>3 DEF Whole, Dated
<1>5. \A v \in Sessions : v # s => lease'[v] = lease[v]
    BY <1>1, <1>t DEF Acquire
<1>6. SUFFICES ASSUME NEW v \in Sessions
               PROVE  /\ sess'[v].member <= turns
                      /\ sess'[v].status = "none" => lease'[v].review = 0
                      /\ lease'[v].review = 0 => lease'[v].claim = 0
                      /\ lease'[v].review # 0 => /\ reviews'[lease'[v].review].status # "none"
                                                 /\ reviews'[lease'[v].review].rev = sess'[v].rev
    BY <1>3 DEF Whole, Dated
<1>7. CASE v # s
  <2>1. ASSUME lease[v].review # 0
        PROVE  /\ reviews'[lease[v].review].status # "none"
               /\ reviews'[lease[v].review].rev = sess[v].rev
    <3>1. lease[v].review \in Deliveries BY <2>1, <1>t DEF LeaseRows, Deliveries, LeaseAssumption
    <3>2. reviews[lease[v].review].status # "none" /\ reviews[lease[v].review].rev = sess[v].rev
        BY <2>1 DEF Whole, Dated
    <3> QED BY <3>1, <3>2, <1>t, <1>n, RevisionsStay
  <2> QED BY <2>1, <1>2, <1>5, <1>7 DEF Whole, Dated
<1>8. CASE v = s
  <2>1. sess'[s].member <= turns BY <1>2 DEF Whole, Dated
  <2>2. CASE role = "producer"
    <3>1. lease' = [lease EXCEPT ![s] = [lease[s] EXCEPT !.live = TRUE]] BY <1>1, <2>2 DEF Acquire
    <3>2. lease'[s] = [lease[s] EXCEPT !.live = TRUE] /\ lease[s] \in LeaseRows BY <3>1, <1>t
    <3>3. lease'[s].review = 0 /\ lease'[s].claim = 0 BY <3>2, <1>4 DEF LeaseRows
    <3> QED BY <2>1, <3>3, <1>2, <1>8
  <2>3. CASE role = "reviewer"
    <3>1. lease' = [lease EXCEPT ![s] = [live |-> TRUE, review |-> task.review,
                                         claim |-> reviews[task.review].claim + 1]]
        BY <1>1, <2>3 DEF Acquire
    <3>2. lease'[s].review = task.review BY <3>1, <1>t
    <3>3. task.review \in Deliveries /\ reviews[task.review].status = "requested"
          /\ reviews[task.review].rev = Revision
        BY <2>3, <1>t DEF Offer, LeaseRole, Placed
    <3>4. task.review # 0 BY <3>3 DEF Deliveries, LeaseAssumption
    <3>5. reviews'[task.review].status # "none" /\ reviews'[task.review].rev = Revision
        BY <3>3, <1>t, <1>n, RevisionsStay
    <3> QED BY <2>1, <3>2, <3>4, <3>5, <1>2, <1>8
  <2> QED BY <2>2, <2>3
<1> QED BY <1>7, <1>8

LEMMA WholeStep == LeaseAssumption /\ Whole /\ [Next]_vars => Whole'
<1> SUFFICES ASSUME LeaseAssumption, Whole, [Next]_vars PROVE Whole' OBVIOUS
<1>1. Tended /\ Tended' BY TendedStep DEF Whole
<1>2. Judgement /\ Judgement' /\ Types BY <1>1 DEF Tended, Judgement
<1>3. CASE Moves
  <2>1. UNCHANGED <<member, turns>>
      BY <1>3 DEF Moves, Deliver, MarkFailed, VerdictByPerson, VerdictByWorker, Submit
  <2>2. Still BY <1>2, <1>3, StillSteps
  <2> QED BY <1>1, <1>2, <2>1, <2>2, StillStays, StayDated DEF Whole
<1>4. ASSUME NEW p \in People, NEW override \in BOOLEAN, ClaimByPerson(p, override) PROVE Whole'
  <2>1. Still BY <1>2, <1>4, StillSteps
  <2>2. UNCHANGED <<member, turns>> BY <1>4 DEF ClaimByPerson
  <2> QED BY <1>1, <1>2, <2>1, <2>2, StillStays, StayDated DEF Whole
<1>5. ASSUME NEW s \in Sessions, NEW p \in People, NEW role \in {"producer", "reviewer"}, Offer(s, p, role)
      PROVE  Whole'
    BY <1>1, <1>5, OfferDated DEF Whole
<1>6. CASE /\ ~Moves /\ \A p \in People, override \in BOOLEAN : ~ClaimByPerson(p, override)
           /\ \A s \in Sessions, p \in People, role \in {"producer", "reviewer"} : ~Offer(s, p, role)
  <2>1. SessionsStay BY <1>1, <1>6, QuietSteps
  <2> QED BY <1>1, <2>1, StayDated DEF Whole
<1> QED BY <1>3, <1>4, <1>5, <1>6

\* The judge and the barred, as the promise sees them.
JudgeSeen == IF Claimed THEN reviews[task.review].reviewer ELSE Nobody
BarredSeen ==
    IF task.state = "in_review"
    THEN {reviews[task.review].producer} \cup reviews[task.review].excluded ELSE {}

Seen == <<Stage, <<JudgeSeen, Means, Fit>>, BarredSeen>>

LEMMA SeenIsPromised == Promise!vars = Seen
BY DEF Promise!vars, Promise!claim, Seen, JudgeSeen, BarredSeen

\* What is seen when no judge holds the delivery.
LEMMA FreeSeen == ~Claimed => JudgeSeen = Nobody /\ Means = "none" /\ Fit = FALSE
BY DEF JudgeSeen, Means, Fit

\* Where the work is not judged, a claim step goes unseen.
LEMMA ElsewhereUnseen ==
    ASSUME LeaseAssumption, Tended, ClaimStep, task.state # "in_review"
    PROVE  UNCHANGED Seen
<1>t. Types BY DEF Tended, Judgement
<1>1. task'.state = task.state /\ task'.review = task.review BY DEF ClaimStep, SameWork
<1>2. ~Claimed /\ ~Claimed' BY <1>1 DEF Claimed
<1>3. task.review # 0 => reviews'[task.review].verdict = reviews[task.review].verdict
  <2>1. task.review # 0 => task.review \in Deliveries
      BY <1>t DEF Types, TaskRows, Deliveries, LeaseAssumption
  <2> QED BY <2>1, <1>t, ClaimStepRows
<1>4. Stage' = Stage BY <1>1, <1>2, <1>3 DEF Stage
<1>5. BarredSeen' = BarredSeen BY <1>1 DEF BarredSeen
<1>6. JudgeSeen' = JudgeSeen BY <1>2 DEF JudgeSeen
<1>7. Means' = Means BY <1>2 DEF Means
<1>8. Fit' = Fit BY <1>2 DEF Fit
<1> QED BY <1>4, <1>5, <1>6, <1>7, <1>8 DEF Seen

\* Whoever is fit afterwards was fit before.
LEMMA FitnessFades ==
    ASSUME LeaseAssumption, Whole, Whole', SessionsStay, SameWork,
           task.state = "in_review", reviews'[task.review] = reviews[task.review],
           reviews[task.review].status = "started", Fit'
    PROVE  Fit
<1>t. Types /\ Types' /\ Claims /\ Placed BY DEF Whole, Tended, Judgement
<1>1. PICK q \in Deliveries : q = task.review BY <1>t DEF Placed
<1>2. /\ task'.review = q /\ reviews'[q] = reviews[q] /\ reviews[q].status = "started"
      /\ reviews[q].reviewer \in Actors
    BY <1>1, <1>t DEF SameWork, Claims
<1>3. ~(lost'[reviews[q].reviewer] > reviews[q].since) BY <1>2 DEF Fit, Spoilt
<1>4. ~Spoilt(reviews[q])
  <2>1. lost'[reviews[q].reviewer] >= lost[reviews[q].reviewer] BY <1>2 DEF SessionsStay
  <2>2. /\ lost[reviews[q].reviewer] \in 0..now /\ now \in Nat
        /\ lost'[reviews[q].reviewer] \in 0..now' /\ now' \in Nat
        /\ reviews[q].since \in Nat
      BY <1>2, <1>t DEF Types, ReviewRows
  <2> QED BY <1>3, <2>1, <2>2 DEF Spoilt
<1>5. ASSUME reviews[q].byAgent
      PROVE  \E s \in Sessions : Names(s, q) /\ Live(s) /\ Sourced(s)
  <2>1. \E s \in Sessions : Names(s, q)' /\ Live(s)' /\ Sourced(s)'
      BY <1>2, <1>5 DEF Fit, Names
  <2>2. PICK s \in Sessions : Names(s, q)' /\ Live(s)' /\ Sourced(s)' BY <2>1
  <2>3. Names(s, q) /\ Live(s) BY <1>2, <2>2 DEF Names, SessionsStay
  <2>4. sess[s].source \in People /\ sess[s].member \in Nat /\ sess[s].member <= turns /\ turns \in Nat
      BY <1>t DEF Types, SessionRows, Whole, Dated
  <2>5. member'[sess[s].source] = member[sess[s].source]
    <3>1. member'[sess[s].source].id = sess[s].member BY <2>2 DEF Sourced, SessionsStay
    <3> QED BY <2>4, <3>1 DEF SessionsStay
  <2>6. Sourced(s) BY <2>2, <2>5 DEF Sourced, Can, SessionsStay
  <2> QED BY <2>3, <2>6
<1>6. Claimed BY <1>1, <1>2 DEF Claimed
<1> QED BY <1>1, <1>4, <1>5, <1>6 DEF Fit

\* A claim that stands is seen to stand, or to be spoilt; one given back is seen to be.
LEMMA QuietKeeps ==
    ASSUME LeaseAssumption, Whole, Whole', ClaimStep, SessionsStay, OnlyGivenBack
    PROVE  Promise!Next \/ UNCHANGED Seen
<1>t. Types /\ Types' /\ Placed /\ OneOpenReview BY DEF Whole, Tended, Judgement
<1>1. CASE task.state # "in_review" BY <1>1, ElsewhereUnseen DEF Whole
<1>2. CASE task.state = "in_review"
  <2>1. PICK q \in Deliveries : q = task.review BY <1>2, <1>t DEF Placed
  <2>2. /\ task'.state = "in_review" /\ task'.review = q
        /\ reviews[q] \in ReviewRows /\ reviews[q].status \in {"requested", "started"}
      BY <1>2, <1>t, <2>1 DEF ClaimStep, SameWork, OneOpenReview, Open, Types
  <2>3. CASE reviews'[q] = reviews[q]
    <3>1. Stage' = Stage /\ JudgeSeen' = JudgeSeen /\ Means' = Means /\ BarredSeen' = BarredSeen
          /\ (Claimed' <=> Claimed)
      <4>1. Claimed' <=> Claimed BY <1>2, <2>1, <2>2, <2>3 DEF Claimed
      <4>2. Stage' = Stage BY <1>2, <2>2, <4>1 DEF Stage
      <4>3. JudgeSeen' = JudgeSeen BY <2>1, <2>2, <2>3, <4>1 DEF JudgeSeen
      <4>4. Means' = Means BY <2>1, <2>2, <2>3, <4>1 DEF Means
      <4>5. BarredSeen' = BarredSeen BY <1>2, <2>1, <2>2, <2>3 DEF BarredSeen
      <4> QED BY <4>1, <4>2, <4>3, <4>4, <4>5
    <3>2. CASE reviews[q].status = "requested"
      <4>1. ~Claimed /\ ~Claimed' BY <2>1, <3>1, <3>2 DEF Claimed
      <4>2. Fit' = Fit BY <4>1 DEF Fit
      <4> QED BY <3>1, <4>2 DEF Seen
    <3>3. CASE reviews[q].status = "started"
      <4>1. Fit' => Fit BY <1>2, <2>1, <2>3, <3>3, FitnessFades DEF ClaimStep
      <4>2. Stage = "claimed" BY <1>2, <2>1, <3>3 DEF Stage, Claimed
      <4>3. Fit \in BOOLEAN /\ Fit' \in BOOLEAN BY DEF Fit, Claimed
      <4>4. CASE Fit' = Fit BY <3>1, <4>4 DEF Seen
      <4>5. CASE Fit' = FALSE
        <5>1. Promise!Lose BY <3>1, <4>2, <4>5 DEF Promise!Lose, JudgeSeen, BarredSeen
        <5> QED BY <5>1 DEF Promise!Next
      <4> QED BY <4>1, <4>3, <4>4, <4>5
    <3> QED BY <2>2, <3>2, <3>3
  <2>4. CASE GivenBack(q)
    <3>1. reviews[q].status = "started" /\ reviews'[q].status = "requested"
          /\ reviews'[q].producer = reviews[q].producer /\ reviews'[q].excluded = reviews[q].excluded
        BY <2>2, <2>4, ReturnedFields DEF GivenBack
    <3>2. Claimed /\ ~Claimed' BY <1>2, <2>1, <2>2, <3>1 DEF Claimed
    <3>3. Stage = "claimed" /\ Stage' = "waiting" BY <1>2, <2>2, <3>2 DEF Stage
    <3>4. JudgeSeen' = Nobody BY <3>2 DEF JudgeSeen
    <3>5. Means' = "none" /\ Fit' = FALSE BY <3>2 DEF Means, Fit
    <3>6. BarredSeen' = BarredSeen BY <1>2, <2>1, <2>2, <3>1 DEF BarredSeen
    <3>7. Promise!GiveBack
        BY <3>3, <3>4, <3>5, <3>6 DEF Promise!GiveBack, Promise!Free, JudgeSeen, BarredSeen
    <3> QED BY <3>7 DEF Promise!Next
  <2> QED BY <2>3, <2>4 DEF OnlyGivenBack
<1> QED BY <1>1, <1>2

\* A review taken up by somebody fit, not barred but as owner, is seen as a claim.
LEMMA TakenIsClaim ==
    ASSUME NEW q \in Deliveries, NEW actor \in Actors,
           task.state = "in_review", task.review = q, task'.state = "in_review", task'.review = q,
           reviews[q].status = "requested", reviews'[q].status = "started", reviews'[q].reviewer = actor,
           reviews'[q].producer = reviews[q].producer, reviews'[q].excluded = reviews[q].excluded,
           \/ reviews'[q].byAgent /\ ~Excluded(reviews[q], actor)
           \/ ~reviews'[q].byAgent /\ (reviews'[q].override \/ ~Excluded(reviews[q], actor)),
           Fit'
    PROVE  Promise!Next
<1>1. ~Claimed /\ Claimed' BY DEF Claimed
<1>2. Stage = "waiting" /\ Stage' = "claimed" BY <1>1 DEF Stage
<1>3. JudgeSeen' = actor BY <1>1 DEF JudgeSeen
<1>4. BarredSeen = {reviews[q].producer} \cup reviews[q].excluded /\ BarredSeen' = BarredSeen
    BY DEF BarredSeen
<1>5. Means' \in {"lease", "hand", "owner"} /\ (actor \in BarredSeen => Means' = "owner")
    BY <1>1, <1>4 DEF Means, Excluded
<1>6. Fit' = TRUE BY DEF Fit
<1>7. Promise!Claim BY <1>2, <1>3, <1>4, <1>5, <1>6 DEF Promise!Claim, JudgeSeen, BarredSeen
<1> QED BY <1>7 DEF Promise!Next

LEMMA OfferKeeps ==
    ASSUME LeaseAssumption, Whole, Whole', NEW s \in Sessions, NEW p \in People,
           NEW role \in {"producer", "reviewer"}, Offer(s, p, role)
    PROVE  Promise!Next \/ UNCHANGED Seen
<1>t. Types /\ Types' /\ Placed BY DEF Whole, Tended, Judgement
<1>n. [Next]_vars
  <2>1. ByPerson(p) BY DEF ByPerson
  <2> QED BY <2>1 DEF Next
<1>1. CASE role = "producer"
  <2>1. task.state = "in_progress" BY <1>1 DEF Offer, LeaseRole
  <2>2. ~Moves
    <3>1. UNCHANGED movers BY DEF Offer, work
    <3>2. movers \in Seq(Actors) BY <1>t DEF Types
    <3>3. \A a : Append(movers, a) # movers
      <4>1. \A a : Len(Append(movers, a)) = Len(movers) + 1 /\ Len(movers) \in Nat BY <3>2
      <4> QED BY <4>1
    <3> QED BY <3>1, <3>3 DEF Moves, Deliver, MarkFailed, VerdictByPerson, VerdictByWorker, Submit
  <2>3. ClaimStep BY <1>n, <1>t, <2>2, Steps
  <2> QED BY <2>1, <2>3, ElsewhereUnseen DEF Whole
<1>2. CASE role = "reviewer"
  <2>1. PICK actor \in Sessions :
            /\ Acquire(s, role, actor)
            /\ sess' = [sess EXCEPT ![s] = [status |-> "offered", actor |-> actor, source |-> p,
                                            member |-> member[p].id, role |-> role, rev |-> Revision]]
      BY DEF Offer
  <2>2. PICK q \in Deliveries : q = task.review BY <1>2, <1>t DEF Offer, LeaseRole, Placed
  <2>3. task.state = "in_review" /\ task' = task /\ reviews[q].status = "requested"
        /\ Can(p, "review") /\ member' = member
      BY <1>2, <2>2 DEF Offer, LeaseRole, work
  <2>4. /\ ~Excluded(reviews[q], actor)
        /\ reviews' = [reviews EXCEPT ![q] = Started(reviews[q], actor, now', TRUE, FALSE)]
        /\ lease' = [lease EXCEPT ![s] = [live |-> TRUE, review |-> q, claim |-> reviews[q].claim + 1]]
      BY <1>2, <2>1, <2>2 DEF Acquire
  <2>5. reviews'[q] = Started(reviews[q], actor, now', TRUE, FALSE) /\ reviews[q] \in ReviewRows
      BY <2>4, <1>t DEF Types
  <2>6. /\ reviews'[q].status = "started" /\ reviews'[q].reviewer = actor
        /\ reviews'[q].claim = reviews[q].claim + 1 /\ reviews'[q].since = now' /\ reviews'[q].byAgent
        /\ reviews'[q].producer = reviews[q].producer /\ reviews'[q].excluded = reviews[q].excluded
      BY <2>5 DEF Started, ReviewRows
  <2>7. /\ lease'[s].live /\ lease'[s].review = q /\ lease'[s].claim = reviews[q].claim + 1
        /\ sess'[s].actor = actor /\ sess'[s].status = "offered" /\ sess'[s].source = p
        /\ sess'[s].member = member[p].id /\ sess'[s].role = "reviewer"
    <3>1. lease'[s] = [live |-> TRUE, review |-> q, claim |-> reviews[q].claim + 1] BY <2>4, <1>t DEF Types
    <3>2. sess'[s] = [status |-> "offered", actor |-> actor, source |-> p,
                      member |-> member[p].id, role |-> role, rev |-> Revision]
        BY <2>1, <1>t DEF Types
    <3> QED BY <3>1, <3>2, <1>2
  <2>8. Fit'
    <3>1. Claimed' BY <2>2, <2>3, <2>6 DEF Claimed
    <3>2. ~(lost'[actor] > reviews'[q].since)
      <4>1. lost'[actor] \in 0..now' /\ now' \in Nat BY <1>t DEF Types, Actors
      <4> QED BY <4>1, <2>6
    <3>3. Names(s, q)' /\ Live(s)' BY <2>6, <2>7 DEF Names, Live
    <3>4. Sourced(s)' BY <2>3, <2>7 DEF Sourced, Can, Needs
    <3>5. ~Spoilt(reviews[task.review])' BY <2>2, <2>3, <2>6, <3>2 DEF Spoilt
    <3>6. Names(s, task.review)' BY <2>2, <2>3, <3>3 DEF Names
    <3> QED BY <3>1, <3>3, <3>4, <3>5, <3>6 DEF Fit
  <2>9. actor \in Actors BY DEF Actors
  <2> QED BY <2>2, <2>3, <2>4, <2>6, <2>8, <2>9, TakenIsClaim
<1> QED BY <1>1, <1>2

LEMMA ClaimKeeps ==
    ASSUME LeaseAssumption, Whole, Whole', NEW p \in People, NEW override \in BOOLEAN,
           ClaimByPerson(p, override)
    PROVE  Promise!Next \/ UNCHANGED Seen
<1>t. Types /\ Types' /\ Placed /\ OneOpenReview BY DEF Whole, Tended, Judgement
<1>1. PICK q \in Deliveries : q = task.review
    BY <1>t DEF ClaimByPerson, Open, Types, TaskRows, Deliveries, LeaseAssumption
<1>2. /\ Open(q) /\ task.state = "in_review" /\ task' = task /\ now' = now /\ lost' = lost
      /\ reviews[q].status = "requested"
      /\ Independent(p, [reviews[q] EXCEPT !.override = override])
      /\ reviews' = [reviews EXCEPT ![q] = Started(reviews[q], p, now, FALSE, override)]
    BY <1>1, <1>t DEF ClaimByPerson, OneOpenReview, work, log
<1>3. reviews'[q] = Started(reviews[q], p, now, FALSE, override) /\ reviews[q] \in ReviewRows
    BY <1>2, <1>t DEF Types
<1>4. /\ reviews'[q].status = "started" /\ reviews'[q].reviewer = p /\ reviews'[q].since = now
      /\ ~reviews'[q].byAgent /\ reviews'[q].override = override
      /\ reviews'[q].producer = reviews[q].producer /\ reviews'[q].excluded = reviews[q].excluded
    BY <1>3 DEF Started, ReviewRows
<1>5. override \/ ~Excluded(reviews[q], p)
  <2>1. /\ [reviews[q] EXCEPT !.override = override].override = override
        /\ [reviews[q] EXCEPT !.override = override].producer = reviews[q].producer
        /\ [reviews[q] EXCEPT !.override = override].excluded = reviews[q].excluded
      BY <1>3 DEF ReviewRows
  <2> QED BY <1>2, <2>1 DEF Independent, Excluded
<1>6. p \in Actors BY DEF Actors
<1>7. Fit'
  <2>1. Claimed' BY <1>1, <1>2, <1>4 DEF Claimed
  <2>2. ~(lost'[p] > reviews'[q].since)
    <3>1. lost[p] \in 0..now /\ now \in Nat BY <1>6, <1>t DEF Types
    <3>2. lost'[p] = lost[p] /\ reviews'[q].since = now BY <1>2, <1>4
    <3> QED BY <3>1, <3>2
  <2>3. ~Spoilt(reviews[task.review])' BY <1>1, <1>2, <1>4, <2>2 DEF Spoilt
  <2>4. ~reviews'[task'.review].byAgent BY <1>1, <1>2, <1>4
  <2> QED BY <2>1, <2>3, <2>4 DEF Fit
<1> QED BY <1>1, <1>2, <1>4, <1>5, <1>6, <1>7, TakenIsClaim

LEMMA DeliverKeeps ==
    ASSUME LeaseAssumption, Whole, Whole', NEW s \in Sessions, Deliver(s)
    PROVE  Promise!Next
<1>t. Types /\ Types' /\ Placed BY DEF Whole, Tended, Judgement
<1>1. PICK q \in Deliveries :
          /\ reviews' = [reviews EXCEPT ![q] = Requested(Revision + 1, sess[s].actor, sess[s].source)]
          /\ task' = [task EXCEPT !.state = "in_review", !.review = q]
    BY DEF Deliver
<1>2. task.state = "in_progress" /\ task'.state = "in_review" /\ task'.review = q
    BY <1>1, <1>t DEF Deliver, Types, TaskRows
<1>3. /\ reviews'[q].status = "requested" /\ reviews'[q].producer = sess[s].actor
      /\ reviews'[q].excluded = {Owner, sess[s].source}
    BY <1>1, <1>t DEF Requested, NoReview, Types
<1>4. ~Claimed /\ ~Claimed' BY <1>2, <1>3 DEF Claimed
<1>5. Stage = "working" /\ Stage' = "waiting" BY <1>2, <1>4 DEF Stage
<1>6. JudgeSeen' = JudgeSeen /\ Means' = Means /\ Fit' = Fit BY <1>4 DEF JudgeSeen, Means, Fit
<1>7. BarredSeen' \in SUBSET Actors
  <2>1. sess[s].actor \in Actors /\ sess[s].source \in Actors /\ Owner \in Actors
      BY <1>t DEF Deliver, Holds, Placed, Actors, Types, SessionRows, LeaseAssumption
  <2> QED BY <2>1, <1>2, <1>3 DEF BarredSeen
<1>8. Promise!Deliver BY <1>5, <1>6, <1>7 DEF Promise!Deliver, Promise!claim, JudgeSeen, BarredSeen
<1> QED BY <1>8 DEF Promise!Next

LEMMA FailKeeps ==
    ASSUME LeaseAssumption, Whole, Whole', NEW actor \in Actors, MarkFailed(actor)
    PROVE  Promise!Next
<1>t. Types /\ Types' /\ Placed /\ Decided /\ Judgement BY DEF Whole, Tended, Judgement
<1>1. task'.state = "failed" /\ task'.review = task.review /\ task.state \in {"in_progress", "in_review"}
    BY <1>t DEF MarkFailed, Types, TaskRows
<1>2. task.review # 0 => reviews'[task.review].verdict # "fail"
  <2>1. SUFFICES ASSUME task.review # 0 PROVE reviews'[task.review].verdict # "fail" OBVIOUS
  <2>2. task.review \in Deliveries BY <2>1, <1>t DEF Types, TaskRows, Deliveries, LeaseAssumption
  <2>3. \/ reviews'[task.review] = reviews[task.review]
        \/ reviews'[task.review] = [reviews[task.review] EXCEPT !.status = "superseded"]
      BY <2>2 DEF MarkFailed, Supersede
  <2>4. reviews[task.review] \in ReviewRows BY <2>2, <1>t DEF Types
  <2>5. reviews'[task.review].verdict = reviews[task.review].verdict BY <2>3, <2>4 DEF ReviewRows
  <2>6. reviews[task.review].verdict # "fail" BY <1>1, <1>t, <2>1 DEF Decided
  <2> QED BY <2>5, <2>6
<1>3. Stage \in {"working", "waiting", "claimed"} BY <1>1 DEF Stage
<1>4. Stage' = "ended" BY <1>1, <1>2 DEF Stage
<1>5. ~Claimed' BY <1>1 DEF Claimed
<1>6. JudgeSeen' = Nobody /\ Means' = "none" /\ Fit' = FALSE BY <1>5 DEF JudgeSeen, Means, Fit
<1>7. BarredSeen' = {} BY <1>1 DEF BarredSeen
<1>8. Promise!Withdraw
    BY <1>3, <1>4, <1>6, <1>7 DEF Promise!Withdraw, Promise!Free, JudgeSeen, BarredSeen
<1> QED BY <1>8 DEF Promise!Next

\* A verdict is given by a fit judge; acceptance, by one a lease placed or by the owner.
LEMMA SubmitKeeps ==
    ASSUME LeaseAssumption, Whole, Whole', NEW actor, NEW claim, NEW verdict \in Verdicts,
           HoldsClaim(actor, claim), Submit(actor, verdict), Fit, verdict = "pass" => Means # "hand"
    PROVE  Promise!Next
<1>t. Types /\ Types' /\ Placed BY DEF Whole, Tended, Judgement
<1>1. PICK q \in Deliveries : q = task.review BY <1>t DEF HoldsClaim, Placed
<1>2. Claimed /\ Stage = "claimed" BY DEF HoldsClaim, Claimed, Stage
<1>3. /\ task'.review = q /\ task'.state \in {"done", "failed", "in_progress"}
      /\ task'.state = "done" <=> verdict = "pass"
      /\ task'.state = "failed" <=> verdict = "fail"
      /\ reviews'[q].verdict = verdict
    BY <1>1, <1>t, SubmitRows
<1>4. q # 0 BY DEF Deliveries, LeaseAssumption
<1>5. ~Claimed' BY <1>3 DEF Claimed
<1>6. Stage' \in {"working", "rejected", "passed"} /\ (Stage' = "passed" => verdict = "pass")
    BY <1>3, <1>4 DEF Stage
<1>7. JudgeSeen' = Nobody /\ Means' = "none" /\ Fit' = FALSE BY <1>5 DEF JudgeSeen, Means, Fit
<1>8. BarredSeen' = {} BY <1>3 DEF BarredSeen
<1>9. Promise!Judge
    BY <1>2, <1>6, <1>7, <1>8 DEF Promise!Judge, Promise!Free, JudgeSeen, BarredSeen
<1> QED BY <1>9 DEF Promise!Next

LEMMA VerdictsKeep ==
    ASSUME LeaseAssumption, Whole, Whole', NEW verdict \in Verdicts,
           \/ \E p \in People : VerdictByPerson(p, verdict)
           \/ \E s \in Sessions : VerdictByWorker(s, verdict)
    PROVE  Promise!Next
<1>t. Types /\ Types' /\ Placed /\ Claims /\ Numbered BY DEF Whole, Tended, Judgement
<1>1. ASSUME NEW p \in People, VerdictByPerson(p, verdict) PROVE Promise!Next
  <2>1. /\ HoldsClaim(p, reviews[task.review].claim) /\ Submit(p, verdict)
        /\ verdict = "pass" => reviews[task.review].override
      BY <1>1 DEF VerdictByPerson, CheckoutReviewer
  <2>2. PICK q \in Deliveries : q = task.review BY <1>t, <2>1 DEF HoldsClaim, Placed
  <2>3. ~reviews[q].byAgent
    <3>1. reviews[q].reviewer = p /\ reviews[q].status = "started" BY <2>1, <2>2 DEF HoldsClaim
    <3>2. p \notin Sessions BY DEF LeaseAssumption
    <3> QED BY <3>1, <3>2, <1>t DEF Claims
  <2>4. Fit BY <2>1, <2>2, <2>3 DEF Fit, HoldsClaim, Claimed, Spoilt, PermissionLost
  <2>5. verdict = "pass" => Means # "hand" BY <2>1, <2>2, <2>3 DEF Means
  <2> QED BY <2>1, <2>4, <2>5, SubmitKeeps
<1>2. ASSUME NEW s \in Sessions, VerdictByWorker(s, verdict) PROVE Promise!Next
  <2>1. Holds(s) /\ HoldsClaim(sess[s].actor, lease[s].claim) /\ Submit(sess[s].actor, verdict)
      BY <1>2 DEF VerdictByWorker
  <2>2. PICK q \in Deliveries : q = task.review BY <1>t, <2>1 DEF HoldsClaim, Placed
  <2>3. /\ reviews[q].status = "started" /\ reviews[q].reviewer = sess[s].actor
        /\ reviews[q].claim = lease[s].claim /\ reviews[q].rev = Revision /\ sess[s].rev = Revision
        /\ lease[s].live
      BY <2>1, <2>2 DEF HoldsClaim, Holds
  <2>4. reviews[q].byAgent
    <3>1. sess[s].actor \in Sessions BY <2>1, <1>t DEF Holds, Placed
    <3> QED BY <3>1, <2>3, <1>t DEF Claims
\* The lease's claim is no empty one, so it names a review: that of its revision.
  <2>5. lease[s].review = q
    <3>1. lease[s].claim >= 1 BY <2>3, <1>t DEF Claims
    <3>2. lease[s].review # 0 BY <3>1 DEF Whole, Dated
    <3>3. lease[s].review \in Deliveries
        BY <3>2, <1>t DEF Types, LeaseRows, Deliveries, LeaseAssumption
    <3>4. reviews[lease[s].review].status # "none" /\ reviews[lease[s].review].rev = sess[s].rev
        BY <3>2 DEF Whole, Dated
    <3> QED BY <2>3, <3>3, <3>4, <1>t DEF Numbered
  <2>6. Names(s, q) /\ Live(s) /\ Sourced(s) BY <2>1, <2>3, <2>5 DEF Names, Holds, Live
  <2>7. Fit BY <2>1, <2>2, <2>6 DEF Fit, HoldsClaim, Claimed, Spoilt, PermissionLost
  <2>8. Means # "hand" BY <2>2, <2>4 DEF Means
  <2> QED BY <2>1, <2>7, <2>8, SubmitKeeps
<1> QED BY <1>1, <1>2

LEMMA PromiseStep == LeaseAssumption /\ Whole /\ Whole' /\ [Next]_vars => [Promise!Next]_(Promise!vars)
<1> SUFFICES ASSUME LeaseAssumption, Whole, Whole', [Next]_vars PROVE Promise!Next \/ UNCHANGED Seen
    BY DEF Promise!vars, Promise!claim, Seen, JudgeSeen, BarredSeen
<1>t. Tended /\ Tended' /\ Types /\ Placed BY DEF Whole, Tended, Judgement
<1>1. CASE Moves
  <2>1. ASSUME NEW p \in People, NEW verdict \in Verdicts, VerdictByPerson(p, verdict) PROVE Promise!Next
      BY <2>1, VerdictsKeep
  <2>2. ASSUME NEW s \in Sessions, NEW verdict \in Verdicts, VerdictByWorker(s, verdict) PROVE Promise!Next
      BY <2>2, VerdictsKeep
  <2> QED BY <1>1, <2>1, <2>2, DeliverKeeps, FailKeeps DEF Moves
<1>2. CASE \E s \in Sessions, p \in People, role \in {"producer", "reviewer"} : Offer(s, p, role)
    BY <1>2, OfferKeeps
<1>3. CASE \E p \in People, override \in BOOLEAN : ClaimByPerson(p, override) BY <1>3, ClaimKeeps
<1>4. CASE /\ ~Moves /\ \A p \in People, override \in BOOLEAN : ~ClaimByPerson(p, override)
           /\ \A s \in Sessions, p \in People, role \in {"producer", "reviewer"} : ~Offer(s, p, role)
  <2>1. SessionsStay /\ OnlyGivenBack BY <1>t, <1>4, QuietSteps
  <2>2. ClaimStep BY <1>t, <1>4, Steps
  <2> QED BY <2>1, <2>2, QuietKeeps
<1> QED BY <1>1, <1>2, <1>3, <1>4

\* Whatever is offered, claimed, lost and recovered, each delivery is judged at most once, by somebody
\* fit who had no hand in it, and accepted only from a lease or by the owner.
THEOREM WorkLeasesKeepPromise == Spec => KeepsPromise
<1>1. Init => Whole BY LeaseAssumption, TendedInit, DatedInit DEF Whole
<1>2. Whole /\ [Next]_vars => Whole' BY LeaseAssumption, WholeStep
<1>3. Init => Promise!Init
    BY DEF Init, Promise!Init, Promise!Free, Stage, Means, Fit, Claimed
<1>4. Whole /\ Whole' /\ [Next]_vars => [Promise!Next]_(Promise!vars) BY LeaseAssumption, PromiseStep
<1> QED BY <1>1, <1>2, <1>3, <1>4, PTL DEF Spec, KeepsPromise, Promise!Spec
=============================================================================

------------------------- MODULE CodeWritersProofs -------------------------
(***************************************************************************)
(* Proofs about CodeWriters, for any number of sessions, commits, crashes  *)
(* and killed processes: the record and Git agree once no push is open,    *)
(* what was sealed stays, and CodeWriters implements BranchPromise.        *)
(***************************************************************************)
EXTENDS CodeWriters, TLAPS

-----------------------------------------------------------------------------
(* The inductive invariant.                                                *)

Types == TypeOK /\ ref[Branch] \in Commits

\* An approved submission whose commit Code has not on record yet.
Pending(s) == sub[s].verdict = "pass" /\ ~sub[s].retained

\* A session's checkout and submission: what was handed over is frozen only with the machine
\* stopped, at its head, and whatever is not decided is of the current generation.
SessionFits(s) ==
    /\ sess[s] = "none" <=> s > unit.gen
    /\ sess[s] = "none" => ~machine[s].stopped /\ ~sub[s].asked
    /\ machine[s].head[1] <= s
    /\ machine[s].head[1] = s => machine[s].head[2] <= MaxCommits
    /\ machine[s].ended => machine[s].stopped /\ ~sub[s].asked
    /\ ~sub[s].asked => ~Frozen(s) /\ sub[s].verdict = "none"
    /\ Frozen(s) => machine[s].stopped /\ sub[s].parent = machine[s].head
    /\ sub[s].verdict = "pass" => Frozen(s)
    /\ sub[s].retained => sub[s].verdict = "pass"
    /\ sub[s].asked /\ sub[s].verdict = "none" => s = unit.gen
    /\ Pending(s) => s = unit.gen

\* The refs of a submission name its frozen head and the commit it was approved as; a capture
\* is approved only where the branch is there already.
RefsFit(s) ==
    /\ ref[Submission(s)] # None => machine[s].stopped /\ ref[Submission(s)] = machine[s].head
    /\ ref[Approval(s)] # None =>
        /\ sub[s].verdict = "pass" /\ ref[Approval(s)] \in {Candidate(s), CaptureOf(s)}
        /\ s = unit.gen /\ ref[Approval(s)] = CaptureOf(s) => ref[Branch] = CaptureOf(s)

\* A tree left where its writer ended or its submission froze, which its head has not.
Leftover(s) == machine[s].ended \/ (Frozen(s) /\ sub[s].dirty)

\* The branch is where its current writer left it, no further than that writer's commits, or at
\* the one commit made of what it left.
Reached(s) ==
    /\ ref[Branch][1] = s => machine[s].head[1] = s /\ ref[Branch][2] <= machine[s].head[2]
    /\ machine[s].head[1] # s => ref[Branch] = machine[s].head

BranchFits ==
    /\ ref[Branch][1] <= unit.gen
    /\ \A s \in Sessions : s = unit.gen =>
        \/ Reached(s)
        \/ ref[Branch] = ApprovalOf(s) /\ sub[s].verdict = "pass" /\ sub[s].dirty
        \/ ref[Branch] = CaptureOf(s) /\ Leftover(s)

\* Of a push of the branch by the worker or its machine: nothing is sealed; by the machine's
\* shutdown or an approval: the branch is at what was, and goes to the commit made of the rest.
Ahead(p) ==
    LET s == p.session IN
    IF p.by = "approval"
    THEN p.next = ApprovalOf(s) /\ p.old = machine[s].head /\ sub[s].dirty
    ELSE IF p.by = "shutdown"
    THEN p.next = CaptureOf(s) /\ p.old = machine[s].head /\ Leftover(s) /\ ~sub[s].retained
    ELSE /\ machine[s].head[1] = s /\ p.next[2] <= machine[s].head[2]
         /\ ~Frozen(s) /\ ~machine[s].ended

\* It takes the branch from the commit on record to a later one of the current writer's.
Extends(p) ==
    /\ unit.head = p.old
    /\ p.next[1] = p.session
    /\ p.old[1] = p.session => p.next[2] > p.old[2]
    /\ Ahead(p)

\* Of any push: whose it is, which refs it has, and that each is where it was or where it goes.
PushFits(p) ==
    /\ p.status = "prepared" /\ p.session = unit.gen
    /\ IF p.by = "approval"
       THEN /\ Pending(p.session) /\ p.next \in {Candidate(p.session), CaptureOf(p.session)}
            /\ p.next = CaptureOf(p.session) => ref[Branch] = CaptureOf(p.session)
            /\ p.refs \subseteq {Branch, Approval(p.session)}
       ELSE p.refs \subseteq {Branch, Submission(p.session)}
    /\ Submission(p.session) \in p.refs => machine[p.session].stopped /\ p.next = machine[p.session].head
    /\ Branch \in p.refs => Extends(p)
    /\ \A r \in p.refs : ref[r] \in {Old(p, r), p.next}

\* One push at a time, and lock files only of its refs.
PushesFit ==
    /\ \A p, q \in pushes : p = q
    /\ \A p \in pushes : PushFits(p)
    /\ \A r \in locks : \E p \in pushes : r \in p.refs

\* Where the record is behind the branch, a push or an approval is about to tell it.
Behind ==
    ref[Branch] # unit.head =>
        \/ \E s \in Sessions : s = unit.gen /\ Pending(s) /\ ref[Branch] = Candidate(s)
        \/ \E p \in pushes : p.by # "approval" /\ Branch \in p.refs /\ ref[Branch] = p.next

Fits ==
    /\ Types
    /\ \A s \in Sessions : SessionFits(s) /\ RefsFit(s)
    /\ BranchFits /\ PushesFit /\ Behind /\ SealsStand
-----------------------------------------------------------------------------
(* Commits, refs and types.                                                *)

\* A commit is a pair, and its session and its place there name it.
LEMMA CommitFacts ==
    /\ \A c \in Commits : c[1] \in 0..MaxSessions /\ c[2] \in Nat /\ c # None
    /\ \A c, d \in Commits : c[1] = d[1] /\ c[2] = d[2] => c = d
    /\ Base \in Commits
    /\ \A s \in Sessions, n \in 1..MaxCommits : <<s, n>> \in Commits
    /\ \A s \in Sessions : ApprovalOf(s) \in Commits /\ CaptureOf(s) \in Commits
BY WritersAssumption DEF Commits, Base, None, Sessions, ApprovalOf, CaptureOf

\* What is made of a tree that was left is neither its head nor what else is made of it.
LEMMA MadeOfLeftover ==
    ASSUME NEW s \in Sessions, SessionFits(s)
    PROVE  /\ machine[s].head # ApprovalOf(s) /\ machine[s].head # CaptureOf(s)
           /\ ApprovalOf(s) # CaptureOf(s)
           /\ ApprovalOf(s)[1] = s /\ ApprovalOf(s)[2] = MaxCommits + 1
           /\ CaptureOf(s)[1] = s /\ CaptureOf(s)[2] = MaxCommits + 2
           /\ Frozen(s) => Candidate(s) # CaptureOf(s)
BY WritersAssumption DEF SessionFits, ApprovalOf, CaptureOf, Candidate

\* The refs of the unit are different ones.
LEMMA RefFacts ==
    /\ Branch \in Refs
    /\ \A s \in Sessions : /\ Submission(s) \in Refs /\ Approval(s) \in Refs
                           /\ Submission(s) # Branch /\ Approval(s) # Branch
    /\ \A s, t \in Sessions : /\ Submission(s) # Approval(t)
                              /\ Submission(s) = Submission(t) => s = t
                              /\ Approval(s) = Approval(t) => s = t
BY DEF Refs, Branch, Submission, Approval

\* What an approval commits is a commit.
LEMMA ApprovedType ==
    ASSUME Types, NEW s \in Sessions, Frozen(s)
    PROVE  Approved(s) \in Commits
<1>1. ref[Approval(s)] \in Commits \cup {None} /\ ref[Branch] \in Commits BY RefFacts DEF Types, TypeOK
<1>2. Candidate(s) \in Commits BY CommitFacts DEF Types, TypeOK, Frozen, Candidate
<1> QED BY <1>1, <1>2 DEF Approved

UnitRows ==
    [gen : 0..MaxSessions, state : {"idle", "reserved", "active", "closing", "closed"},
     head : Commits, late : BOOLEAN]

\* Moving the state leaves a unit with the same generation and head.
LEMMA UnitTypes ==
    ASSUME unit \in UnitRows
    PROVE  /\ \A to \in {"reserved", "active", "closing", "closed"} :
                 Moved(to) \in UnitRows /\ Moved(to).gen = unit.gen /\ Moved(to).head = unit.head
                 /\ Moved(to).state = to
           /\ SettledWriter \in UnitRows /\ SettledWriter.gen = unit.gen /\ SettledWriter.head = unit.head
           /\ SettledWriter.state = "closed"
           /\ \A p : /\ Opened(p) \in UnitRows /\ Opened(p).gen = unit.gen /\ Opened(p).head = unit.head
                     /\ unit.state = "closed" => Opened(p).state = "closed"
           /\ \A e : /\ Changed(e) \in UnitRows /\ Changed(e).gen = unit.gen
                     /\ Changed(e).head = unit.head
                     /\ unit.state = "closed" => Changed(e).state = "closed"
<1>1. \A to \in {"reserved", "active", "closing", "closed"} :
         Moved(to) \in UnitRows /\ Moved(to).gen = unit.gen /\ Moved(to).head = unit.head /\ Moved(to).state = to
    BY DEF Moved, UnitRows
<1> QED BY <1>1 DEF SettledWriter, Opened, Changed

MachineRows == [Sessions -> [head : Commits, stopped : BOOLEAN, ended : BOOLEAN]]
SubmissionRows ==
    [Sessions -> [asked : BOOLEAN, parent : Commits \cup {None}, dirty : BOOLEAN,
                  verdict : {"none", "pass", "fail"}, retained : BOOLEAN, captured : BOOLEAN]]

\* What is done to a checkout or a submission leaves one.
LEMMA RowTypes ==
    /\ \A m \in MachineRows, s \in Sessions :
        /\ \A c \in Commits : [m EXCEPT ![s].head = c] \in MachineRows
        /\ [m EXCEPT ![s].stopped = TRUE] \in MachineRows
        /\ [m EXCEPT ![s].ended = TRUE] \in MachineRows
    /\ \A m \in SubmissionRows, s \in Sessions :
        /\ \A dirty \in BOOLEAN : [m EXCEPT ![s].asked = TRUE, ![s].dirty = dirty] \in SubmissionRows
        /\ \A c \in Commits : [m EXCEPT ![s].parent = c] \in SubmissionRows
        /\ \A v \in {"pass", "fail"} : [m EXCEPT ![s].verdict = v] \in SubmissionRows
        /\ [m EXCEPT ![s].retained = TRUE] \in SubmissionRows
        /\ [m EXCEPT ![s].captured = TRUE] \in SubmissionRows
<1>1. ASSUME NEW m \in MachineRows, NEW s \in Sessions
      PROVE  /\ \A c \in Commits : [m EXCEPT ![s].head = c] \in MachineRows
             /\ [m EXCEPT ![s].stopped = TRUE] \in MachineRows
             /\ [m EXCEPT ![s].ended = TRUE] \in MachineRows
    BY DEF MachineRows
<1>2. ASSUME NEW m \in SubmissionRows, NEW s \in Sessions
      PROVE  /\ \A dirty \in BOOLEAN : [m EXCEPT ![s].asked = TRUE, ![s].dirty = dirty] \in SubmissionRows
             /\ \A c \in Commits : [m EXCEPT ![s].parent = c] \in SubmissionRows
             /\ \A v \in {"pass", "fail"} : [m EXCEPT ![s].verdict = v] \in SubmissionRows
             /\ [m EXCEPT ![s].retained = TRUE] \in SubmissionRows
             /\ [m EXCEPT ![s].captured = TRUE] \in SubmissionRows
  <2>1. \A dirty \in BOOLEAN : [m EXCEPT ![s].asked = TRUE, ![s].dirty = dirty] \in SubmissionRows
      BY DEF SubmissionRows
  <2>2. \A c \in Commits : [m EXCEPT ![s].parent = c] \in SubmissionRows BY DEF SubmissionRows
  <2>3. \A v \in {"pass", "fail"} : [m EXCEPT ![s].verdict = v] \in SubmissionRows BY DEF SubmissionRows
  <2>4. [m EXCEPT ![s].retained = TRUE] \in SubmissionRows BY DEF SubmissionRows
  <2>5. [m EXCEPT ![s].captured = TRUE] \in SubmissionRows BY DEF SubmissionRows
  <2> QED BY <2>1, <2>2, <2>3, <2>4, <2>5
<1> QED BY <1>1, <1>2

\* Every step keeps the types.
LEMMA TypesStep ==
    ASSUME Fits, Next
    PROVE  Types'
<1> USE DEF Types, TypeOK
<1>u. unit \in UnitRows BY DEF Fits, UnitRows
<1>m. machine \in MachineRows /\ sub \in SubmissionRows BY DEF Fits, MachineRows, SubmissionRows
<1>0. ASSUME NEW s \in Sessions, Offer(s) PROVE Types'
  <2>1. Moved("reserved") \in UnitRows BY <1>u, UnitTypes
  <2>2. unit' \in UnitRows BY <1>0, <2>1 DEF Offer, UnitRows, Sessions
  <2>3. machine' \in MachineRows BY <1>0, <1>u, <1>m, RowTypes DEF Offer, UnitRows
  <2>4. sess' \in [Sessions -> {"none", "offered", "attached", "closed"}] BY <1>0 DEF Offer, Fits
  <2> QED BY <1>0, <2>2, <2>3, <2>4 DEF Offer, Fits, UnitRows, MachineRows, git, server
<1>1. ASSUME NEW s \in Sessions, Attach(s) \/ Work(s) \/ Stop(s) PROVE Types'
  <2>1. CASE Attach(s) BY <2>1 DEF Attach, Fits, git, server
  <2>2. CASE Work(s)
    <3>1. machine[s].head \in Commits BY DEF Fits
    <3>2. PICK n \in Nat : n < MaxCommits /\ machine' = [machine EXCEPT ![s].head = <<s, n + 1>>]
        BY <2>2, <3>1, CommitFacts DEF Work
    <3>3. <<s, n + 1>> \in Commits BY <3>2, CommitFacts, WritersAssumption
    <3>4. machine' \in MachineRows BY <3>2, <3>3, <1>m, RowTypes
    <3> QED BY <2>2, <3>4 DEF Work, MachineRows, Fits, git, server
  <2>3. CASE Stop(s) BY <2>3 DEF Stop, Fits, git, server
  <2> QED BY <1>1, <2>1, <2>2, <2>3
<1>2. ASSUME NEW s \in Sessions, EndWriter(s) \/ Freeze(s) PROVE Types'
  <2>1. SettledWriter \in UnitRows BY <1>u, UnitTypes
  <2>2. CASE EndWriter(s)
    <3>1. machine' \in MachineRows BY <2>2, <1>m, RowTypes DEF EndWriter
    <3> QED BY <2>1, <2>2, <3>1 DEF EndWriter, MachineRows, Fits, UnitRows, git, server
  <2>3. CASE Freeze(s) BY <2>1, <2>3 DEF Freeze, Fits, UnitRows, hosting, git, server
  <2> QED BY <1>2, <2>2, <2>3
<1>3. ASSUME NEW s \in Sessions, Materialize(s) \/ Retain(s) PROVE Types'
  <2>1. Frozen(s) BY <1>3 DEF Fits, SessionFits, Materialize, Retain
  <2>2. Approved(s) \in Commits BY <2>1, ApprovedType DEF Fits
  <2>3. CASE Materialize(s)
    <3>1. Unwritten(s) \subseteq Refs BY RefFacts DEF Unwritten
    <3>2. [by |-> "approval", session |-> s, refs |-> Unwritten(s), next |-> Approved(s),
           old |-> ref[Branch], git |-> "admitted", served |-> TRUE, status |-> "prepared"] \in PushRecord
        BY <2>2, <3>1 DEF PushRecord, Fits
    <3>3. pushes' \subseteq PushRecord BY <2>3, <3>2 DEF Materialize, Fits
    <3> QED BY <2>3, <3>3 DEF Materialize, Fits, hosting, git, server
  <2>4. CASE Retain(s) BY <2>2, <2>4 DEF Retain, Fits, hosting, git, server
  <2> QED BY <1>3, <2>3, <2>4
<1>4. ASSUME NEW s \in Sessions, NEW own \in BOOLEAN, CloseSession(s, own) PROVE Types'
  <2>1. [type |-> "closed", session |-> s, own |-> own]
          \in [type : {"attached", "closed"}, session : Sessions, own : BOOLEAN]
    OBVIOUS
  <2> QED BY <1>4, <2>1 DEF CloseSession, Fits, git, server
<1>5. ASSUME NEW s \in Sessions, NEW dirty \in BOOLEAN, Submit(s, dirty) PROVE Types'
  <2>1. unit' \in UnitRows BY <1>5, <1>u, UnitTypes DEF Submit
  <2>3. sub' \in SubmissionRows BY <1>5, <1>m, RowTypes DEF Submit
  <2> QED BY <1>5, <2>1, <2>3 DEF Submit, Fits, UnitRows, SubmissionRows, hosting, git, server
<1>6. ASSUME NEW s \in Sessions, NEW by \in {"agent", "capture", "recovery", "shutdown"}, Receive(by, s)
      PROVE  Types'
  <2>1. Written(by, s) \subseteq Refs BY RefFacts DEF Written
  <2>2. Brought(by, s) \in Commits /\ ref[Branch] \in Commits BY CommitFacts DEF Brought, Fits
  <2>3. [by |-> by, session |-> s, refs |-> Written(by, s), next |-> Brought(by, s),
         old |-> ref[Branch], git |-> "receiving", served |-> TRUE, status |-> "prepared"] \in PushRecord
      BY <2>1, <2>2 DEF PushRecord
  <2>4. pushes' \subseteq PushRecord BY <1>6, <2>3 DEF Receive, Fits
  <2> QED BY <1>6, <2>4 DEF Receive, Fits, hosting, git, server
<1>7. ASSUME NEW s \in Sessions, NEW verdict \in {"pass", "fail"}, Verdict(s, verdict) PROVE Types'
    BY <1>7 DEF Verdict, Fits, hosting, git, server
<1>16. ASSUME NEW s \in Sessions, Acknowledge(s) PROVE Types'
  <2>1. sub' \in SubmissionRows BY <1>16, <1>m, RowTypes DEF Acknowledge
  <2> QED BY <1>16, <2>1 DEF Acknowledge, Fits, SubmissionRows, hosting, git, server
<1>8. ASSUME NEW p \in pushes, Admit(p) \/ Prepare(p) \/ Die(p) \/ GiveUp(p) PROVE Types'
  <2>1. p \in PushRecord BY DEF Fits
  <2>2. \A q \in PushRecord : Becomes(p, q) => pushes' \subseteq PushRecord BY DEF Becomes, Fits
  <2>3. CASE Admit(p)
    <3>1. unit' \in UnitRows BY <2>3, <1>u, UnitTypes DEF Admit
    <3> QED BY <2>1, <2>2, <2>3, <3>1 DEF Admit, Fits, UnitRows, PushRecord, hosting, git, server
  <2>4. CASE Prepare(p)
    <3>1. unit' \in UnitRows BY <2>4, <1>u, UnitTypes DEF Prepare
    <3>2. locks' \subseteq Refs BY <2>1, <2>4 DEF Prepare, Fits, PushRecord
    <3>3. pushes' \subseteq PushRecord BY <2>1, <2>2, <2>4 DEF Prepare, PushRecord
    <3> QED BY <2>4, <3>1, <3>2, <3>3 DEF Prepare, Fits, UnitRows, hosting, server
  <2>5. CASE Die(p)
    <3>1. pushes' \subseteq PushRecord BY <2>1, <2>2, <2>5 DEF Die, PushRecord
    <3> QED BY <2>5, <3>1, WritersAssumption DEF Die, Fits, hosting, git
  <2>6. CASE GiveUp(p)
    <3>1. pushes' \subseteq PushRecord BY <2>1, <2>2, <2>6 DEF GiveUp, PushRecord
    <3> QED BY <2>6, <3>1, WritersAssumption DEF GiveUp, Fits, hosting, git
  <2> QED BY <1>8, <2>3, <2>4, <2>5, <2>6
<1>9. ASSUME NEW p \in pushes, NEW r \in p.refs, Write(p, r) PROVE Types'
  <2>1. p \in PushRecord /\ r \in Refs BY DEF Fits, PushRecord
  <2>2. ref' \in [Refs -> Commits \cup {None}] /\ ref'[Branch] \in Commits
      BY <1>9, <2>1, RefFacts DEF Write, Fits, PushRecord
  <2>3. pushes' \subseteq PushRecord BY <1>9, <2>1 DEF Write, Becomes, Fits, PushRecord
  <2> QED BY <1>9, <2>2, <2>3 DEF Write, Fits, hosting, server
<1>10. ASSUME NEW p \in pushes, CleanUp(p) \/ Reconcile(p) PROVE Types'
  <2>1. p \in PushRecord BY DEF Fits
  <2>2. CASE CleanUp(p) BY <2>2 DEF CleanUp, Fits, hosting, server
  <2>3. CASE Reconcile(p)
    <3>0. [p EXCEPT !.status = "settled"] \in PushRecord BY <2>1 DEF PushRecord
    <3>1. pushes' \subseteq PushRecord BY <3>0, <2>3 DEF Reconcile, Becomes, Fits
    <3>2. unit' \in UnitRows BY <2>1, <2>3, <1>u DEF Reconcile, PushRecord, UnitRows
    <3> QED BY <2>3, <3>1, <3>2 DEF Reconcile, Fits, UnitRows, hosting, git, server
  <2> QED BY <1>10, <2>2, <2>3
<1>11. CASE Heard
  <2>1. unit' \in UnitRows BY <1>11, <1>u, UnitTypes DEF Heard
  <2> QED BY <1>11, <2>1 DEF Heard, Fits, UnitRows, git, server
<1>12. CASE GraceEnds BY <1>12 DEF GraceEnds, Fits, hosting, git, server
<1>13. CASE Expire
  <2>1. unit' \in UnitRows BY <1>13, <1>u, UnitTypes DEF Expire
  <2> QED BY <1>13, <2>1 DEF Expire, Fits, UnitRows, hosting, git, server
<1>14. CASE Crash
  <2>1. \A p \in PushRecord : [p EXCEPT !.served = FALSE] \in PushRecord BY DEF PushRecord
  <2>2. pushes' \subseteq PushRecord BY <1>14, <2>1 DEF Crash, Fits
  <2>0. faults < MaxFaults /\ faults' = faults + 1 BY <1>14 DEF Crash
  <2>6. up' \in BOOLEAN BY <1>14, Zenon DEF Crash
  <2>5. faults \in 0..MaxFaults BY DEF Fits
  <2>3. faults' \in 0..MaxFaults BY <2>0, <2>5, WritersAssumption
  <2>4. UNCHANGED <<unit, sess, machine, events, ref, locks, sub>> BY <1>14 DEF Crash, hosting, git
  <2> QED BY <2>2, <2>3, <2>4, <2>6 DEF Fits
<1>15. CASE Restart BY <1>15 DEF Restart, Fits, hosting, git
<1> QED
    BY <1>0, <1>1, <1>2, <1>3, <1>4, <1>5, <1>6, <1>7, <1>8, <1>9, <1>10, <1>11, <1>12, <1>13, <1>14, <1>15,
       <1>16
    DEF Next, GitMoves, Recover

-----------------------------------------------------------------------------
(* Steps that leave the branch, the checkouts and the submissions alone.   *)

\* The same push, however far its Git process is and whoever waits for it.
Alike(p, q) ==
    /\ q.by = p.by /\ q.session = p.session /\ q.refs = p.refs
    /\ q.next = p.next /\ q.old = p.old /\ q.status = p.status

Quiet ==
    /\ unit'.gen = unit.gen /\ unit'.head = unit.head
    /\ unit.state = "closed" => unit'.state = "closed"
    /\ machine' = machine /\ ref' = ref
    /\ \A s \in Sessions : /\ sub'[s].asked = sub[s].asked /\ sub'[s].parent = sub[s].parent
                           /\ sub'[s].dirty = sub[s].dirty /\ sub'[s].verdict = sub[s].verdict
                           /\ sub'[s].retained = sub[s].retained
    /\ \A s \in Sessions : sess'[s] = "none" <=> sess[s] = "none"
    /\ \A q \in pushes' : \E p \in pushes : Alike(p, q)
    /\ \A p \in pushes : \E q \in pushes' : Alike(p, q)
    /\ \A q, r \in pushes' : q = r
    /\ \A r \in locks' : \E q \in pushes' : r \in q.refs

\* A push replaced by a like one leaves the pushes alike.
LEMMA BecomesAlike ==
    ASSUME PushesFit, NEW p \in pushes, NEW q, Becomes(p, q), Alike(p, q)
    PROVE  /\ pushes = {p} /\ pushes' = {q}
           /\ \A x \in pushes' : \E y \in pushes : Alike(y, x)
           /\ \A x \in pushes : \E y \in pushes' : Alike(x, y)
           /\ \A x, y \in pushes' : x = y
           /\ locks' = locks => \A r \in locks' : \E x \in pushes' : r \in x.refs
<1>1. pushes = {p} BY DEF PushesFit
<1>2. pushes' = {q} BY <1>1 DEF Becomes
<1>3. q.refs = p.refs BY DEF Alike
<1> QED BY <1>1, <1>2, <1>3 DEF PushesFit

\* Where the pushes are the same, so are they one at a time, and their locks theirs.
LEMMA SamePushes ==
    ASSUME PushesFit, pushes' = pushes, locks' \subseteq locks
    PROVE  /\ \A x \in pushes' : \E y \in pushes : Alike(y, x)
           /\ \A x \in pushes : \E y \in pushes' : Alike(x, y)
           /\ \A x, y \in pushes' : x = y
           /\ \A r \in locks' : \E x \in pushes' : r \in x.refs
BY DEF PushesFit, Alike

\* What the machine attaches, the consumer hears and the clocks bring is quiet.
LEMMA ServerIsQuiet ==
    ASSUME Fits,
           \/ \E s \in Sessions : Attach(s) \/ \E own \in BOOLEAN : CloseSession(s, own)
           \/ Heard \/ GraceEnds \/ Expire \/ Restart
    PROVE  Quiet
<1>u. unit \in UnitRows /\ sess \in [Sessions -> {"none", "offered", "attached", "closed"}]
    BY DEF Fits, Types, TypeOK, UnitRows
<1>1. PushesFit BY DEF Fits
<1>2. ASSUME NEW s \in Sessions, Attach(s) \/ \E own \in BOOLEAN : CloseSession(s, own) PROVE Quiet
    BY <1>2, <1>u, <1>1, SamePushes DEF Attach, CloseSession, Live, Quiet, git, server
<1>3. CASE Heard BY <1>3, <1>u, <1>1, SamePushes, UnitTypes DEF Heard, Quiet, git, server
<1>4. CASE GraceEnds BY <1>4, <1>u, <1>1, SamePushes DEF GraceEnds, UnitRows, Quiet, hosting, git, server
<1>5. CASE Expire BY <1>5, <1>u, <1>1, SamePushes, UnitTypes DEF Expire, Quiet, hosting, git, server
<1>6. CASE Restart BY <1>6, <1>1, SamePushes DEF Restart, Quiet, hosting, git
<1> QED BY <1>2, <1>3, <1>4, <1>5, <1>6

\* What a Git process asks, how it dies and who waits for it is quiet.
LEMMA GitIsQuiet ==
    ASSUME Fits,
           \/ \E p \in pushes : Admit(p) \/ Prepare(p) \/ Die(p) \/ GiveUp(p) \/ CleanUp(p)
           \/ Crash
    PROVE  Quiet
<1>u. unit \in UnitRows BY DEF Fits, Types, TypeOK, UnitRows
<1>1. PushesFit BY DEF Fits
<1>2. ASSUME NEW p \in pushes, Admit(p) \/ Prepare(p) \/ Die(p) \/ GiveUp(p) \/ CleanUp(p) PROVE Quiet
  <2>0. p \in PushRecord BY DEF Fits, Types, TypeOK
  <2>1. CASE Admit(p)
    <3> DEFINE q == [p EXCEPT !.git = "admitted"]
    <3>1. Alike(p, q) BY <2>0 DEF PushRecord, Alike
    <3>2. UNCHANGED <<machine, ref, sub, sess, locks>> /\ Becomes(p, q) BY <2>1 DEF Admit, hosting, git
    <3>3. /\ unit'.gen = unit.gen /\ unit'.head = unit.head
          /\ unit.state = "closed" => unit'.state = "closed"
        BY <2>1, <1>u, UnitTypes DEF Admit
    <3> HIDE DEF q
    <3> QED BY <3>1, <3>2, <3>3, <1>1, BecomesAlike DEF Quiet
  <2>2. CASE Prepare(p)
    <3> DEFINE q == [p EXCEPT !.git = "sure"]
    <3>1. Alike(p, q) /\ q.refs = p.refs BY <2>0 DEF PushRecord, Alike
    <3>2. UNCHANGED <<machine, ref, sub, sess>> /\ locks' = locks \cup p.refs /\ Becomes(p, q)
        BY <2>2 DEF Prepare, hosting
    <3> HIDE DEF q
    <3>3. pushes = {p} /\ pushes' = {q} BY <3>1, <3>2, <1>1, BecomesAlike
    <3>4. \A r \in locks' : r \in q.refs BY <3>1, <3>2, <3>3, <1>1 DEF PushesFit
    <3>5. /\ unit'.gen = unit.gen /\ unit'.head = unit.head
          /\ unit.state = "closed" => unit'.state = "closed"
        BY <2>2, <1>u, UnitTypes DEF Prepare
    <3> QED BY <3>1, <3>2, <3>3, <3>4, <3>5 DEF Quiet
  <2>3. CASE Die(p)
    <3> DEFINE q == [p EXCEPT !.git = "gone"]
    <3>1. Alike(p, q) BY <2>0 DEF PushRecord, Alike
    <3>2. UNCHANGED <<unit, machine, ref, sub, sess, locks>> /\ Becomes(p, q) BY <2>3 DEF Die, hosting, git
    <3> HIDE DEF q
    <3> QED BY <3>1, <3>2, <1>1, BecomesAlike DEF Quiet
  <2>4. CASE GiveUp(p)
    <3> DEFINE q == [p EXCEPT !.served = FALSE]
    <3>1. Alike(p, q) BY <2>0 DEF PushRecord, Alike
    <3>2. UNCHANGED <<unit, machine, ref, sub, sess, locks>> /\ Becomes(p, q)
        BY <2>4 DEF GiveUp, hosting, git
    <3> HIDE DEF q
    <3> QED BY <3>1, <3>2, <1>1, BecomesAlike DEF Quiet
  <2>5. CASE CleanUp(p) BY <2>5, <1>1, SamePushes DEF CleanUp, hosting, server, Quiet
  <2> QED BY <1>2, <2>1, <2>2, <2>3, <2>4, <2>5
<1>3. CASE Crash
  <2>1. \A p \in pushes : Alike(p, [p EXCEPT !.served = FALSE]) BY DEF Fits, Types, TypeOK, PushRecord, Alike
  <2>2. UNCHANGED <<unit, machine, ref, sub, sess, locks>> BY <1>3 DEF Crash, hosting, git
  <2>3. pushes' = {[p EXCEPT !.served = FALSE] : p \in pushes} BY <1>3 DEF Crash
  <2> DEFINE Orphan(p) == [p EXCEPT !.served = FALSE]
  <2>4. \A p \in pushes : Orphan(p) \in pushes' /\ Alike(p, Orphan(p)) BY <2>1, <2>3
  <2>5. \A q \in pushes' : \E p \in pushes : q = Orphan(p) BY <2>3
  <2> HIDE DEF Orphan
  <2>6. \A q, r \in pushes' : q = r BY <2>5, <1>1 DEF PushesFit
  <2>7. \A r \in locks' : \E q \in pushes' : r \in q.refs BY <2>2, <2>4, <1>1 DEF PushesFit, Alike
  <2>8. \A q \in pushes' : \E p \in pushes : Alike(p, q) BY <2>4, <2>5
  <2>9. \A p \in pushes : \E q \in pushes' : Alike(p, q) BY <2>4
  <2> QED BY <2>2, <2>6, <2>7, <2>8, <2>9 DEF Quiet
<1> QED BY <1>2, <1>3

\* A quiet step keeps the invariant.
LEMMA QuietKeeps ==
    ASSUME Fits, Types', Quiet
    PROVE  Fits'
<1> USE DEF Quiet
<1>1. \A s \in Sessions : SessionFits(s)' BY DEF Fits, SessionFits, Pending, Frozen
<1>2. \A s \in Sessions : RefsFit(s)' BY DEF Fits, RefsFit, Candidate
<1>3. BranchFits' BY DEF Fits, BranchFits, Reached, Leftover, Frozen
<1>4. PushesFit'
  <2>1. ASSUME NEW p \in pushes, NEW q \in pushes', Alike(p, q) PROVE PushFits(q)'
    <3>1. PushFits(p) /\ p.session \in Sessions BY DEF Fits, PushesFit, Types, TypeOK, PushRecord
    <3>2. Branch \in q.refs => Extends(q)' BY <2>1, <3>1 DEF PushFits, Extends, Ahead, Leftover, Alike, Frozen
    <3> QED BY <2>1, <3>1, <3>2 DEF PushFits, Alike, Pending, Candidate, Old
  <2> QED BY <2>1 DEF PushesFit
<1>5. Behind' BY DEF Fits, Behind, Pending, Candidate, Alike
<1>6. SealsStand' BY DEF Fits, SealsStand, OnTop, Frozen
<1> QED BY <1>1, <1>2, <1>3, <1>4, <1>5, <1>6 DEF Fits

-----------------------------------------------------------------------------
(* Steps of a visit: its machine works and stops, its work is handed over, *)
(* frozen and judged, its writer ends.                                     *)

\* Where the record is at a checkout's head, so is the branch, and nothing pushes it.
LEMMA InStep ==
    ASSUME Fits, NEW s \in Sessions, s = unit.gen, unit.head = machine[s].head, ~Frozen(s), ~machine[s].ended
    PROVE  /\ ref[Branch] = machine[s].head
           /\ \A p \in pushes : p.by # "approval" /\ Branch \notin p.refs
<1>0. sub[s].verdict # "pass" BY DEF Fits, SessionFits
<1>1. ASSUME NEW p \in pushes PROVE p.by # "approval" /\ Branch \notin p.refs
  <2>1. PushFits(p) /\ p \in PushRecord BY DEF Fits, PushesFit, Types, TypeOK
  <2>2. p.by # "approval" /\ p.session = s BY <1>0, <2>1 DEF PushFits, Pending
  <2>3. SUFFICES ASSUME Branch \in p.refs PROVE FALSE BY <2>2
  <2>4. Extends(p) BY <2>1, <2>3 DEF PushFits
  <2>5. p.old = machine[s].head /\ p.old[1] = s /\ p.next[2] > p.old[2] /\ p.next[2] <= p.old[2]
      BY <2>2, <2>4 DEF Extends, Ahead, Leftover
  <2>6. p.old[2] \in Nat /\ p.next[2] \in Nat BY <2>1, CommitFacts DEF PushRecord
  <2> QED BY <2>5, <2>6
<1>2. ref[Branch] = machine[s].head BY <1>0, <1>1 DEF Fits, Behind, Pending
<1> QED BY <1>1, <1>2

\* A commit of the agent takes its checkout further.
LEMMA WorkKeeps ==
    ASSUME Fits, Types', NEW s \in Sessions, Work(s)
    PROVE  Fits'
<1>0. UNCHANGED <<unit, sess, ref, locks, pushes, sub>> BY DEF Work, git, server
<1>1. machine[s].head \in Commits /\ ~machine[s].stopped /\ sess[s] # "none" BY DEF Work, Fits, Types, TypeOK
<1>2. PICK n \in Nat : /\ n < MaxCommits
                       /\ machine[s].head[1] = s => n = machine[s].head[2]
                       /\ machine' = [machine EXCEPT ![s].head = <<s, n + 1>>]
    BY <1>1, CommitFacts DEF Work
<1>3. /\ machine'[s].head[1] = s /\ machine'[s].head[2] = n + 1
      /\ machine'[s].stopped = machine[s].stopped /\ machine'[s].ended = machine[s].ended
      /\ \A t \in Sessions : t # s => machine'[t] = machine[t]
    BY <1>2 DEF Fits, Types, TypeOK
<1>n. n \in Nat /\ n < MaxCommits /\ (machine[s].head[1] = s => n = machine[s].head[2]) BY <1>2
<1>4. \A t \in Sessions : SessionFits(t)'
  <2>1. ASSUME NEW t \in Sessions, t # s PROVE SessionFits(t)'
      BY <2>1, <1>0, <1>3 DEF Fits, SessionFits, Pending, Frozen
  <2>2. s \in Nat /\ n + 1 <= MaxCommits BY <1>n, WritersAssumption DEF Sessions
  <2>3. SessionFits(s)' BY <2>2, <1>0, <1>1, <1>3 DEF Fits, SessionFits, Pending, Frozen
  <2> QED BY <2>1, <2>3
<1>5. \A t \in Sessions : RefsFit(t)' BY <1>0, <1>1, <1>3 DEF Fits, RefsFit, Candidate
<1>6. BranchFits'
  <2>1. ref[Branch][1] <= unit.gen BY DEF Fits, BranchFits
  <2>2. ASSUME NEW t \in Sessions, t # s, t = unit.gen
        PROVE  \/ Reached(t)'
               \/ ref[Branch] = ApprovalOf(t) /\ sub[t].verdict = "pass" /\ sub[t].dirty
               \/ ref[Branch] = CaptureOf(t) /\ Leftover(t)'
      BY <2>2, <1>0, <1>3 DEF Fits, BranchFits, Reached, Leftover, Frozen
  <2>3. ASSUME s = unit.gen PROVE Reached(s)'
    <3>1. Reached(s) BY <1>1, <2>3 DEF Fits, SessionFits, BranchFits, Leftover
    <3>2. ref[Branch][2] \in Nat BY CommitFacts DEF Fits, Types
    <3>3. ref[Branch][1] = s => ref[Branch][2] <= n + 1 BY <1>n, <3>1, <3>2 DEF Reached
    <3> QED BY <1>0, <1>3, <3>3 DEF Reached
  <2> QED BY <2>1, <2>2, <2>3, <1>0 DEF BranchFits
<1>7. PushesFit'
  <2>1. ASSUME NEW p \in pushes PROVE PushFits(p)'
    <3>1. PushFits(p) /\ p \in PushRecord /\ p.session \in Sessions
        BY DEF Fits, PushesFit, Types, TypeOK, PushRecord
    <3>2. p.next[2] \in Nat BY <3>1, CommitFacts DEF PushRecord
    <3>3. Branch \in p.refs => Extends(p)'
      <4>1. CASE p.session = s
        <5>1. Branch \in p.refs => p.by \notin {"approval", "shutdown"}
            BY <1>1, <3>1, <4>1 DEF Fits, SessionFits, PushFits, Extends, Ahead, Leftover, Pending
        <5>2. Branch \in p.refs => p.next[2] <= n
            BY <1>n, <3>1, <4>1, <5>1 DEF PushFits, Extends, Ahead
        <5> QED BY <1>0, <1>3, <3>1, <3>2, <4>1, <5>1, <5>2 DEF PushFits, Extends, Ahead, Frozen
      <4>2. CASE p.session # s BY <1>0, <1>3, <3>1, <4>2 DEF PushFits, Extends, Ahead, Leftover, Frozen
      <4> QED BY <4>1, <4>2
    <3> QED BY <1>0, <1>1, <1>3, <3>1, <3>3 DEF PushFits, Pending, Candidate, Old
  <2> QED BY <1>0, <2>1 DEF Fits, PushesFit
<1>8. Behind' BY <1>0 DEF Fits, Behind, Pending, Candidate
<1>9. SealsStand' BY <1>0, <1>1, <1>3 DEF Fits, SessionFits, SealsStand, OnTop, Frozen
<1> QED BY <1>4, <1>5, <1>6, <1>7, <1>8, <1>9 DEF Fits

\* A stopped machine leaves its checkout as it is.
LEMMA StopKeeps ==
    ASSUME Fits, Types', NEW s \in Sessions, Stop(s)
    PROVE  Fits'
<1>0. UNCHANGED <<unit, sess, ref, locks, pushes, sub>> /\ sess[s] # "none" BY DEF Stop, git, server
<1>1. /\ machine'[s].stopped
      /\ \A t \in Sessions : /\ machine'[t].head = machine[t].head /\ machine'[t].ended = machine[t].ended
                             /\ t # s => machine'[t].stopped = machine[t].stopped
  <2>1. machine \in MachineRows BY DEF Fits, Types, TypeOK, MachineRows
  <2>2. machine' = [machine EXCEPT ![s].stopped = TRUE] BY DEF Stop
  <2> QED BY <2>1, <2>2 DEF MachineRows
<1>2. \A t \in Sessions : SessionFits(t)' BY <1>0, <1>1 DEF Fits, SessionFits, Pending, Frozen
<1>3. \A t \in Sessions : RefsFit(t)' BY <1>0, <1>1 DEF Fits, RefsFit, Candidate
<1>4. BranchFits' BY <1>0, <1>1 DEF Fits, BranchFits, Reached, Leftover, Frozen
<1>5. PushesFit'
  <2>1. ASSUME NEW p \in pushes PROVE PushFits(p)'
    <3>1. PushFits(p) /\ p.session \in Sessions BY DEF Fits, PushesFit, Types, TypeOK, PushRecord
    <3>2. Branch \in p.refs => Extends(p)' BY <1>0, <1>1, <3>1 DEF PushFits, Extends, Ahead, Leftover, Frozen
    <3> QED BY <1>0, <1>1, <3>1, <3>2 DEF PushFits, Pending, Candidate, Old
  <2> QED BY <1>0, <2>1 DEF Fits, PushesFit
<1>6. Behind' BY <1>0 DEF Fits, Behind, Pending, Candidate
<1>7. SealsStand' BY <1>0, <1>1 DEF Fits, SealsStand, OnTop, Frozen
<1> QED BY <1>2, <1>3, <1>4, <1>5, <1>6, <1>7 DEF Fits

\* A writer that ends is at the head, and the branch with it.
LEMMA EndKeeps ==
    ASSUME Fits, Types', NEW s \in Sessions, EndWriter(s)
    PROVE  Fits'
<1>0. /\ UNCHANGED <<sess, ref, locks, pushes, sub>> /\ unit'.gen = unit.gen /\ unit'.head = unit.head
      /\ unit'.state = "closed"
    BY UnitTypes DEF EndWriter, git, server, Fits, Types, TypeOK, UnitRows
<1>1. /\ machine[s].stopped /\ ~sub[s].asked /\ machine[s].head = unit.head /\ s = unit.gen
      /\ sub[s].verdict = "none" /\ ~Frozen(s) /\ ~machine[s].ended
    BY DEF EndWriter, MaySettle, Fits, SessionFits
<1>2. \A t \in Sessions : /\ machine'[t].head = machine[t].head /\ machine'[t].stopped = machine[t].stopped
                          /\ t # s => machine'[t].ended = machine[t].ended
    BY DEF EndWriter, Fits, Types, TypeOK
<1>3. ref[Branch] = machine[s].head /\ \A p \in pushes : p.by # "approval" /\ Branch \notin p.refs
    BY <1>1, InStep
<1>4. \A t \in Sessions : SessionFits(t)' BY <1>0, <1>1, <1>2 DEF Fits, SessionFits, Pending, Frozen
<1>5. \A t \in Sessions : RefsFit(t)' BY <1>0, <1>2 DEF Fits, RefsFit, Candidate
<1>6. BranchFits' BY <1>0, <1>1, <1>2 DEF Fits, BranchFits, Reached, Leftover, Frozen
<1>7. PushesFit'
  <2>1. ASSUME NEW p \in pushes PROVE PushFits(p)'
    <3>1. PushFits(p) /\ p.session \in Sessions BY DEF Fits, PushesFit, Types, TypeOK, PushRecord
    <3> QED BY <1>0, <1>2, <1>3, <3>1 DEF PushFits, Pending, Candidate, Old
  <2> QED BY <1>0, <2>1 DEF Fits, PushesFit
<1>8. Behind' BY <1>0, <1>1, <1>3 DEF Behind
<1>9. SealsStand' BY <1>0, <1>1, <1>2, <1>3 DEF Fits, SealsStand, OnTop, Frozen, Sessions
<1> QED BY <1>4, <1>5, <1>6, <1>7, <1>8, <1>9 DEF Fits

\* What the steps on a submission leave of the others.
LEMMA SubmissionSteps ==
    ASSUME Fits, NEW s \in Sessions
    PROVE  /\ \A dirty \in BOOLEAN : Submit(s, dirty) =>
                /\ \A t \in Sessions : t # s => sub'[t] = sub[t]
                /\ sub'[s].asked /\ sub'[s].parent = sub[s].parent /\ sub'[s].verdict = sub[s].verdict
                /\ sub'[s].retained = sub[s].retained
                /\ unit'.gen = unit.gen /\ unit'.head = unit.head
                /\ UNCHANGED <<sess, machine, ref, locks, pushes>>
           /\ Freeze(s) =>
                /\ \A t \in Sessions : t # s => sub'[t] = sub[t]
                /\ sub'[s].asked = sub[s].asked /\ sub'[s].parent = machine[s].head
                /\ sub'[s].dirty = sub[s].dirty
                /\ sub'[s].verdict = sub[s].verdict /\ sub'[s].retained = sub[s].retained
                /\ unit'.gen = unit.gen /\ unit'.head = unit.head /\ unit'.state = "closed"
                /\ UNCHANGED <<sess, machine, ref, locks, pushes>>
           /\ \A verdict \in {"pass", "fail"} : Verdict(s, verdict) =>
                /\ \A t \in Sessions : t # s => sub'[t] = sub[t]
                /\ sub'[s].asked = sub[s].asked /\ sub'[s].parent = sub[s].parent
                /\ sub'[s].dirty = sub[s].dirty
                /\ sub'[s].verdict = verdict /\ sub'[s].retained = sub[s].retained
                /\ UNCHANGED <<unit, sess, machine, ref, locks, pushes>>
<1>1. /\ sub \in SubmissionRows /\ unit \in UnitRows BY DEF Fits, Types, TypeOK, SubmissionRows, UnitRows
<1>2. ASSUME NEW dirty \in BOOLEAN, Submit(s, dirty)
      PROVE  /\ \A t \in Sessions : t # s => sub'[t] = sub[t]
             /\ sub'[s].asked /\ sub'[s].parent = sub[s].parent /\ sub'[s].verdict = sub[s].verdict
             /\ sub'[s].retained = sub[s].retained
             /\ unit'.gen = unit.gen /\ unit'.head = unit.head
             /\ UNCHANGED <<sess, machine, ref, locks, pushes>>
  <2>1. sub' = [sub EXCEPT ![s].asked = TRUE, ![s].dirty = dirty] BY <1>2 DEF Submit
  <2>2. unit'.gen = unit.gen /\ unit'.head = unit.head BY <1>1, <1>2, UnitTypes DEF Submit
  <2>3. UNCHANGED <<sess, machine, ref, locks, pushes>> BY <1>2 DEF Submit, hosting, git
  <2> QED BY <1>1, <2>1, <2>2, <2>3 DEF SubmissionRows
<1>3. Freeze(s) =>
        /\ \A t \in Sessions : t # s => sub'[t] = sub[t]
        /\ sub'[s].asked = sub[s].asked /\ sub'[s].parent = machine[s].head
        /\ sub'[s].dirty = sub[s].dirty
        /\ sub'[s].verdict = sub[s].verdict /\ sub'[s].retained = sub[s].retained
        /\ unit'.gen = unit.gen /\ unit'.head = unit.head /\ unit'.state = "closed"
        /\ UNCHANGED <<sess, machine, ref, locks, pushes>>
    BY <1>1, UnitTypes DEF Freeze, SubmissionRows, hosting, git
<1>4. \A verdict \in {"pass", "fail"} : Verdict(s, verdict) =>
        /\ \A t \in Sessions : t # s => sub'[t] = sub[t]
        /\ sub'[s].asked = sub[s].asked /\ sub'[s].parent = sub[s].parent
        /\ sub'[s].dirty = sub[s].dirty
        /\ sub'[s].verdict = verdict /\ sub'[s].retained = sub[s].retained
        /\ UNCHANGED <<unit, sess, machine, ref, locks, pushes>>
    BY <1>1 DEF Verdict, SubmissionRows, hosting, git
<1> QED BY <1>2, <1>3, <1>4

\* What is handed over has not been frozen, judged or approved.
LEMMA SubmitKeeps ==
    ASSUME Fits, Types', NEW s \in Sessions, NEW dirty \in BOOLEAN, Submit(s, dirty)
    PROVE  Fits'
<1>0. /\ \A t \in Sessions : t # s => sub'[t] = sub[t]
      /\ sub'[s].asked /\ sub'[s].parent = sub[s].parent /\ sub'[s].verdict = sub[s].verdict
      /\ sub'[s].retained = sub[s].retained
      /\ unit'.gen = unit.gen /\ unit'.head = unit.head
      /\ UNCHANGED <<sess, machine, ref, locks, pushes>>
    BY SubmissionSteps
<1>1. s = unit.gen /\ ~sub[s].asked /\ ~machine[s].stopped /\ sess[s] = "attached" BY DEF Submit
<1>2. sub[s].verdict = "none" /\ ~Frozen(s) /\ ~machine[s].ended BY <1>1 DEF Fits, SessionFits
<1>3. \A t \in Sessions : SessionFits(t)' BY <1>0, <1>1, <1>2 DEF Fits, SessionFits, Pending, Frozen
<1>4. \A t \in Sessions : RefsFit(t)' BY <1>0, <1>2 DEF Fits, RefsFit, Candidate
<1>5. BranchFits' BY <1>0, <1>1, <1>2 DEF Fits, BranchFits, Reached, Leftover, Frozen
<1>6. PushesFit'
  <2>1. ASSUME NEW p \in pushes PROVE PushFits(p)'
    <3>1. PushFits(p) /\ p.session = s BY <1>1 DEF Fits, PushesFit, PushFits
    <3>2. Branch \in p.refs => Extends(p)'
        BY <1>0, <1>2, <3>1 DEF PushFits, Extends, Ahead, Leftover, Frozen, Pending
    <3> QED BY <1>0, <1>2, <3>1, <3>2 DEF PushFits, Pending, Old
  <2> QED BY <1>0, <2>1 DEF Fits, PushesFit
<1>7. Behind' BY <1>0, <1>1, <1>2 DEF Fits, Behind, Pending, Candidate
<1>8. SealsStand' BY <1>0, <1>1, <1>2 DEF Fits, SealsStand, OnTop, Frozen
<1> QED BY <1>3, <1>4, <1>5, <1>6, <1>7, <1>8 DEF Fits

\* A submission is frozen at the head, with the branch there and nothing on its way to it.
LEMMA FreezeKeeps ==
    ASSUME Fits, Types', NEW s \in Sessions, Freeze(s)
    PROVE  Fits'
<1>0. /\ \A t \in Sessions : t # s => sub'[t] = sub[t]
      /\ sub'[s].asked = sub[s].asked /\ sub'[s].parent = machine[s].head
      /\ sub'[s].dirty = sub[s].dirty
      /\ sub'[s].verdict = sub[s].verdict /\ sub'[s].retained = sub[s].retained
      /\ unit'.gen = unit.gen /\ unit'.head = unit.head /\ unit'.state = "closed"
      /\ UNCHANGED <<sess, machine, ref, locks, pushes>>
    BY SubmissionSteps
<1>1. /\ s = unit.gen /\ sub[s].asked /\ machine[s].stopped /\ ~Frozen(s) /\ ~machine[s].ended
      /\ unit.head = machine[s].head
    BY DEF Freeze, MaySettle, Fits, SessionFits
<1>2. sub[s].verdict # "pass" /\ ~sub[s].retained BY <1>1 DEF Fits, SessionFits
<1>3. ref[Branch] = machine[s].head /\ \A p \in pushes : p.by # "approval" /\ Branch \notin p.refs
    BY <1>1, <1>2, InStep
<1>4. \A t \in Sessions : SessionFits(t)'
  <2>1. ASSUME NEW t \in Sessions, t # s PROVE SessionFits(t)'
      BY <2>1, <1>0 DEF Fits, SessionFits, Pending, Frozen
  <2>2. SessionFits(s)' BY <1>0, <1>1, <1>2 DEF Fits, SessionFits, Pending, Frozen
  <2> QED BY <2>1, <2>2
<1>5. \A t \in Sessions : RefsFit(t)' BY <1>0, <1>2 DEF Fits, RefsFit, Candidate
<1>6. BranchFits' BY <1>0, <1>1 DEF Fits, BranchFits, Reached, Leftover, Frozen
<1>7. PushesFit'
  <2>1. ASSUME NEW p \in pushes PROVE PushFits(p)'
    <3>1. PushFits(p) BY DEF Fits, PushesFit
    <3> QED BY <1>0, <1>3, <3>1 DEF PushFits, Old
  <2> QED BY <1>0, <2>1 DEF Fits, PushesFit
<1>8. Behind' BY <1>0, <1>1, <1>3 DEF Behind
<1>9. SealsStand'
  <2>1. ~machine[s].ended BY <1>1 DEF Fits, SessionFits
  <2>2. machine[s].head # ApprovalOf(s) BY MadeOfLeftover DEF Fits
  <2> QED BY <1>0, <1>1, <1>2, <1>3, <2>1, <2>2 DEF SealsStand, OnTop, Frozen
<1> QED BY <1>4, <1>5, <1>6, <1>7, <1>8, <1>9 DEF Fits

\* A verdict is on the current generation's work, and passes only what is frozen.
LEMMA VerdictKeeps ==
    ASSUME Fits, Types', NEW s \in Sessions, NEW verdict \in {"pass", "fail"}, Verdict(s, verdict)
    PROVE  Fits'
<1>0. /\ \A t \in Sessions : t # s => sub'[t] = sub[t]
      /\ sub'[s].asked = sub[s].asked /\ sub'[s].parent = sub[s].parent
      /\ sub'[s].dirty = sub[s].dirty
      /\ sub'[s].verdict = verdict /\ sub'[s].retained = sub[s].retained
      /\ UNCHANGED <<unit, sess, machine, ref, locks, pushes>>
    BY SubmissionSteps
<1>1. sub[s].asked /\ sub[s].verdict = "none" /\ (verdict = "pass" => Frozen(s)) BY DEF Verdict
<1>2. s = unit.gen /\ ~sub[s].retained BY <1>1 DEF Fits, SessionFits
<1>3. \A t \in Sessions : SessionFits(t)'
  <2>1. ASSUME NEW t \in Sessions, t # s PROVE SessionFits(t)'
      BY <2>1, <1>0 DEF Fits, SessionFits, Pending, Frozen
  <2>2. SessionFits(s)' BY <1>0, <1>1, <1>2 DEF Fits, SessionFits, Pending, Frozen
  <2> QED BY <2>1, <2>2
<1>4. \A t \in Sessions : RefsFit(t)' BY <1>0, <1>1 DEF Fits, RefsFit, Candidate
<1>5. BranchFits' BY <1>0, <1>1 DEF Fits, BranchFits, Reached, Leftover, Frozen
<1>6. PushesFit'
  <2>1. ASSUME NEW p \in pushes PROVE PushFits(p)'
    <3>1. PushFits(p) /\ p.session = s BY <1>2 DEF Fits, PushesFit, PushFits
    <3>2. p.by # "approval" BY <3>1, <1>1 DEF PushFits, Pending
    <3>3. Branch \in p.refs => Extends(p)'
        BY <1>0, <3>1, <3>2 DEF PushFits, Extends, Ahead, Leftover, Frozen
    <3> QED BY <1>0, <3>1, <3>2, <3>3 DEF PushFits, Old
  <2> QED BY <1>0, <2>1 DEF Fits, PushesFit
<1>7. Behind' BY <1>0, <1>1, <1>2 DEF Fits, Behind, Pending, Candidate
<1>8. SealsStand' BY <1>0, <1>1 DEF Fits, SealsStand, OnTop, Frozen
<1> QED BY <1>3, <1>4, <1>5, <1>6, <1>7, <1>8 DEF Fits

\* Nothing but the approval asks for the receipt of a capture.
LEMMA AcknowledgeIsQuiet ==
    ASSUME Fits, NEW s \in Sessions, Acknowledge(s)
    PROVE  Quiet
<1>1. sub \in SubmissionRows BY DEF Fits, Types, TypeOK, SubmissionRows
<1>2. UNCHANGED <<unit, sess, machine, ref, locks, pushes>> /\ sub' = [sub EXCEPT ![s].captured = TRUE]
    BY DEF Acknowledge, hosting, git
<1>3. PushesFit BY DEF Fits
<1> QED BY <1>1, <1>2, <1>3, SamePushes DEF Quiet, SubmissionRows

-----------------------------------------------------------------------------
(* Steps of the branch: it is offered, pushed to, moved and told.          *)

\* While no push is open and no approval is on its way, the record is where the branch is.
LEMMA TheyAgree ==
    ASSUME Fits, Unsettled = {}
    PROVE  /\ pushes = {}
           /\ unit.head # ref[Branch] =>
                \E s \in Sessions : s = unit.gen /\ Pending(s) /\ ref[Branch] = Candidate(s)
<1>1. pushes = {} BY DEF Fits, PushesFit, PushFits, Unsettled
<1> QED BY <1>1 DEF Fits, Behind

\* The next writer starts from where the branch is, and everything before it is decided.
LEMMA OfferKeeps ==
    ASSUME Fits, Types', NEW s \in Sessions, Offer(s)
    PROVE  Fits' /\ unit.head = ref[Branch] /\ unit'.gen = unit.gen + 1
<1>0. /\ UNCHANGED <<ref, locks, pushes, sub>> /\ unit'.gen = s /\ unit'.head = unit.head
      /\ s = unit.gen + 1 /\ unit.gen \in Nat
    BY DEF Offer, Moved, git, server, Fits, Types, TypeOK
<1>1. /\ \A t \in Sessions : sub[t].asked => sub[t].verdict # "none"
      /\ \A t \in Sessions : ~Pending(t)
      /\ Unsettled = {}
    BY DEF Offer, StepFree, Settled, Pending, Reservable, NoneInFlight
<1>2. pushes = {} /\ unit.head = ref[Branch] BY <1>1, TheyAgree
<1>3. locks = {} BY <1>2 DEF Fits, PushesFit
<1>4. /\ machine'[s].head = unit.head /\ machine'[s].stopped = machine[s].stopped
      /\ machine'[s].ended = machine[s].ended
      /\ \A t \in Sessions : t # s => machine'[t] = machine[t]
  <2>1. machine \in MachineRows BY DEF Fits, Types, TypeOK, MachineRows
  <2>2. machine' = [machine EXCEPT ![s].head = unit.head] BY DEF Offer
  <2> QED BY <2>1, <2>2 DEF MachineRows
<1>5. sess'[s] = "offered" /\ \A t \in Sessions : t # s => sess'[t] = sess[t]
    BY DEF Offer, Fits, Types, TypeOK
<1>6. /\ sess[s] = "none" /\ ~machine[s].stopped /\ ~sub[s].asked /\ ~machine[s].ended /\ ~Frozen(s)
      /\ sub[s].verdict = "none" /\ ~sub[s].retained
    BY <1>0 DEF Fits, SessionFits
<1>7. ref[Branch][1] \in Nat /\ ref[Branch][1] < s BY <1>0, CommitFacts DEF Fits, Types, BranchFits
<1>8. \A t \in Sessions : SessionFits(t)'
  <2>1. SessionFits(s)' BY <1>0, <1>1, <1>2, <1>4, <1>5, <1>6, <1>7
      DEF SessionFits, Pending, Frozen
  <2>2. ASSUME NEW t \in Sessions, t # s PROVE SessionFits(t)'
    <3>1. t > unit.gen <=> t > s BY <2>2, <1>0 DEF Sessions
    <3> QED BY <3>1, <2>2, <1>0, <1>1, <1>4, <1>5 DEF Fits, SessionFits, Pending, Frozen
  <2> QED BY <2>1, <2>2
<1>9. \A t \in Sessions : RefsFit(t)' BY <1>0, <1>4, <1>6 DEF Fits, RefsFit, Candidate
<1>10. BranchFits' BY <1>0, <1>2, <1>4, <1>7 DEF BranchFits, Reached, Leftover, Frozen, Sessions
<1>11. PushesFit' BY <1>0, <1>2, <1>3 DEF PushesFit
<1>12. Behind' BY <1>0, <1>2 DEF Behind
<1>13. SealsStand' BY <1>0, <1>4, <1>6 DEF SealsStand, OnTop, Frozen
<1> QED BY <1>0, <1>2, <1>8, <1>9, <1>10, <1>11, <1>12, <1>13 DEF Fits

\* A push of a session takes the branch from the head on to later commits of its own.
LEMMA ReceiveKeeps ==
    ASSUME Fits, Types', NEW s \in Sessions, NEW by \in {"agent", "capture", "recovery", "shutdown"},
           Receive(by, s)
    PROVE  Fits'
<1>p. PICK p : p = [by |-> by, session |-> s, refs |-> Written(by, s), next |-> Brought(by, s),
                   old |-> ref[Branch], git |-> "receiving", served |-> TRUE, status |-> "prepared"]
    OBVIOUS
<1>0. UNCHANGED <<unit, sess, machine, ref, locks, sub>> /\ pushes' = pushes \cup {p}
    BY <1>p DEF Receive, hosting, git, server
<1>1. /\ p.by = by /\ p.session = s /\ p.refs = Written(by, s) /\ p.next = Brought(by, s)
      /\ p.old = ref[Branch] /\ p.status = "prepared"
    BY <1>p
<1>2. Unsettled = {} /\ s = unit.gen BY DEF Receive, TurnFree, Entitled
<1>3. pushes = {} /\ pushes' = {p} BY <1>0, <1>2, TheyAgree
<1>4. locks = {} BY <1>3 DEF Fits, PushesFit
<1>5. SessionFits(s) /\ RefsFit(s) /\ (Reached(s) \/ ref[Branch] # machine[s].head)
  <2>1. SessionFits(s) /\ RefsFit(s) BY DEF Fits
  <2>2. ref[Branch] = machine[s].head => Reached(s)
    <3>1. machine[s].head[2] \in Nat BY CommitFacts DEF Fits, Types, TypeOK
    <3> QED BY <3>1 DEF Reached
  <2> QED BY <2>1, <2>2
<1>6. /\ by # "shutdown" => ~Frozen(s) /\ ~machine[s].ended
      /\ by = "shutdown" => Leftover(s) /\ ref[Branch] = machine[s].head
    BY <1>5 DEF Receive, Pushing, SessionFits, Leftover
<1>7. unit.head = ref[Branch]
  <2>1. CASE by # "shutdown" BY <2>1, <1>2, <1>5, <1>6, TheyAgree DEF SessionFits, Pending
  <2>2. CASE by = "shutdown"
    <3>1. Pending(s) => sub[s].dirty /\ Candidate(s) = ApprovalOf(s)
        BY <2>2, <1>5, <1>6 DEF SessionFits, Pending, Leftover, Candidate
    <3>2. machine[s].head # ApprovalOf(s) BY <1>5, MadeOfLeftover
    <3> QED BY <2>2, <3>1, <3>2, <1>2, <1>6, TheyAgree
  <2> QED BY <2>1, <2>2
<1>8. by = "shutdown" => ~sub[s].retained
  <2>1. SUFFICES ASSUME by = "shutdown", sub[s].retained PROVE FALSE OBVIOUS
  <2>2. Frozen(s) /\ sub[s].dirty BY <2>1, <1>5, <1>6 DEF SessionFits, Leftover
  <2>3. ref[Approval(s)] = machine[s].head BY <2>1, <2>2, <1>2, <1>6 DEF Fits, SealsStand
  <2>4. machine[s].head \in {ApprovalOf(s), CaptureOf(s)}
    <3>1. machine[s].head # None BY CommitFacts DEF Fits, Types, TypeOK
    <3> QED BY <2>2, <2>3, <3>1, <1>5 DEF RefsFit, Candidate
  <2> QED BY <2>4, <1>5, MadeOfLeftover
<1>9. /\ Written(by, s) \subseteq {Branch, Submission(s)}
      /\ \A r \in Written(by, s) : ref[r] # Brought(by, s)
      /\ Submission(s) \in Written(by, s) => machine[s].stopped /\ Brought(by, s) = machine[s].head
    BY RefFacts DEF Receive, Pushing, Written, Brought
<1>10. PushFits(p)'
  <2>1. Branch \in p.refs => Extends(p)
    <3> SUFFICES ASSUME Branch \in p.refs PROVE Extends(p) OBVIOUS
    <3>1. CASE by # "shutdown"
      <4>1. ref[Branch] # machine[s].head /\ p.next = machine[s].head BY <1>1, <1>9, <3>1 DEF Brought
      <4>2. Reached(s)
        <5>1. ~Leftover(s) /\ sub[s].verdict # "pass" BY <3>1, <1>5, <1>6 DEF SessionFits, Leftover
        <5> QED BY <5>1, <1>2 DEF Fits, BranchFits
      <4>3. machine[s].head[1] = s BY <4>1, <4>2 DEF Reached
      <4>4. machine[s].head \in Commits /\ ref[Branch] \in Commits BY DEF Fits, Types, TypeOK
      <4>5. ref[Branch][1] = s => machine[s].head[2] > ref[Branch][2]
        <5>1. ref[Branch][1] = s => ref[Branch][2] <= machine[s].head[2] BY <4>2 DEF Reached
        <5>2. ref[Branch][2] \in Nat /\ machine[s].head[2] \in Nat BY <4>4, CommitFacts
        <5>3. ref[Branch][1] = s => ref[Branch][2] # machine[s].head[2] BY <4>1, <4>3, <4>4, CommitFacts
        <5> QED BY <5>1, <5>2, <5>3
      <4>6. machine[s].head[2] \in Nat BY <4>4, CommitFacts
      <4>7. Ahead(p) BY <1>1, <1>6, <3>1, <4>1, <4>3, <4>6 DEF Ahead
      <4> QED BY <1>1, <1>7, <4>1, <4>3, <4>5, <4>7 DEF Extends
    <3>2. CASE by = "shutdown"
      <4>1. p.next = CaptureOf(s) BY <1>1, <3>2 DEF Brought
      <4>2. Ahead(p) BY <1>1, <1>6, <1>8, <3>2, <4>1 DEF Ahead
      <4>3. CaptureOf(s)[1] = s /\ CaptureOf(s)[2] = MaxCommits + 2 BY <1>5, MadeOfLeftover
      <4>4. ref[Branch][1] = s => ref[Branch][2] \in Nat /\ ref[Branch][2] <= MaxCommits
          BY <1>5, <1>6, <3>2, CommitFacts DEF SessionFits, Fits, Types
      <4> QED BY <1>1, <1>7, <4>1, <4>2, <4>3, <4>4, WritersAssumption DEF Extends
    <3> QED BY <3>1, <3>2
  <2>2. Branch \in p.refs => Extends(p)' BY <2>1, <1>0 DEF Extends, Ahead, Leftover, Frozen
  <2>3. \A r \in p.refs : ref[r] = Old(p, r)
    <3>1. Submission(s) \in p.refs => ref[Submission(s)] = None BY <1>1, <1>5, <1>9 DEF RefsFit
    <3> QED BY <1>1, <1>9, <3>1, RefFacts DEF Old
  <2> QED BY <1>0, <1>1, <1>2, <1>9, <2>2, <2>3 DEF PushFits, Old
<1>11. \A t \in Sessions : SessionFits(t)' BY <1>0 DEF Fits, SessionFits, Pending, Frozen
<1>12. \A t \in Sessions : RefsFit(t)' BY <1>0 DEF Fits, RefsFit, Candidate
<1>13. BranchFits' BY <1>0 DEF Fits, BranchFits, Reached, Leftover, Frozen
<1>14. PushesFit' BY <1>0, <1>3, <1>4, <1>10 DEF PushesFit
<1>15. Behind' BY <1>0, <1>7 DEF Behind
<1>16. SealsStand' BY <1>0 DEF Fits, SealsStand, OnTop, Frozen
<1> QED BY <1>11, <1>12, <1>13, <1>14, <1>15, <1>16 DEF Fits

\* The commit an approval is made as is its tree's, or the capture the branch is at.
LEMMA ApprovedFacts ==
    ASSUME Fits, NEW s \in Sessions, Pending(s), NoConflict(s)
    PROVE  /\ s = unit.gen /\ Frozen(s) /\ sub[s].parent = machine[s].head /\ sub[s].asked
           /\ ref[Branch] \in {machine[s].head, Approved(s)}
           /\ Approved(s) \in {Candidate(s), CaptureOf(s)}
           /\ Approved(s) = CaptureOf(s) => ref[Branch] = CaptureOf(s)
<1>1. SessionFits(s) /\ RefsFit(s) BY DEF Fits
<1>2. s = unit.gen /\ Frozen(s) /\ sub[s].parent = machine[s].head /\ sub[s].asked
    BY <1>1 DEF SessionFits, Pending
<1>3. Candidate(s) # CaptureOf(s) BY <1>1, <1>2, MadeOfLeftover
<1>4. Approved(s) = CaptureOf(s) => ref[Branch] = CaptureOf(s)
    BY <1>1, <1>2, <1>3 DEF RefsFit, Approved
<1> QED BY <1>2, <1>4 DEF NoConflict

\* The commit of an approval extends the frozen head the branch is at.
LEMMA MaterializeKeeps ==
    ASSUME Fits, Types', NEW s \in Sessions, Materialize(s)
    PROVE  Fits'
<1>p. PICK p : p = [by |-> "approval", session |-> s, refs |-> Unwritten(s), next |-> Approved(s),
                   old |-> ref[Branch], git |-> "admitted", served |-> TRUE, status |-> "prepared"]
    OBVIOUS
<1>0. UNCHANGED <<unit, sess, machine, ref, locks, sub>> /\ pushes' = pushes \cup {p}
    BY <1>p DEF Materialize, hosting, git, server
<1>1. /\ p.by = "approval" /\ p.session = s /\ p.refs = Unwritten(s) /\ p.next = Approved(s)
      /\ p.old = ref[Branch] /\ p.status = "prepared"
    BY <1>p
<1>2. Unsettled = {} /\ Pending(s) BY DEF Materialize, TurnFree, Pending
<1>3. /\ s = unit.gen /\ Frozen(s) /\ sub[s].parent = machine[s].head
      /\ ref[Branch] \in {machine[s].head, Approved(s)}
      /\ Approved(s) \in {Candidate(s), CaptureOf(s)}
      /\ Approved(s) = CaptureOf(s) => ref[Branch] = CaptureOf(s)
      /\ SessionFits(s) /\ RefsFit(s)
    BY <1>2, ApprovedFacts DEF Materialize, Fits
<1>4. pushes = {} /\ pushes' = {p} BY <1>0, <1>2, TheyAgree
<1>5. locks = {} BY <1>4 DEF Fits, PushesFit
<1>6. /\ Unwritten(s) \subseteq {Branch, Approval(s)}
      /\ \A r \in Unwritten(s) : ref[r] # Approved(s)
    BY DEF Unwritten
<1>7. PushFits(p)'
  <2>1. Branch \in p.refs => Extends(p)
    <3> SUFFICES ASSUME Branch \in p.refs PROVE Extends(p) OBVIOUS
    <3>1. ref[Branch] = machine[s].head /\ ref[Branch] # Approved(s) BY <1>1, <1>3, <1>6
    <3>2. Approved(s) = Candidate(s) BY <1>3, <3>1
    <3>3. Approved(s) = ApprovalOf(s) /\ sub[s].dirty BY <1>3, <3>1, <3>2 DEF Candidate
    <3>4. unit.head = ref[Branch] BY <1>2, <1>3, <3>1, <3>2, TheyAgree
    <3>5. ref[Branch][2] \in Nat /\ (ref[Branch][1] = s => ref[Branch][2] <= MaxCommits)
        BY <1>3, <3>1, CommitFacts DEF Fits, Types, SessionFits
    <3>6. Approved(s)[1] = s /\ Approved(s)[2] = MaxCommits + 1 BY <1>3, <3>3, MadeOfLeftover
    <3>7. Ahead(p) BY <1>1, <3>1, <3>3 DEF Ahead
    <3> QED BY <1>1, <3>4, <3>5, <3>6, <3>7, WritersAssumption DEF Extends
  <2>2. Branch \in p.refs => Extends(p)' BY <2>1, <1>0 DEF Extends, Ahead, Leftover, Frozen
  <2>3. \A r \in p.refs : ref[r] = Old(p, r)
    <3>1. Approval(s) \in p.refs => ref[Approval(s)] = None BY <1>1, <1>6 DEF Approved
    <3> QED BY <1>1, <1>6, <3>1, RefFacts DEF Old
  <2>4. Submission(s) \notin p.refs BY <1>1, <1>6, RefFacts
  <2> QED BY <1>0, <1>1, <1>2, <1>3, <1>6, <2>2, <2>3, <2>4 DEF PushFits, Old, Pending, Candidate
<1>8. \A t \in Sessions : SessionFits(t)' BY <1>0 DEF Fits, SessionFits, Pending, Frozen
<1>9. \A t \in Sessions : RefsFit(t)' BY <1>0 DEF Fits, RefsFit, Candidate
<1>10. BranchFits' BY <1>0 DEF Fits, BranchFits, Reached, Leftover, Frozen
<1>11. PushesFit' BY <1>0, <1>4, <1>5, <1>7 DEF PushesFit
<1>12. Behind' BY <1>0, <1>4 DEF Fits, Behind, Pending, Candidate
<1>13. SealsStand' BY <1>0 DEF Fits, SealsStand, OnTop, Frozen
<1> QED BY <1>8, <1>9, <1>10, <1>11, <1>12, <1>13 DEF Fits

\* A ref moves from where its push began to where the push goes.
LEMMA WriteKeeps ==
    ASSUME Fits, Types', NEW p \in pushes, NEW r \in p.refs, Write(p, r)
    PROVE  Fits'
<1>0. /\ UNCHANGED <<unit, sess, machine, sub>> /\ ref' = [ref EXCEPT ![r] = p.next]
      /\ locks' = locks \ {r} /\ ref[r] # p.next
    BY DEF Write, hosting, server
<1>1. PushFits(p) /\ p \in PushRecord /\ p.session \in Sessions /\ r \in Refs
    BY DEF Fits, PushesFit, Types, TypeOK, PushRecord
<1>q. PICK q : q = [p EXCEPT !.git = IF \A x \in p.refs : ref'[x] = p.next THEN "gone" ELSE "sure"]
    OBVIOUS
<1>2. Alike(p, q) BY <1>1, <1>q DEF PushRecord, Alike
<1>3. pushes = {p} /\ pushes' = {q}
  <2>1. Becomes(p, q) BY <1>q DEF Write
  <2> QED BY <2>1, <1>2, BecomesAlike DEF Fits
<1>4. ref'[r] = p.next /\ \A x \in Refs : x # r => ref'[x] = ref[x] BY <1>0, <1>1 DEF Fits, Types, TypeOK
<1> DEFINE s == p.session
<1>5. s = unit.gen /\ (r = Branch => Extends(p)) BY <1>1 DEF PushFits
<1>6. p.by = "approval" => /\ Pending(s) /\ p.next \in {Candidate(s), CaptureOf(s)}
                           /\ p.next = CaptureOf(s) => ref[Branch] = CaptureOf(s)
                           /\ r \in {Branch, Approval(s)}
                           /\ Frozen(s) /\ ~machine[s].ended /\ sub[s].parent = machine[s].head
    BY <1>1 DEF PushFits, Fits, SessionFits, Pending
<1>7. /\ p.by # "approval" => r \in {Branch, Submission(s)}
      /\ r = Submission(s) => machine[s].stopped /\ p.next = machine[s].head
    BY <1>1 DEF PushFits
<1>8. r = Branch => p.next[1] = s BY <1>5 DEF Extends
<1>s. /\ r = Branch /\ p.by = "approval" => p.next = ApprovalOf(s) /\ sub[s].dirty
      /\ r = Branch /\ p.by = "shutdown" =>
            p.next = CaptureOf(s) /\ Leftover(s) /\ ~sub[s].retained /\ p.old = machine[s].head
      /\ r = Branch /\ p.by \notin {"approval", "shutdown"} =>
            ~Frozen(s) /\ ~machine[s].ended /\ machine[s].head[1] = s /\ p.next[2] <= machine[s].head[2]
      /\ r = Branch => unit.head = p.old
    BY <1>5 DEF Extends, Ahead
<1>t. s \in Sessions /\ SessionFits(s) /\ RefsFit(s) BY <1>1 DEF Fits
<1>v. r = Branch /\ ref[Approval(s)] = CaptureOf(s) => p.next = CaptureOf(s)
  <2>1. SUFFICES ASSUME r = Branch, ref[Approval(s)] = CaptureOf(s) PROVE p.next = CaptureOf(s) OBVIOUS
  <2>2. CaptureOf(s) # None BY <1>t, CommitFacts
  <2>3. ref[Branch] = CaptureOf(s) /\ sub[s].verdict = "pass" BY <2>1, <2>2, <1>5, <1>t DEF RefsFit
  <2>4. ref[Branch] \in {p.old, p.next} BY <2>1, <1>1 DEF PushFits, Old
  <2>5. CASE p.by = "approval"
    <3>1. p.old = machine[s].head BY <2>1, <2>5, <1>5 DEF Extends, Ahead
    <3> QED BY <3>1, <2>3, <2>4, <1>t, MadeOfLeftover
  <2>6. CASE p.by = "shutdown" BY <2>1, <2>6, <1>s
  <2>7. CASE p.by \notin {"approval", "shutdown"} BY <2>1, <2>3, <2>7, <1>s, <1>t DEF SessionFits
  <2> QED BY <2>5, <2>6, <2>7
<1> HIDE DEF s
<1>9. \A t \in Sessions : SessionFits(t)' BY <1>0 DEF Fits, SessionFits, Pending, Frozen
<1>10. \A t \in Sessions : RefsFit(t)'
  <2> SUFFICES ASSUME NEW t \in Sessions PROVE RefsFit(t)' OBVIOUS
  <2>0. s \in Sessions /\ RefsFit(t) BY <1>t DEF Fits
  <2>1. ref'[Submission(t)] # None => machine[t].stopped /\ ref'[Submission(t)] = machine[t].head
      BY <2>0, <1>4, <1>6, <1>7, RefFacts DEF RefsFit
  <2>2. ref'[Approval(t)] # None => sub[t].verdict = "pass" /\ ref'[Approval(t)] \in {Candidate(t), CaptureOf(t)}
      BY <2>0, <1>4, <1>6, <1>7, RefFacts DEF RefsFit, Pending
  <2>3. ASSUME t = unit.gen, ref'[Approval(t)] # None, ref'[Approval(t)] = CaptureOf(t)
        PROVE  ref'[Branch] = CaptureOf(t)
    <3>1. t = s BY <2>3, <1>5
    <3>2. CASE r = Branch
      <4>1. ref[Approval(s)] = CaptureOf(s) BY <2>3, <3>1, <3>2, <2>0, <1>4, RefFacts
      <4> QED BY <4>1, <3>1, <3>2, <1>4, <1>v
    <3>3. CASE r = Approval(s)
      <4>1. p.by = "approval" BY <3>3, <2>0, <1>7, RefFacts
      <4> QED BY <4>1, <2>3, <3>1, <3>3, <2>0, <1>4, <1>6, RefFacts
    <3>4. CASE r \notin {Branch, Approval(s)}
        BY <2>3, <3>1, <3>4, <2>0, <1>4, RefFacts DEF RefsFit
    <3> QED BY <3>2, <3>3, <3>4
  <2> QED BY <1>0, <2>1, <2>2, <2>3 DEF RefsFit, Candidate
<1>11. BranchFits'
  <2>1. CASE r = Branch
    <3>1. s = unit.gen /\ p.next[1] = s BY <1>5, <1>8, <2>1
    <3>2. \/ Reached(s)'
          \/ p.next = ApprovalOf(s) /\ sub[s].verdict = "pass" /\ sub[s].dirty
          \/ p.next = CaptureOf(s) /\ Leftover(s)
        BY <1>0, <1>4, <1>6, <1>s, <2>1 DEF Reached, Pending
    <3>3. s \in Nat BY <1>1 DEF s, Sessions
    <3> QED BY <1>0, <1>4, <2>1, <3>1, <3>2, <3>3 DEF BranchFits, Leftover, Frozen
  <2>2. CASE r # Branch BY <1>0, <1>4, <2>2, RefFacts DEF Fits, BranchFits, Reached, Leftover, Frozen
  <2> QED BY <2>1, <2>2
<1>12. PushesFit'
  <2>1. \A x \in p.refs : ref'[x] \in {Old(p, x), p.next}
      BY <1>1, <1>4 DEF PushFits, PushRecord
  <2>2. Branch \in q.refs => Extends(q)'
      BY <1>0, <1>1, <1>2 DEF PushFits, Extends, Ahead, Leftover, Alike, Frozen
  <2>5. p.by = "approval" /\ p.next = CaptureOf(s) => ref'[Branch] = CaptureOf(s)
      BY <1>4, <1>6, RefFacts
  <2>3. PushFits(q)'
      BY <1>0, <1>1, <1>2, <2>1, <2>2, <2>5 DEF PushFits, Alike, Pending, Candidate, Old, s
  <2>4. \A x \in locks' : x \in q.refs BY <1>0, <1>2, <1>3 DEF Fits, PushesFit, Alike
  <2> QED BY <1>3, <2>3, <2>4 DEF PushesFit
<1>13. Behind'
  <2>1. CASE r = Branch
    <3>1. CASE p.by = "approval"
      <4>1. Pending(s)' /\ ref'[Branch] = Candidate(s)'
          BY <1>0, <1>4, <1>6, <1>s, <2>1, <3>1 DEF Pending, Candidate
      <4> QED BY <4>1, <1>0, <1>1, <1>5 DEF Behind, s
    <3>2. CASE p.by # "approval"
      <4>1. q \in pushes' /\ q.by # "approval" /\ Branch \in q.refs /\ ref'[Branch] = q.next
          BY <1>2, <1>3, <1>4, <2>1, <3>2 DEF Alike
      <4> QED BY <4>1 DEF Behind
    <3> QED BY <3>1, <3>2
  <2>2. CASE r # Branch
    <3>1. ref'[Branch] = ref[Branch] BY <1>4, <2>2, RefFacts
    <3> QED BY <3>1, <1>0, <1>2, <1>3 DEF Fits, Behind, Pending, Candidate, Alike
  <2> QED BY <2>1, <2>2
<1>14. SealsStand'
  <2>1. CASE r = Branch
    <3>1. machine[s].ended => ref'[Branch] = CaptureOf(s) BY <1>4, <1>6, <1>s, <2>1
    <3>2. Frozen(s) => /\ ref'[Branch] \in OnTop(s) /\ ~sub[s].retained
                       /\ ref'[Branch] = ApprovalOf(s) => sub[s].verdict = "pass"
                       /\ unit.head = sub[s].parent
      <4>1. SUFFICES ASSUME Frozen(s)
                     PROVE  /\ p.next \in OnTop(s) /\ ~sub[s].retained
                            /\ p.next = ApprovalOf(s) => sub[s].verdict = "pass"
                            /\ unit.head = sub[s].parent
          BY <1>4, <2>1
      <4>2. CASE p.by = "approval"
        <5>1. p.old = machine[s].head BY <2>1, <4>2, <1>5 DEF Extends, Ahead, s
        <5> QED BY <4>2, <5>1, <1>6, <1>s, <2>1 DEF OnTop, Pending
      <4>3. CASE p.by = "shutdown"
        <5>1. sub[s].dirty /\ sub[s].parent = machine[s].head
            BY <4>1, <4>3, <1>s, <1>t, <2>1 DEF Leftover, SessionFits
        <5> QED BY <4>3, <5>1, <1>s, <1>t, <2>1, MadeOfLeftover DEF OnTop
      <4> QED BY <4>1, <4>2, <4>3, <1>s, <2>1
    <3> QED BY <1>0, <1>5, <1>t, <3>1, <3>2 DEF Fits, SealsStand, OnTop, Frozen
  <2>2. CASE r # Branch
    <3>1. ref'[Branch] = ref[Branch] BY <1>4, <2>2, RefFacts
    <3>2. ASSUME NEW t \in Sessions, t = unit.gen, sub[t].retained PROVE ref'[Approval(t)] = ref[Approval(t)]
      <4>1. t = s BY <3>2, <1>5
      <4>2. r # Approval(t) BY <3>2, <4>1, <1>6, <1>7, RefFacts DEF Pending
      <4> QED BY <4>2, <1>4, RefFacts
    <3> QED BY <3>1, <3>2, <1>0 DEF Fits, SealsStand, OnTop, Frozen
  <2> QED BY <2>1, <2>2
<1> QED BY <1>9, <1>10, <1>11, <1>12, <1>13, <1>14 DEF Fits

\* The only push there is ends, and the record with it is where the branch is.
LEMMA ReconcileKeeps ==
    ASSUME Fits, Types', NEW p \in pushes, Reconcile(p)
    PROVE  /\ Fits'
           /\ unit'.gen = unit.gen /\ unit'.head \in {unit.head, ref[Branch]} /\ ref' = ref
<1>0. /\ UNCHANGED <<sess, machine, ref, locks, sub>> /\ pushes' = pushes \ {p}
      /\ p.refs \cap locks = {}
      /\ unit' = IF Advances(p) THEN [unit EXCEPT !.head = p.next] ELSE unit
    BY DEF Reconcile, MayReconcile, hosting, git, server
<1>1. unit \in UnitRows /\ p \in PushRecord /\ PushFits(p) /\ p.session \in Sessions
    BY DEF Fits, PushesFit, Types, TypeOK, UnitRows, PushRecord
<1>2. pushes = {p} /\ pushes' = {} /\ locks' = {} BY <1>0 DEF Fits, PushesFit
<1>3. /\ unit'.gen = unit.gen /\ unit'.state = unit.state
      /\ unit'.head = IF Advances(p) THEN p.next ELSE unit.head
    BY <1>0, <1>1 DEF UnitRows
<1>4. Advances(p) => /\ p.by # "approval" /\ Branch \in p.refs /\ ref[Branch] = p.next
                     /\ p.session = unit.gen
    BY <1>1 DEF Advances, Outcome, PushFits
<1>s. Advances(p) => /\ Frozen(p.session) => ~sub[p.session].retained
    BY <1>1, <1>4 DEF PushFits, Extends, Ahead
<1>5. ~Advances(p) => ~(p.by # "approval" /\ Branch \in p.refs /\ ref[Branch] = p.next)
    BY DEF Advances, Outcome
<1>6. \A t \in Sessions : SessionFits(t)' BY <1>0, <1>3 DEF Fits, SessionFits, Pending, Frozen
<1>7. \A t \in Sessions : RefsFit(t)' BY <1>0 DEF Fits, RefsFit, Candidate
<1>8. BranchFits' BY <1>0, <1>3 DEF Fits, BranchFits, Reached, Leftover, Frozen
<1>9. PushesFit' BY <1>2 DEF PushesFit
<1>10. Behind'
  <2>1. CASE Advances(p) BY <2>1, <1>0, <1>3, <1>4 DEF Behind
  <2>2. CASE ~Advances(p) BY <2>2, <1>0, <1>2, <1>3, <1>5 DEF Fits, Behind, Pending, Candidate
  <2> QED BY <2>1, <2>2
<1>11. SealsStand' BY <1>0, <1>1, <1>3, <1>4, <1>s DEF Fits, SealsStand, OnTop, Frozen
<1> QED BY <1>0, <1>3, <1>4, <1>6, <1>7, <1>8, <1>9, <1>10, <1>11 DEF Fits

\* A kept approval is where the branch is.
LEMMA RetainKeeps ==
    ASSUME Fits, Types', NEW s \in Sessions, Retain(s)
    PROVE  /\ Fits'
           /\ unit'.gen = unit.gen /\ unit'.head = ref[Branch] /\ ref' = ref
<1>0. UNCHANGED <<sess, machine, ref, locks, pushes>> BY DEF Retain, hosting, git, server
<1>1. /\ unit'.gen = unit.gen /\ unit'.state = unit.state /\ unit'.head = Approved(s)
    BY DEF Retain, Fits, Types, TypeOK
<1>2. /\ sub'[s].asked = sub[s].asked /\ sub'[s].parent = sub[s].parent /\ sub'[s].dirty = sub[s].dirty
      /\ sub'[s].verdict = sub[s].verdict /\ sub'[s].retained
      /\ \A t \in Sessions : t # s => sub'[t] = sub[t]
  <2>1. sub \in SubmissionRows BY DEF Fits, Types, TypeOK, SubmissionRows
  <2>2. sub' = [sub EXCEPT ![s].retained = TRUE] BY DEF Retain
  <2> QED BY <2>1, <2>2 DEF SubmissionRows
<1>3. /\ Pending(s) /\ s = unit.gen /\ Unsettled = {} /\ unit.state = "closed"
      /\ ref[Branch] = Approved(s) /\ ref[Approval(s)] = Approved(s)
    BY DEF Retain, TurnFree, Unwritten, MayRetain, Pending
<1>4. sub[s].asked /\ Frozen(s) /\ sub[s].verdict = "pass" /\ ~machine[s].ended
    BY <1>3 DEF Fits, SessionFits, Pending
<1>5. pushes = {} BY <1>3, TheyAgree
<1>6. \A t \in Sessions : SessionFits(t)'
  <2>1. ASSUME NEW t \in Sessions, t # s PROVE SessionFits(t)'
      BY <2>1, <1>0, <1>1, <1>2 DEF Fits, SessionFits, Pending, Frozen
  <2>2. SessionFits(s)' BY <1>0, <1>1, <1>2, <1>3, <1>4 DEF Fits, SessionFits, Pending, Frozen
  <2> QED BY <2>1, <2>2
<1>7. \A t \in Sessions : RefsFit(t)' BY <1>0, <1>1, <1>2 DEF Fits, RefsFit, Candidate
<1>8. BranchFits' BY <1>0, <1>1, <1>2 DEF Fits, BranchFits, Reached, Leftover, Frozen
<1>9. PushesFit' BY <1>0, <1>5 DEF Fits, PushesFit
<1>10. Behind' BY <1>0, <1>1, <1>3 DEF Behind
<1>11. SealsStand' BY <1>0, <1>1, <1>2, <1>3, <1>4 DEF Fits, SealsStand, OnTop, Frozen
<1> QED BY <1>0, <1>1, <1>3, <1>6, <1>7, <1>8, <1>9, <1>10, <1>11 DEF Fits

-----------------------------------------------------------------------------
(* The invariant, and what follows of it.                                  *)

LEMMA FitsInit == Init => Fits
<1> SUFFICES ASSUME Init PROVE Fits OBVIOUS
<1> USE DEF Init
<1>1. Types
  <2>1. unit \in UnitRows /\ machine \in MachineRows /\ sub \in SubmissionRows
      BY CommitFacts, WritersAssumption DEF UnitRows, MachineRows, SubmissionRows, NoSubmission
  <2>2. ref \in [Refs -> Commits \cup {None}] /\ ref[Branch] = Base BY CommitFacts, RefFacts
  <2>3. faults \in 0..MaxFaults BY WritersAssumption
  <2>4. up \in BOOLEAN BY Zenon
  <2>5. events \in Seq([type : {"attached", "closed"}, session : Sessions, own : BOOLEAN]) OBVIOUS
  <2>6. sess \in [Sessions -> {"none", "offered", "attached", "closed"}] OBVIOUS
  <2>7. locks \subseteq Refs /\ pushes \subseteq PushRecord OBVIOUS
  <2> QED BY <2>1, <2>2, <2>3, <2>4, <2>5, <2>6, <2>7, CommitFacts
      DEF Types, TypeOK, UnitRows, MachineRows, SubmissionRows
<1>2. \A s \in Sessions : SessionFits(s) /\ RefsFit(s)
  <2> SUFFICES ASSUME NEW s \in Sessions PROVE SessionFits(s) /\ RefsFit(s) OBVIOUS
  <2>1. machine[s] = [head |-> Base, stopped |-> FALSE, ended |-> FALSE] /\ sub[s] = NoSubmission OBVIOUS
  <2>2. SessionFits(s) BY <2>1 DEF SessionFits, Pending, Frozen, NoSubmission, Base, Sessions
  <2>3. RefsFit(s) BY RefFacts DEF RefsFit
  <2> QED BY <2>2, <2>3
<1>3. BranchFits BY RefFacts DEF BranchFits, Base, Sessions
<1>4. PushesFit BY DEF PushesFit
<1>5. Behind BY RefFacts DEF Behind
<1>6. SealsStand BY DEF SealsStand, Sessions
<1> QED BY <1>1, <1>2, <1>3, <1>4, <1>5, <1>6 DEF Fits

LEMMA FitsStep == Fits /\ [Next]_vars => Fits'
<1> SUFFICES ASSUME Fits, [Next]_vars PROVE Fits' OBVIOUS
<1>1. CASE UNCHANGED vars
  <2>1. Types' BY <1>1 DEF Fits, Types, TypeOK, vars, hosting, git, server
  <2>2. Quiet BY <1>1, SamePushes DEF Fits, Quiet, vars, hosting, git, server
  <2> QED BY <2>1, <2>2, QuietKeeps
<1>2. CASE Next
  <2>1. Types' BY <1>2, TypesStep
  <2> QED
    BY <1>2, <2>1, ServerIsQuiet, GitIsQuiet, QuietKeeps, WorkKeeps, StopKeeps, EndKeeps, SubmitKeeps,
       FreezeKeeps, VerdictKeeps, AcknowledgeIsQuiet, OfferKeeps, ReceiveKeeps, MaterializeKeeps, WriteKeeps, ReconcileKeeps,
       RetainKeeps
    DEF Next, GitMoves, Recover
<1> QED BY <1>1, <1>2

LEMMA FitsAlways == Spec => []Fits
BY FitsInit, FitsStep, PTL DEF Spec

\* The unit, its sessions, checkouts and submissions, the refs and the pushes keep their types.
THEOREM TypeCorrect == Spec => []TypeOK
<1>1. Fits => TypeOK BY DEF Fits, Types
<1> QED BY <1>1, FitsAlways, PTL

\* Once no push is open, the record and Git agree and no lock file is left, and no push ended
\* where neither of its commits is: no outcome is read as a conflict, whenever Git was killed.
THEOREM RecordAgreesCorrect == Spec => []RecordAgrees
<1>1. Fits => RecordAgrees
  <2> SUFFICES ASSUME Fits PROVE RecordAgrees OBVIOUS
  <2>1. ASSUME Unsettled = {} PROVE locks = {} BY <2>1, TheyAgree DEF Fits, PushesFit
  <2>2. ASSUME Unsettled = {}, unit.head # ref[Branch]
        PROVE  \E s \in Sessions : /\ s = unit.gen /\ sub[s].verdict = "pass" /\ ~sub[s].retained
                                   /\ ref[Branch] = Candidate(s)
      BY <2>2, TheyAgree DEF Pending
  <2>3. \A p \in pushes : ~Conflicting(p) BY DEF Fits, PushesFit, PushFits, Conflicting, Outcome
  <2> QED BY <2>1, <2>2, <2>3 DEF RecordAgrees
<1> QED BY <1>1, FitsAlways, PTL

\* A commit that was sealed, by a writer that ended or a submission that froze, stays where it is
\* until the next writer starts, but for the one commit of what was left there: the capture of
\* that machine's shutdown, or the approval of what passed.
THEOREM SealsStandCorrect == Spec => []SealsStand
<1>1. Fits => SealsStand BY DEF Fits
<1> QED BY <1>1, FitsAlways, PTL

\* A write of the branch extends the commit on record by one of the current writer's.
LEMMA WriteExtends ==
    ASSUME Fits, NEW p \in pushes, NEW r \in p.refs, Write(p, r)
    PROVE  /\ UNCHANGED unit
           /\ \/ r # Branch /\ ref'[Branch] = ref[Branch]
              \/ /\ r = Branch /\ unit.head = ref[Branch] /\ ref'[Branch][1] = unit.gen
                 /\ ref[Branch][1] = unit.gen => ref'[Branch][2] > ref[Branch][2]
<1>1. PushFits(p) /\ p \in PushRecord /\ r \in Refs /\ ref \in [Refs -> Commits \cup {None}]
    BY DEF Fits, PushesFit, Types, TypeOK, PushRecord
<1>2. UNCHANGED unit /\ ref' = [ref EXCEPT ![r] = p.next] /\ ref[r] # p.next BY DEF Write
<1>3. CASE r # Branch BY <1>1, <1>2, <1>3, RefFacts
<1>4. CASE r = Branch
  <2>1. Extends(p) /\ ref[Branch] = p.old /\ p.session = unit.gen BY <1>1, <1>2, <1>4 DEF PushFits, Old
  <2>2. ref'[Branch] = p.next BY <1>1, <1>2, <1>4
  <2> QED BY <1>2, <1>4, <2>1, <2>2 DEF Extends
<1> QED BY <1>3, <1>4

\* Each step hands the branch over, extends it, learns of it or leaves it.
LEMMA StepKeeps ==
    ASSUME Fits, [Next]_vars
    PROVE  B!Keep \/ UNCHANGED B!vars
<1> USE DEF B!Keep, B!HandOver, B!Extend, B!Learn, B!vars, B!Writer, B!Number
<1>1. ASSUME Quiet PROVE UNCHANGED B!vars BY <1>1 DEF Quiet
<1>2. CASE UNCHANGED vars BY <1>2 DEF vars, git
<1>3. CASE Next
  <2>0. Types' BY <1>3, TypesStep
  <2>u. unit \in UnitRows BY DEF Fits, Types, TypeOK, UnitRows
  <2>1. ASSUME NEW s \in Sessions, Offer(s) PROVE B!HandOver
    <3>1. unit.head = ref[Branch] /\ unit'.gen = unit.gen + 1 BY <2>0, <2>1, OfferKeeps
    <3>2. unit'.head = unit.head /\ ref' = ref BY <2>1, <2>u DEF Offer, Moved, UnitRows, git
    <3> QED BY <3>1, <3>2
  <2>2. ASSUME NEW s \in Sessions, Work(s) \/ Stop(s) \/ EndWriter(s) \/ Materialize(s) PROVE UNCHANGED B!vars
      BY <2>2, <2>u, UnitTypes DEF Work, Stop, EndWriter, Materialize, git
  <2>3. ASSUME NEW s \in Sessions,
               \/ Freeze(s)
               \/ \E dirty \in BOOLEAN : Submit(s, dirty)
               \/ \E verdict \in {"pass", "fail"} : Verdict(s, verdict)
        PROVE  UNCHANGED B!vars
      BY <2>3, SubmissionSteps
  <2>4. ASSUME NEW s \in Sessions, NEW by \in {"agent", "capture", "recovery", "shutdown"}, Receive(by, s)
        PROVE  UNCHANGED B!vars
      BY <2>4 DEF Receive, git
  <2>5. ASSUME NEW s \in Sessions, Retain(s) PROVE B!Learn BY <2>0, <2>5, RetainKeeps
  <2>6. ASSUME NEW p \in pushes, Reconcile(p) PROVE B!Learn \/ UNCHANGED B!vars
      BY <2>0, <2>6, ReconcileKeeps
  <2>7. ASSUME NEW p \in pushes, NEW r \in p.refs, Write(p, r) PROVE B!Extend \/ UNCHANGED B!vars
      BY <2>7, WriteExtends
  <2> QED
    BY <1>1, <1>3, <2>1, <2>2, <2>3, <2>4, <2>5, <2>6, <2>7, ServerIsQuiet, GitIsQuiet, AcknowledgeIsQuiet
    DEF Next, GitMoves, Recover
<1> QED BY <1>2, <1>3

\* Whoever pushes, whatever is killed and whenever the server crashes, the branch belongs to one
\* writer at a time, only its commits extend it, from the commit on record, and it changes hands
\* only where the record and Git agree.
THEOREM CodeWritersKeepPromise == Spec => KeepsPromise
<1>1. Init => B!Start BY RefFacts DEF Init, B!Start
<1>2. Fits /\ [Next]_vars => [B!Keep]_(B!vars) BY StepKeeps
<1> QED BY <1>1, <1>2, FitsAlways, PTL DEF Spec, KeepsPromise, B!Promise
=============================================================================

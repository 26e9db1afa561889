----------------------------- MODULE CodeWriters -----------------------------
(***************************************************************************)
(* The work branch of one unit: the writer generations that own it         *)
(* (packages/code, writers.ts), the pushes to it through Git's own receive *)
(* (store/http.ts), the machine that ends a visit and captures what it     *)
(* left when it is shut down (driver/transfer.ts) and the submissions and  *)
(* approvals made of it (packages/code-work).  A Git process asks the      *)
(* server twice, before it takes its objects and before it moves a ref,    *)
(* and outlives a server that crashes.                                     *)
(*                                                                         *)
(* A session bears the number of its writer generation: an offer that is   *)
(* refused takes both back.  Content checks, merges, quarantines, the      *)
(* uploads of earlier versions and what a cleanup may do for a writer that *)
(* is not the last any more (its archive, its generation moved back to it) *)
(* are left out.                                                           *)
(***************************************************************************)
EXTENDS Naturals, Sequences, FiniteSets

CONSTANTS
    MaxSessions,    \* bound: writable sessions of the unit
    MaxCommits,     \* bound: commits a session makes
    MaxFaults       \* bound: crashes, abandoned requests and killed approvals

ASSUME WritersAssumption == MaxSessions \in Nat /\ MaxCommits \in Nat /\ MaxFaults \in Nat

Sessions == 1..MaxSessions

\* A commit is the session it is of and its place there; the last two places are the commits
\* made of the tree it left: by its approval, and by the capture of its machine's shutdown.
Base == <<0, 0>>
None == <<0, 1>>
Commits == {Base} \cup (Sessions \X (1..MaxCommits + 2))
ApprovalOf(s) == <<s, MaxCommits + 1>>
CaptureOf(s) == <<s, MaxCommits + 2>>

Branch == <<"branch", 0>>
Submission(s) == <<"submission", s>>
Approval(s) == <<"approval", s>>
Refs == {Branch} \cup ({"submission", "approval"} \X Sessions)

VARIABLES
    unit,           \* code_workspaces: generation, writer's state, head; late: the grace is over
    sess,           \* the sessions: none, offered, attached, closed
    machine,        \* each session's checkout: its head, whether its process stopped, what it was told
    events,         \* session events the consumer code.writers.v1 has not handled
    ref,            \* Git: what each ref names
    locks,          \* Git: the refs whose lock file exists
    pushes,         \* code_git_pushes, each with its Git process; one that is settled and gone is dropped
    sub,            \* code_submissions, code_approval_milestones and the receipts of captures, by session
    up,             \* whether the server runs
    faults          \* what MaxFaults counts

git == <<ref, locks>>
hosting == <<sess, machine, events>>
server == <<up, faults>>
vars == <<unit, hosting, git, pushes, sub, server>>

NoSubmission == [asked |-> FALSE, parent |-> None, dirty |-> FALSE, verdict |-> "none", retained |-> FALSE,
                 captured |-> FALSE]

Init ==
    /\ unit = [gen |-> 0, state |-> "idle", head |-> Base, late |-> FALSE]
    /\ sess = [s \in Sessions |-> "none"]
    /\ machine = [s \in Sessions |-> [head |-> Base, stopped |-> FALSE, ended |-> FALSE]]
    /\ events = <<>>
    /\ ref = [r \in Refs |-> IF r = Branch THEN Base ELSE None]
    /\ locks = {}
    /\ pushes = {}
    /\ sub = [s \in Sessions |-> NoSubmission]
    /\ up = TRUE
    /\ faults = 0

Unsettled == {p \in pushes : p.status = "prepared"}
Live(s) == sess[s] \in {"offered", "attached"}
Frozen(s) == sub[s].parent # None

-----------------------------------------------------------------------------
(* Writer generations.                                                     *)

\* move(): the clock of a state starts with it.
Moved(to) == [unit EXCEPT !.state = to, !.late = FALSE]

\* requireSettled(): an approval still being committed holds the branch.
Settled == \A s \in Sessions : sub[s].verdict = "pass" => sub[s].retained

\* mutant: the trigger is dropped
Mutant_NoneInFlight == TRUE

\* The trigger code_git_generation_guard: no new generation while a push has not settled.
NoneInFlight == Unsettled = {}

\* reserveWriter() as an offer asks for it, after requireLeasable().
Reservable == unit.state \in {"idle", "closed"} /\ NoneInFlight

\* The step is free once every earlier session is closed and no review of its work is open.
StepFree == \A s \in Sessions : ~Live(s) /\ (sub[s].asked => sub[s].verdict # "none")

Offer(s) ==
    /\ up /\ StepFree /\ Settled /\ Reservable
    /\ s = unit.gen + 1
    /\ unit' = [Moved("reserved") EXCEPT !.gen = s]
    /\ sess' = [sess EXCEPT ![s] = "offered"]
    /\ machine' = [machine EXCEPT ![s].head = unit.head]
    /\ UNCHANGED <<events, git, pushes, sub, server>>

\* The machine made the checkout: session.workspace_attached.
Attach(s) ==
    /\ up /\ sess[s] = "offered"
    /\ sess' = [sess EXCEPT ![s] = "attached"]
    /\ events' = Append(events, [type |-> "attached", session |-> s, own |-> FALSE])
    /\ UNCHANGED <<unit, machine, git, pushes, sub, server>>

\* closeSession(): by the worker's own hand, or because it was stopped, lapsed or given up.
CloseSession(s, own) ==
    /\ up /\ Live(s) /\ (own => sess[s] = "attached")
    /\ sess' = [sess EXCEPT ![s] = "closed"]
    /\ events' = Append(events, [type |-> "closed", session |-> s, own |-> own])
    /\ UNCHANGED <<unit, machine, git, pushes, sub, server>>

\* sessionChanged(): only the current generation's session moves it.
Changed(event) ==
    IF event.session # unit.gen THEN unit
    ELSE IF event.type = "attached" THEN (IF unit.state = "reserved" THEN Moved("active") ELSE unit)
    ELSE IF unit.state \notin {"reserved", "active"} THEN unit
    ELSE Moved(IF event.own /\ unit.state = "active" THEN "closing" ELSE "closed")

Heard ==
    /\ up /\ events # <<>>
    /\ unit' = Changed(Head(events))
    /\ events' = Tail(events)
    /\ UNCHANGED <<sess, machine, git, pushes, sub, server>>

\* finalizeGraceSeconds after the generation began to close.
GraceEnds ==
    /\ unit.state = "closing" /\ ~unit.late
    /\ unit' = [unit EXCEPT !.late = TRUE]
    /\ UNCHANGED <<hosting, git, pushes, sub, server>>

\* expire(), each sweep.
Expire ==
    /\ up /\ unit.state = "closing" /\ unit.late
    /\ unit' = Moved("closed")
    /\ UNCHANGED <<hosting, git, pushes, sub, server>>

\* settle() with the head its caller expects: refused, or the generation is closed.
MaySettle(s, head) ==
    /\ unit.gen = s /\ unit.head = head
    /\ \/ unit.state \in {"closed", "reserved", "active"}
       \/ unit.state = "closing" /\ ~unit.late

SettledWriter == IF unit.state = "closed" THEN unit ELSE Moved("closed")

-----------------------------------------------------------------------------
(* The machine: its agent commits and submits, and then is stopped.        *)

Work(s) ==
    LET made == IF machine[s].head[1] = s THEN machine[s].head[2] ELSE 0 IN
    /\ sess[s] # "none" /\ ~machine[s].stopped /\ made < MaxCommits
    /\ machine' = [machine EXCEPT ![s].head = <<s, made + 1>>]
    /\ UNCHANGED <<unit, sess, events, git, pushes, sub, server>>

Stop(s) ==
    /\ sess[s] # "none" /\ ~machine[s].stopped
    /\ machine' = [machine EXCEPT ![s].stopped = TRUE]
    /\ UNCHANGED <<unit, sess, events, git, pushes, sub, server>>

\* expect(), as the worker hands its work over; dirty: its tree is not its last commit's.
Submit(s, dirty) ==
    /\ up /\ sess[s] = "attached" /\ ~machine[s].stopped /\ ~sub[s].asked
    /\ unit.gen = s /\ unit.state \in {"reserved", "active"}
    /\ unit' = IF unit.state = "reserved" THEN Moved("active") ELSE unit
    /\ sub' = [sub EXCEPT ![s].asked = TRUE, ![s].dirty = dirty]
    /\ UNCHANGED <<hosting, git, pushes, server>>

\* finishSession() of a checkout nothing was submitted from, and the route 'end'.
EndWriter(s) ==
    /\ up /\ machine[s].stopped /\ ~sub[s].asked /\ ~machine[s].ended
    /\ machine[s].head = unit.head
    /\ MaySettle(s, unit.head)
    /\ unit' = SettledWriter
    /\ machine' = [machine EXCEPT ![s].ended = TRUE]
    /\ UNCHANGED <<sess, events, git, pushes, sub, server>>

\* freeze(): both refs are kept, and the writer ends at the submission's parent.
Freeze(s) ==
    /\ up /\ machine[s].stopped /\ sub[s].asked /\ ~Frozen(s)
    /\ ref[Submission(s)] = machine[s].head
    /\ MaySettle(s, machine[s].head)
    /\ unit' = SettledWriter
    /\ sub' = [sub EXCEPT ![s].parent = machine[s].head]
    /\ UNCHANGED <<hosting, git, pushes, server>>

-----------------------------------------------------------------------------
(* Pushes: whom the server lets push, asked before the objects are taken   *)
(* and again when Git has the locks and is about to move the refs.         *)

\* live(): what each credential is good for.
Entitled(by, s) ==
    /\ unit.gen = s
    /\ \/ by = "agent" /\ Live(s) /\ unit.state \in {"reserved", "active"}
       \/ by = "capture" /\ unit.state \in {"reserved", "active"}
       \/ by = "capture" /\ unit.state = "closing" /\ ~unit.late
       \/ by = "recovery" /\ unit.state = "closed" /\ ~Live(s) /\ unit.head = machine[s].head
       \/ by = "shutdown" /\ unit.state \in {"closing", "closed"} /\ \A t \in Sessions : ~Live(t)

\* fenced() of a push the worker's own credential makes: the commit it builds on is the head.
Fenced(p) == p.by = "agent" => unit.head = p.old

Authorized(p) == Entitled(p.by, p.session) /\ Fenced(p)

\* fenced() also opens a generation its attachment has not opened yet.
Opened(p) ==
    IF p.by = "agent" /\ unit.state = "reserved" THEN Moved("active") ELSE unit

\* What a push of a session brings: its checkout's head, or a commit of the tree left there.
Brought(by, s) == IF by = "shutdown" THEN CaptureOf(s) ELSE machine[s].head

\* What it would write: that commit, wherever it is not yet.
Written(by, s) ==
    {r \in (CASE by \in {"agent", "shutdown"} -> {Branch}
              [] by = "capture" -> IF sub[s].asked THEN {Branch, Submission(s)} ELSE {Branch}
              [] by = "recovery" -> {Submission(s)}) : ref[r] # Brought(by, s)}

\* The agent and its machine push while the process runs; a capture needs it stopped, the
\* recovery of a submission a checkout with no commit of its own, and the capture of a
\* shutdown a checkout that is settled, at the branch, with a tree its head has not.
Pushing(by, s) ==
    /\ by = "agent" => ~machine[s].stopped
    /\ by \in {"capture", "recovery"} => machine[s].stopped /\ ~Frozen(s) /\ ~machine[s].ended
    /\ by = "recovery" => sub[s].asked /\ machine[s].head[1] # s
    /\ by = "shutdown" =>
        /\ machine[s].ended \/ (Frozen(s) /\ sub[s].dirty)
        /\ ref[Branch] = machine[s].head

\* handle() in the project's turn, after recoverProject() settled all that came before.
TurnFree == up /\ Unsettled = {}

Receive(by, s) ==
    /\ TurnFree
    /\ Pushing(by, s) /\ Entitled(by, s)
    /\ Written(by, s) # {}
    /\ pushes' = pushes \cup {[by |-> by, session |-> s, refs |-> Written(by, s), next |-> Brought(by, s),
                               old |-> ref[Branch], git |-> "receiving", served |-> TRUE, status |-> "prepared"]}
    /\ UNCHANGED <<unit, hosting, git, sub, server>>

Becomes(p, q) == pushes' = (pushes \ {p}) \cup {q}

\* What a ref of the push named when it began: a submission and an approval are new.
Old(p, r) == IF r = Branch THEN p.old ELSE None

\* The pre-receive hook: admitPush(), and the fence again in the journal's transaction.
Admit(p) ==
    /\ p.git = "receiving" /\ p.served /\ up
    /\ Authorized(p)
    /\ Branch \in p.refs => unit.head = p.old
    /\ \A r \in p.refs : ref[r] = Old(p, r)
    /\ unit' = Opened(p)
    /\ Becomes(p, [p EXCEPT !.git = "admitted"])
    /\ UNCHANGED <<hosting, git, sub, server>>

\* The reference-transaction hook, with the lock files made and the old values checked.
\* An approval is the server's own transaction, which asks nobody.
Prepare(p) ==
    /\ p.git = "admitted"
    /\ p.refs \cap locks = {}
    /\ \A r \in p.refs : ref[r] = Old(p, r)
    /\ p.by # "approval" => p.served /\ up /\ Authorized(p)
    /\ unit' = Opened(p)
    /\ locks' = locks \cup p.refs
    /\ Becomes(p, [p EXCEPT !.git = "sure"])
    /\ UNCHANGED <<hosting, ref, sub, server>>

\* Git moves its refs one after another and needs no server to.
Write(p, r) ==
    /\ p.git = "sure" /\ r \in p.refs /\ ref[r] # p.next
    /\ ref' = [ref EXCEPT ![r] = p.next]
    /\ locks' = locks \ {r}
    /\ Becomes(p, [p EXCEPT !.git = IF \A q \in p.refs : ref'[q] = p.next THEN "gone" ELSE "sure"])
    /\ UNCHANGED <<unit, hosting, sub, server>>

\* The process ends short of that: refused by a hook or left without one, cut off with its
\* client, or killed, when its lock files stay behind.  A server's own only fails as it does.
Die(p) ==
    /\ p.git # "gone"
    /\ \/ p.by # "approval" \/ ~p.served
       \/ faults < MaxFaults
    /\ faults' = IF p.by = "approval" /\ p.served THEN faults + 1 ELSE faults
    /\ Becomes(p, [p EXCEPT !.git = "gone"])
    /\ UNCHANGED <<unit, hosting, git, sub, up>>

-----------------------------------------------------------------------------
(* What happened to a push is read off the refs, when its Git is gone.     *)

\* mutant: only the request that began a push settles it
Mutant_MayReconcile(p) == up /\ p.served /\ p.git = "gone"

\* mutant: the Git of an earlier server is not waited for
Mutant_NotWaited(p) == up /\ (p.served => p.git = "gone")

\* reconcile() in the request's own turn, or the sweep's and every later request's;
\* waitGitOwner(): no process holds the push's FIFO any more.
MayReconcile(p) == up /\ p.git = "gone"

Outcome(p, r) ==
    IF ref[r] = p.next THEN "applied" ELSE IF ref[r] = Old(p, r) THEN "rejected" ELSE "conflict"

\* Refs that name neither end of their update would keep the push open for an operator.
Conflicting(p) == \E r \in p.refs : Outcome(p, r) = "conflict"

\* Lock files of an interrupted transaction go before the journal is closed.
CleanUp(p) ==
    /\ p.status = "prepared" /\ MayReconcile(p) /\ ~Conflicting(p)
    /\ p.refs \cap locks # {}
    /\ locks' = locks \ p.refs
    /\ UNCHANGED <<unit, hosting, ref, pushes, sub, server>>

\* advanced(): the head is what the branch was moved to; an approval's is told later.
Advances(p) == p.by # "approval" /\ Branch \in p.refs /\ Outcome(p, Branch) = "applied"

Reconcile(p) ==
    /\ p.status = "prepared" /\ MayReconcile(p) /\ ~Conflicting(p)
    /\ p.refs \cap locks = {}
    /\ Advances(p) => unit.gen = p.session
    /\ unit' = IF Advances(p) THEN [unit EXCEPT !.head = p.next] ELSE unit
    /\ IF p.git = "gone" THEN pushes' = pushes \ {p} ELSE Becomes(p, [p EXCEPT !.status = "settled"])
    /\ UNCHANGED <<hosting, git, sub, server>>

\* The request fails while its Git runs, its wait timed out or its journal could not be written.
GiveUp(p) ==
    /\ up /\ p.served /\ faults < MaxFaults
    /\ faults' = faults + 1
    /\ Becomes(p, [p EXCEPT !.served = FALSE])
    /\ UNCHANGED <<unit, hosting, git, sub, up>>

Crash ==
    /\ up /\ faults < MaxFaults
    /\ up' = FALSE
    /\ faults' = faults + 1
    /\ pushes' = {[p EXCEPT !.served = FALSE] : p \in pushes}
    /\ UNCHANGED <<unit, hosting, git, sub>>

Restart ==
    /\ ~up
    /\ up' = TRUE
    /\ UNCHANGED <<unit, hosting, git, pushes, sub, faults>>

-----------------------------------------------------------------------------
(* Submissions: judged, and once approved committed to the branch.         *)

\* The review of the step passes only a frozen submission; approve() queues it.
Verdict(s, verdict) ==
    /\ up /\ sub[s].asked /\ sub[s].verdict = "none"
    /\ verdict = "pass" => Frozen(s)
    /\ sub' = [sub EXCEPT ![s].verdict = verdict]
    /\ UNCHANGED <<unit, hosting, git, pushes, server>>

\* The commit of the reviewed tree: its parent when that has the same one.
Candidate(s) == IF sub[s].dirty THEN ApprovalOf(s) ELSE sub[s].parent

\* The commit a submission is approved as: the one kept already, the one the branch was taken to
\* since it froze, or that of its tree.
Approved(s) ==
    CASE ref[Approval(s)] # None -> ref[Approval(s)]
      [] ref[Approval(s)] = None /\ ref[Branch] # sub[s].parent -> ref[Branch]
      [] OTHER -> Candidate(s)

\* mutant: where the branch is now is not asked
Mutant_NoConflict(s) ==
    Approved(s) = Candidate(s) \/ (Approved(s) = CaptureOf(s) /\ sub[s].captured)

\* code_head_conflict: a commit that is not the approval's own needs the receipt of the capture
\* that made it, and the branch is nowhere else.
NoConflict(s) ==
    /\ Approved(s) = Candidate(s) \/ (Approved(s) = CaptureOf(s) /\ sub[s].captured)
    /\ ref[Branch] \in {sub[s].parent, Approved(s)}

Unwritten(s) == {r \in {Branch, Approval(s)} : ref[r] # Approved(s)}

\* acknowledge() of a capture that reached the branch: its receipt.
Acknowledge(s) ==
    /\ TurnFree
    /\ unit.gen = s /\ unit.state = "closed" /\ ~sub[s].captured
    /\ ref[Branch] = CaptureOf(s) /\ unit.head = CaptureOf(s)
    /\ sub' = [sub EXCEPT ![s].captured = TRUE]
    /\ UNCHANGED <<unit, hosting, git, pushes, server>>

\* materializeSubmission(), at a wake or its retry: what of its refs is missing.
Materialize(s) ==
    /\ TurnFree
    /\ sub[s].verdict = "pass" /\ ~sub[s].retained
    /\ NoConflict(s)
    /\ Unwritten(s) # {}
    /\ pushes' = pushes \cup {[by |-> "approval", session |-> s, refs |-> Unwritten(s), next |-> Approved(s),
                               old |-> ref[Branch], git |-> "admitted", served |-> TRUE, status |-> "prepared"]}
    /\ UNCHANGED <<unit, hosting, git, sub, server>>

\* Git kept it: acceptFrozen() tells the head, unless a newer writer has the branch.
MayRetain(s) ==
    /\ unit.gen = s /\ unit.state = "closed"
    /\ unit.head \in {sub[s].parent, Approved(s)}

Retain(s) ==
    /\ TurnFree
    /\ sub[s].verdict = "pass" /\ ~sub[s].retained
    /\ NoConflict(s) /\ Unwritten(s) = {}
    /\ MayRetain(s)
    /\ unit' = [unit EXCEPT !.head = Approved(s)]
    /\ sub' = [sub EXCEPT ![s].retained = TRUE]
    /\ UNCHANGED <<hosting, git, pushes, server>>

-----------------------------------------------------------------------------
\* What Code, its sweep and its wakes do by themselves.
GitMoves(p) == Admit(p) \/ Prepare(p) \/ (\E r \in p.refs : Write(p, r)) \/ Die(p)
Recover(p) == CleanUp(p) \/ Reconcile(p)

Next ==
    \/ \E s \in Sessions :
        \/ Offer(s) \/ Attach(s) \/ Work(s) \/ Stop(s)
        \/ EndWriter(s) \/ Freeze(s) \/ Acknowledge(s) \/ Materialize(s) \/ Retain(s)
        \/ \E own \in BOOLEAN : CloseSession(s, own)
        \/ \E dirty \in BOOLEAN : Submit(s, dirty)
        \/ \E by \in {"agent", "capture", "recovery", "shutdown"} : Receive(by, s)
        \/ \E verdict \in {"pass", "fail"} : Verdict(s, verdict)
    \/ \E p \in pushes : GitMoves(p) \/ Recover(p) \/ GiveUp(p)
    \/ Heard \/ GraceEnds \/ Expire \/ Crash \/ Restart

\* A Git process ends one way or another (its hooks and its own clocks see to it), a server
\* is started again, events are delivered, and the sweep and the wakes come round.
Fairness ==
    /\ WF_vars(\E p \in pushes : GitMoves(p))
    /\ WF_vars(\E p \in pushes : Recover(p))
    /\ SF_vars(\E s \in Sessions : Materialize(s) \/ Retain(s))
    /\ WF_vars(Heard) /\ WF_vars(GraceEnds) /\ WF_vars(Expire) /\ WF_vars(Restart)

Spec == Init /\ [][Next]_vars /\ Fairness

-----------------------------------------------------------------------------
PushRecord ==
    [by : {"agent", "capture", "recovery", "shutdown", "approval"}, session : Sessions, refs : SUBSET Refs,
     next : Commits, old : Commits, git : {"receiving", "admitted", "sure", "gone"},
     served : BOOLEAN, status : {"prepared", "settled"}]

TypeOK ==
    /\ unit \in [gen : 0..MaxSessions, state : {"idle", "reserved", "active", "closing", "closed"},
                 head : Commits, late : BOOLEAN]
    /\ sess \in [Sessions -> {"none", "offered", "attached", "closed"}]
    /\ machine \in [Sessions -> [head : Commits, stopped : BOOLEAN, ended : BOOLEAN]]
    /\ events \in Seq([type : {"attached", "closed"}, session : Sessions, own : BOOLEAN])
    /\ ref \in [Refs -> Commits \cup {None}]
    /\ locks \subseteq Refs
    /\ pushes \subseteq PushRecord
    /\ sub \in [Sessions -> [asked : BOOLEAN, parent : Commits \cup {None}, dirty : BOOLEAN,
                             verdict : {"none", "pass", "fail"}, retained : BOOLEAN, captured : BOOLEAN]]
    /\ up \in BOOLEAN /\ faults \in 0..MaxFaults

\* Once no push is open the record and Git agree: the head is where the branch is (or the
\* approved commit of the last submission is on its way to it), no lock file of a killed Git
\* blocks the next push, and no push ended where neither of its commits is.
RecordAgrees ==
    /\ Unsettled = {} =>
        /\ locks = {}
        /\ \/ unit.head = ref[Branch]
           \/ \E s \in Sessions :
                /\ s = unit.gen /\ sub[s].verdict = "pass" /\ ~sub[s].retained
                /\ ref[Branch] = Candidate(s)
    /\ \A p \in pushes : p.git = "gone" => ~Conflicting(p)

\* The commits of the tree a submission froze with, on top of its parent.
OnTop(s) == {c \in {ApprovalOf(s), CaptureOf(s)} : sub[s].dirty}

\* What was sealed stays: after a machine was told that its writer ended, and after a
\* submission froze, no late push moves the unit from that commit until the next writer
\* starts, whatever was in flight.  Two commits alone may follow, never both: the capture of
\* that machine's shutdown, made of what it left there, and the approval, of what passed; of a
\* submission each has the tree that froze.  Once an approval is kept, its ref, the branch and
\* the record name one commit, whichever of the two that is.
SealsStand ==
    \A s \in Sessions : unit.gen = s =>
        /\ machine[s].ended =>
            {unit.head, ref[Branch]} \subseteq {machine[s].head, CaptureOf(s)}
        /\ Frozen(s) =>
            /\ unit.state = "closed"
            /\ {unit.head, ref[Branch]} \subseteq {sub[s].parent} \cup OnTop(s)
            /\ ref[Branch] = ApprovalOf(s) => sub[s].verdict = "pass"
            /\ unit.head \in {sub[s].parent, ref[Branch]}
            /\ sub[s].retained => unit.head = ref[Branch] /\ ref[Approval(s)] = ref[Branch]

\* The branch of the unit is the promised one.
B == INSTANCE BranchPromise WITH tip <- ref[Branch], told <- unit.head, owner <- unit.gen
KeepsPromise == B!Promise

\* A capture took the branch before the approval had it, and has no receipt (its machine was
\* lost before it acknowledged) or came upon an approval that was killed half written.
Overtaken(s) == ref[Branch] = CaptureOf(s) /\ ~NoConflict(s)

\* Whatever is begun is finished: again and again no push is open, the writer of no closed
\* session is still ending and no approved submission is unkept, unless the capture of a
\* shutdown overtook it, though the server crashes and Git is killed on the way.
AtRest ==
    /\ Unsettled = {}
    /\ \A s \in Sessions :
        /\ unit.gen = s /\ sess[s] = "closed" => unit.state = "closed"
        /\ sub[s].verdict = "pass" => sub[s].retained \/ Overtaken(s)
AlwaysConcludes == []<>AtRest
=============================================================================

# Merv, modelled in TLA+

Merv runs research work for people and their agents. Work is a *workflow instance* that moves through a pinned
definition; each step of it is done by an agent under a *lease*, in a *session*, on a *runner*'s machine, and is
judged by an independent *review*. Everything that must last is in one PostgreSQL schema, everything that happens is
in one event log, and the parts react to each other by reading that log.

This directory holds TLA+ models of the parts of `merv-typescript/packages` in which several processes, retries,
crashes or long sequences of commands meet; the TLC instances that check them; and proofs, checked by TLAPS, of what
matters most about them. Paths below are relative to `merv-typescript/packages` unless they begin with `src/`.

## 1. What is modelled now

| Part | Modules | Checked by TLC | Proved by TLAPS |
| --- | --- | --- | --- |
| Domain Events (`domain-events`) | `EventDelivery` (abstract), `DomainEvents` | `events_two`, `events_drain`, `events_live`, `events_lost` | types, exactly once in order, retries, owners, awake, drain, refinement |
| Workflows (`workflows`) | `Workflows` | `workflows` | types, history, requests, limits, escalations, no cycle, no standstill, prerequisites, records stand |
| Runner launches (`runner`) | `LaunchPromise` (abstract), `Launches` | `launches_safe`, `launches_live`, `launches_boot` | types, accounted, one start, verdicts, refinement |
| Leases and reviews of a task (`sessions`, `workflows`, `reviews`, `tasks`, `scope`) | `ReviewPromise` (abstract), `WorkLeases` | `leases` | types, nothing stranded, judgement, fresh claims, refinement |
| The work branch of a unit (`code`, `code-work`, `sessions`) | `BranchPromise` (abstract), `CodeWriters` | `code` | types, record and Git agree, seals stand, refinement |
| Automatic dispatch (`sessions`) | `DispatchPromise` (abstract), `Dispatch` | `dispatch` | types, how the hold of a step is told, one session for a request, the cap holds, refinement |
| The tokens of the model relay (`fleet`) | `ModelLedger` | `ledger` | types, ledgers exact, nobody overspends, refusals stand, calls bounded |

`MC<Module>` gives a module its TLC instances (symmetry, views, sample definitions), `<Module>Proofs` holds its
theorems. `PROJECT.json` names, for every definition, the lines it stands for.

## 2. The system

### 2.1 Inventory

Of each component: the state it keeps, its operations, what it meets, what is hard about it, and what makes it
correct. Components of which the core is not a state machine with company are in 2.2.

**State** (`state/src/postgres.ts`). One PostgreSQL schema, a writer connection and a pool of readers. Operations:
`transaction` (takes the schema's advisory writer lock, so one writer runs at a time over all processes), `read`,
`snapshotTransaction`, `appendEvent`, `nextEvent`, `onEventsCommitted`. Hard: the answer to COMMIT may be lost, the
lock may not be granted in time, a reader sees an older snapshot than the writer that follows it. Correct when a
transaction is all or nothing and commits are seen in one order.

**Domain Events** (`domain-events/src/index.ts`). State: `event_consumers` (definition, cursor, attempts, retry_at)
and in each process the registrations, the timer, the running pass. Operations: `subscribe` and its disposer, `wake`,
`drain`, `close`, the pass (`deliver`, `advance`, `recordFailure`). Meets: every consumer of an event (Reviews,
Sessions, Workflows' leases, Code, Research...), whose handler runs in the delivery's own transaction. Hard: several
dispatchers on one database, unlocked reads used later, failures of the handler, of COMMIT, of its answer and of the
recording itself, a disposer that runs while its handler does, a wake that comes while a pass runs. Correct when each
event is handled once and in order by each consumer, `drain()` answers only what it did, nothing is forgotten.

**Workflows** (`workflows/src/commands.ts`, `dependencies.ts`, `limits.ts`, `definition.ts`). State: `wf_instances`,
`wf_history`, `wf_requests` (receipts), `wf_dependencies`, `wf_limit_grants`. Operations: `start`, `transition`,
`addDependencies`, `extendLimit`, `systemPrerequisites`. Meets: its owners (Tasks, Experiments, Reflections,
Research), whose rules admit a move, and whose `limitExtended` hook runs inside an extension. Hard: retries of
answered requests after the world moved on, two commands at one revision, rounds counted from the history, edges of
several owners. Correct when history is true and complete, a request acts once, no move passes a limit in force and a
stop at one is announced, no set of instances waits on itself, and nothing rests on work that did not succeed.

**Work leases** (`workflows/src/leases.ts`, `lease-rows.ts`). State: `wf_leases`, one live row per step revision.
Operations: `offerLease`, `checkLease`, `holdsLease`, `activateLease`, `releaseLease`, and the consumer of
`session.closed`. Meets: Sessions (whose session ID is the lease ID), Reviews (a lease of a review step is a claim).
Hard: the release is an event behind the close, by when the step may be leased again; a lease outlives the revision,
the registration or the permission it was taken under. Correct when one worker at a time may act on a step, and a
worker that lost it can do nothing.

**Reviews** (`reviews/src/claims.ts`, `requests.ts`). State: `reviews` (requested, started, submitted, superseded), the
claim and the event it was taken at. Operations: `request`, `start`, `submit`, `release`, the recovery consumers.
Meets: Tasks and Experiments (the verdict and the subject's move commit together), Scope (loss of a permission).
Hard: recovery that lags behind a restored permission and a new claim; a subject that moved; independence. Correct
when a verdict is given once, by an independent reviewer who held a live claim on exactly the revision judged.

**Tasks** (`tasks/src/commands.ts`, `lease.ts`). Deliveries and their evidence over Workflows, Reviews and leases.

**Sessions** (`sessions/src/dispatch.ts`, `index.ts`, `managed.ts`). State: `worker_sessions`, dispatch receipts,
holds, runners' presence. Operations: automatic and manual offers, `attach`, heartbeat, handoff, `halt`, sweep.
Meets: leases, Domain Events, the runner over HTTP, Fleet. Hard: a choice made under a snapshot and decided again by
the writer, capacity counted twice, failures counted in a second transaction, a runner that repeats its request.
Correct when a request is answered with one session, a step has one live session, and a step that cannot be done is
held and said so, without keeping a runner from the work behind it.

**Runner** (`runner/src/index.ts`, `process-host.ts`, `ledger.ts`, `supervisor.mjs`). State: a local SQLite ledger of
launches; a controller process, a guardian and a group owner for each launch. Operations: acquire, reconcile, launch,
inspect, stop, settle. Meets: Sessions over HTTP; its own processes over a socket, IPC, signals and the ledger. Hard:
each process dies alone, the machine reboots, an answer is late or lost, two guardians race, a row is read and used
later. Correct when a session's agent starts once and is never left running behind a launch recorded as ended.

**Fleet** (`fleet/src/index.ts`, `workflow.ts`, `model-ledger.ts`, `model-relay.ts`). Allocations of rented machines
and budgets of model tokens: reserve before a call, settle after its stream. Hard: calls in flight over two budgets
and midnight, crashes before settlement. Correct when no budget is ever passed and nothing settled twice.

**Code** (`code/src/store/`, `writers.ts`) and **Code work** (`code-work/src/`). State: Git repositories on disk;
`code_workspaces`, `code_git_pushes`, submissions and approvals in the database. A push is a Git process that asks the
server through two hooks, and a journal row that says how it ended. Hard: Git and the database cannot commit
together; Git outlives a server that crashes, or is killed with its lock files left; a writer's generation may close
during a push; a submission freezes the head that a late push could move. Correct when the record and Git agree
whenever no push is open, the branch has one writer at a time, and what was sealed
stays below what it grows by.

### 2.2 The rest

Scope, Identity (who may do what), Experiments, Research, Reflections (programs over Workflows, Reviews, leases),
the person's agent (`pi`), Artifacts, Blobs, Context Builder, API, Sandboxes, Customer experiments, Issues, Paper,
Board, Feed, Knowledge, Reports, Metrics, Mounts, Web, Nisa, Scripts, Secrets, Payments, Legacy history, Admin, UI,
Contracts, and outside `packages` the deployment, the clients' plugins, the website and the tools. Most keep rows that
one transaction writes, or carry bytes, pages and calls to services outside the repository. `PROJECT.json` says of
each why it is left out.

### 2.3 How the parts meet

```text
   runner ==HTTP==> Sessions --lease--> Work leases --slot--> Workflows <--moves-- Tasks, Experiments, ...
     |  launches       |  session.closed     |  claim             |  workflow.* events    |
     v                 v                     v                    v                       v
   agent            Domain Events -------> Reviews <--verdict with the move--------------+
                        ^  one event log, cursors
                        |
                      State: one writer at a time, commit or nothing
```

Three facts of `state/src/postgres.ts` shape every module. A write transaction holds the writer lock up to its
commit, so it is one step. A refused or failed one rolls back, so it is no step. And what an unlocked read saw may be
old when it is used, so such a read is a step of its own with its result kept in a variable.

## 3. Domain Events

`DomainEvents` is any number of processes (`Runtimes`), each with a dispatcher on one database. Its variables are the
tables and the fields of `DurableEvents`:

| Variable | Code |
| --- | --- |
| `log` | `events`; the ID is the position, the content its type |
| `definition`, `cursor`, `attempts`, `waiting` | the row of `event_consumers`; `waiting` is `retry_at` in the future |
| `effects` | what the consumer's handler committed, in that order |
| `registering`, `held`, `leaving` | `subscribe()` in flight, `this.consumers`, disposers that joined a delivery |
| `timer`, `wakeRequested`, `phase`, `pass` | `this.timer`, `this.wakeRequested` and the locals of `deliver()` |
| `wakes` | commits of the process's own State whose microtask has still to call `wake()` |
| `calls` | the callers of `drain()` and the passes they still wait for |
| `installed`, `blamed`, `faults` | history: where the installation began; the event the last failure names; failures so far |

A step is a transaction or the code between two awaits. A pass (`BeginPass`) reads the head (`ReadHead`), then rows
and next events without the lock (`ReadRows`), moves quiet consumers by one guarded statement (`PassQuiet`), and
offers each other consumer its events one transaction at a time (`Admit`, `Deliver`, `NothingLeft`); it ends in
another pass (`NextPass`) or in rest with the poll armed (`PassesEnd`). A commit is visible at once to every pool, and
its wake comes later (`Publish`, `WakeArrives`): a pass may read the event, deliver it or end in between. Only the wake
of a handler's own commit is part of its step, for the pass goes on after the same answer. `HandlerFails`,
`LookupFails`, `AnswerLost` and `MoveAnswerLost` (COMMIT done, the connection lost), `LockTimesOut`, `StorageFails` and
`Crash` are what goes wrong; `RecordFailure` is the second transaction after a failure. Time is left out: a timer that
is armed may fire, a retry may become due.

`EventDelivery` is the promise: a log, and cursors that visit a consumer's events one by one, each handler's effect
committed with the move. No dispatcher, pass, lock or failure is in it.

Runs:

- `events_two`: two dispatchers, one consumer, another connection that publishes, a crash or fault anywhere, batch
  of two, and a consumer that may come back with other types. `ExactlyOnceInOrder`, `RetryHasWork` (a failure is
  never recorded for an event delivered meanwhile, by this or another dispatcher),
  `NoWorkOutlivesItsOwner` (a disposer resolves only after the delivery it joined), `NeverAsleep`, and `Delivery`, the
  refinement. Two dispatchers are what every race needs: each step of one is a transaction or local. Two events are
  one to deliver and one that follows, and give a cursor three positions.
- `events_drain`: one dispatcher, two consumers, batch of one so that a backlog occurs at the second event, one caller
  of `drain()`. `DrainDelivers`, `SettledAtRest`. `DrainPasses` is 1 where the code has 16: the bound is a counter.
- `events_live`: one dispatcher under fairness, two possible subscriptions of one consumer. `Handled`, `DrainReturns`.
- `events_lost`: a **finding**. A delivery that fails before it has read its row (the lock is not granted), or whose
  answer is lost, is recorded nowhere; the pass goes on and `drain()` resolves without having delivered, where
  `domain-events/README.md` says that callers receive failures that cannot be recorded.

Fairness (`FairSpec`): timers fire and promises settle, so `TimerFires`, every step of a pass, `Registered`,
`DisposerResolves` and `Closed` are weakly fair; a stopped process is started again (`Initialize`), as its supervisor
does; a retry deadline passes. No caller has to call, publish, subscribe or close. The number of faults is bounded, as
a handler that fails for ever is not handled ever.

Proof (`DomainEventsProofs`). `IInv` strengthens `ExactlyOnceInOrder` by what a pass knows: its head was committed
(`PassFits`), the types it offers are those of the consumer's row (`HeldInv`, which rests on the definition never
changing), and what it saw to be quiet up to its head is quiet (the log only grows). `CoreInv` keeps the cursor at or
after the installation. `CoreSteps` separates the six steps that move the promise's variables from all others. The
refinement maps each of the six to a step of `EventDelivery` under the same invariant. `OwnerInv` is about one runtime
at a time (`OthersStill`: a runtime's step leaves the other dispatchers alone) and says which registrations a pass may
still offer, whom an admitted transaction works for, and when a timer is armed: `NothingOutlivesItsOwner` and
`AlwaysAwake` follow. `RetryInv` adds to `RetryHasWork` what a failed delivery noted: the cursor it read still has an
undelivered event behind it, as the log only grows, so a row found at that cursor owes that event. All hold for any
number of processes, consumers, types, events and faults.

An observation no run states: a delivery transaction whose database fails after it read its row (`LookupFails`,
`MoveAnswerLost`) is recorded against the consumer although no event failed. A consumer with nothing left may thus be in
retry, and is reported so, until the retry finds that out (and clears it only if the head has moved since).
`RetryHasWork` says that this takes such a failure, and names no event.

`DrainProofs` proves what a caller of `drain()` may rely on, under the assumption that there is one dispatcher, that
storage does not fail (`~StorageFaults`) and that a drain makes at least one pass: `DrainsDeliver`, and, where no
other connection publishes, `RestsSettled`, in which a wake may come at any time after its commit. Its invariant says
of every caller which passes cover it: a pass that began after the call has read a head at or after what the caller
asked for, and a consumer it left below that head has a failure recorded or a batch used up, which asks for another
pass. `events_lost` shows why the assumption on storage cannot be dropped. Nor can that of one dispatcher: with two
and sound storage, a handler of one fails, the other moves the cursor before the failure is written, and
`RecordFailure`, which asks that the cursor be the one attempted, records nothing; the pass then goes on and the first
`drain()` resolves with an event undelivered and no failure on record. The event is not lost: it stays ahead of the
cursor, and `AlwaysAwake` has a timer for it.

## 4. Workflows

`Workflows` is the tables of the engine and its commands, each one transaction: `Start`, `Transition`,
`AddDependencies`, `ExtendLimit` with the owner's `Resume` inside it, `ReplacePrerequisites` of a provider (Code work's
prerequisites, and any other `systemPrerequisites`), and `Replay` of an answered request. A caller may name any
revision and any action at any time; a refused command changes nothing and is no step.

What a version pins and what a program deploys are apart, as in the code. `Definition` is a constant: the graph and the
success states, which `persistContract` refuses to change, `WellFormed` as `validateDefinition` demands. The policy, with
its limits, its guarded actions and the edges its `limitExtended` hook takes, is deployed program code and not pinned:
`rules` holds the registered one of each version, and `Deploy` replaces it by another of the constant `Policies`, each of
them `Registrable` as `validatePolicy` and `validateLimits` demand. The instances stand where they stand and the next
command counts their rounds, from `history` as the code does, against the cap deployed now; a cap deployed today covers
rounds taken before it existed (`limits.ts:86-87`), so work may have more of them than it allows. `inherited` is history:
what `wf_history` held at the last deployment. A grant of n rounds is n records so that grants are counted rather than
added.

`Reached` is the recursive query of `attachDependencies`, as the least set closed under the edges. `admitted` is
history: which prerequisites each guarded move rested on. An owner's rule may refuse any move, so a move that the
engine admits is possible and never certain.

Runs:

Run `workflows` explores two families of states from one initial state; the constraint `StaysApart` leaves each family
to itself, so that neither is multiplied by the other.

- Rounds: one instance, seven requests, a task capped at one round or two, with a deployment of the other cap at any
  moment (`OneDeployment`), or a service task capped at one, for `HistoryExplains` (the history is one chain of the
  definition's moves, one row per revision, ending in the current state), `AppliedOnce`, `LimitsHold`,
  `EscalationHeard`. A deployment of the lower cap finds work with rounds to spare, at it and past it, under way to it
  and standing at it. One deployment is enough: `inherited` is all that is left of those before. The second disjuncts
  of `LimitsHold` and `EscalationHeard` are the work a deployment capped where it stands: it takes no further round
  (`LimitsHold`), and no event told of the stop, because the engine announces on arrival (`commands.ts:377`); the
  project's overview lists it (`escalated()`). Seven requests are enough to start, reach the cap, extend, go round
  again, reach it a second time and extend with a resume. `InOrder` makes each new command take the next unused
  request ID: the IDs are interchangeable, and a retry may name any used one.
- Plans: three instances, five requests, declared edges and one provider's, for `Acyclic` and `PrerequisitesStand`.
  The view `Standing` compares all variables in the first family, and in this one drops history, grants, escalations
  and the content of receipts: these definitions cap no edge, so nothing that follows and neither property depends on
  them. Three instances make the shortest cycle that no single command sees as such (two edges of different owners),
  and longer ones have the same last edge.

Safety only: the engine promises no progress.

Proof (`WorkflowsProofs`). Types carry `Finite` (history and grants are finite, so that counting means something).
`NoDeadlock`: `GraphInv` is `EdgesHeld` (both ends of every edge exist) and `NoCycle`; a new instance is on no cycle
because nothing pointed at it, and a new edge makes none because its source is not reached from its targets, which the
proof turns into a set closed under the old edges that contains the targets and not the source. `HistoryIsWhole`:
`ChainInv`, kept because a command appends the one row after the current revision. `WorkRestsOnSuccess`: terminal
states have no way out. `SomeWorkIsNext` says what the absence of a cycle is good for, that of any instances one waits
for none of the others: each instance has its first row in the finite history, so there are finitely many; what a
prerequisite reaches is strictly less than what its dependant reaches, and the strict subset ordering is well-founded
on a finite set. `RecordsStand` compares each step's tables with those before it: what was written is there
afterwards, and an instance that differs has a higher revision and had not ended. `LimitsKept`: `LimitInv`, from what
one more row does to a cardinality, and because a deployment finds no round it has not inherited (`DeployLimits`).
`RequestsApplyOnce`: a request without a receipt has left neither a row nor a grant (`NothingLeft`), so its first is
its only one; an extension that resumes work writes under two requests, which `RequestAssumption` says are two.
`StopsAreHeard`: work arrives at a cap by a move, whose row is the last of its chain, and no counted action stays in
its state (`CappedLeaves`), so later rows leave it there; after a deployment every row is one it found
(`DeployHeard`). All need only `DefinitionAssumption` (a registered definition is well formed, and whatever policies
are deployed can be registered with it), `NoneAssumption` and, for requests, `RequestAssumption`.

## 5. Runner launches

`Launches` is one launch: its row in the local ledger, and every process that may touch it.

| Variable | Code |
| --- | --- |
| `row`, `settled` | the row of `launches` (status, pinned command, boot identifier, `lostAt`); capture and release done |
| `ctl` | the controller's tick: where `reconcileLaunch` stands, and what it was answered |
| `inbox` | requests on the guardian's socket, and whether anybody still waits for the answer |
| `guardian`, `pinned`, `observed`, `shutdown`, `proof` | a guardian's phase and the locals of `supervisor.mjs` |
| `owner`, `agent`, `toOwner`, `toGuardian` | the group owner, the agent's process group, their IPC in order |
| `live`, `boot`, `losses`, `starts` | the session; the machine's boot; failures so far; history of starts |

The controller's actions follow `reconcileLaunch`: inspect, read the row, decide, prepare, launch or stop, with each
await between two actions. `ControllerDies` may come anywhere; the next one finds the row. Guardians race for the row
(`Claim`), listen, pin a command, spawn an owner and hear from it; an owner starts the agent, stops it, kills its
group, or dies. `Reboot` ends every process and keeps the ledger.

Abstractions. Answers and timeouts are not timed: a request may go unanswered at any moment, an armed timer may fire.
The deadline's value, and the message that extends it, are left out: a deadline may pass at any moment. `agent` is the
agent's process group with the descendants the owner finds; a detached job of an agent on a system without a
subreaper is missed by the code too, as its comments say. A tick handles one launch, launches share nothing but the
lock, and one controller runs at a time under that lock. `MaxRequests` bounds what a stalled guardian has not read;
a request beyond it counts as unreachable.

`LaunchPromise`: at most one start, and an end is recorded only when no process of the agent is left, after which
nothing starts.

Runs:

- `launches_safe`: two guardians, two versions of the command, one loss from outside, one reboot, readable boot
  identifiers. `Accounted` (whatever lives is what the row pins, under a row that is neither open nor ended),
  `StartedOnce`, `VerdictNeedsWitness` (an uncertain launch that pinned a command is decided only by its guardian or
  after a reboot that left none of its processes), `KeepsPromise`. Two guardians are enough for the race: one claims,
  and any other finds a claimed row. Two commands tell a pinned one from one rebuilt later.
- `launches_live`: one guardian, one loss, requests that go stale. `AgentsEnd`: no agent runs for ever, whatever the
  controller does. `Concluded`: once the session is over the launch is recorded as ended, or it is left to the operator.
- `launches_boot`: a **finding**. A boot identifier that one controller cannot read is left as it stands in the row;
  the row then names an earlier boot than that of the guardian it launches, and a later controller that can read the
  identifier, should the guardian not answer it, takes the living launch for one of an earlier boot and ends it.
  `ledger.ts` and the README say that an ended launch has nothing running.

Fairness: guardians and owners are processes with timers (claim, startup, launch and kill timeouts, the deadline), so
their steps that a timer or an event forces are weakly fair; of the controller nothing is assumed but in `Concluded`,
which names its assumption `ControllerFairness`: it stays up at last, the server says at some tick that the session
is over, and a minute passes between two ticks that find the guardian unreachable.

Proof (`LaunchesProofs`). `TypeCorrect` and `AgentStartsOnce` hold whether or not the boot can be read;
`LaunchIsAccounted`, `OnlyWitnessDecides` and `Implements` assume `~MayMissBoot`: `launches_boot` ends a living launch
that nobody has seen end. The inductive invariant `Inv`: `ShapeInv` (how far a guardian, its owner and its agent may
be apart), `RowInv` (**one** guardian has claimed the row, and the row pins what it launches), `EndInv` (an ended row
has nothing alive) and `BootInv` (whatever lives was started in the boot the row names), both only where boots can be
read, `StartInv` (the one start is the pinned one, and an unread start message means there was none). A row is ended
in four ways, and each rests on a part: a guardian's own verdict on `RowInv` and its kill proof, the cancellation on
nobody having claimed, the loss of a guardian on no command being pinned, the reboot on `BootInv`. One action of one
guardian leaves the others alone (`Steps(g)`), so each action is looked at for one guardian only.

## 6. Leases and reviews of a task

`WorkLeases` is one native Git task with everything that decides who may work on it and who may judge it: the sessions
and threads of Sessions, the lease rows of Workflows, the requests and claims of Reviews, the deliveries and moves of
Tasks, and the roles of Scope. Each of these is a table that several packages write, most of them in each other's
transactions; an action is one such transaction with all it calls.

| Variable | Code |
| --- | --- |
| `task`, `movers` | the `wf_instances` row with its review and rounds; `wf_history`: who made each move |
| `reviews` | `reviews`: status, revision, producers, holder, claim generation and the event it was taken at |
| `sess`, `thread` | `worker_sessions` and `session_threads`; a conversation may be kept or not |
| `lease` | `wf_leases`, with the claim a lease of a review names |
| `member` | memberships: the role of each person, and which membership it is of |
| `now`, `closes`, `losses`, `lost` | the log: place, events not yet consumed, the last loss of each actor |

Two consumers lag behind it: Workflows' of `session.closed` (`LeaseReleased`) and Reviews' of a lost permission
(`ClaimsReleased`). Their order and exactly-once handling are what section 3 shows; losses are handled in order for
each type, closes in any order.

Abstractions. A session's lapse and its close are one step, since a lapsed session is refused whatever it asks.
The event of a revoked worker that holds no claim is left out (`Concerned`): its consumer finds nothing. `closes`
keeps only the closes whose lease was left to the consumer, because the program was not loaded; otherwise the close
releases the lease itself. `now` counts only revocations and demotions. Whether a conversation was kept is open. What
Code requires of a commit or a capture only refuses, and is left out.

`ReviewPromise`: each delivery is judged at most once, by somebody who had no hand in it and who did not lose the right
to judge while holding it; the work is accepted only from a lease placed before the delivered code, or by the owner who
says so.

Run `leases`: an operator who owns the task and a reviewer who is demoted, removed and restored; three sessions, two
deliveries, two claims on a review, two turns of membership, the one round already spent so that a person's claim, the
cap and an extension all occur. Three sessions are a worker, a reviewer and one that replaces either.
`NothingStranded`, `OneOpenReview`, `DoneWasPassed`, `FreshClaimsStay` (a recovery that comes late never takes a claim
made after the loss it is about), `KeepsPromise`, and under fairness `StepFreed` and `ClaimsEnd`. Fairness: a session
ends (its hard deadline passes and the sweep closes it), and a consumer handles what is in the log. A task ends, so
the run does not check for deadlock.

Proof (`WorkLeasesProofs`). The inductive invariant is built in layers, each using those before it: `Types` and
`Placed` (whose session, thread and lease a number is); `Judgement` (`OneOpenReview`, `DoneWasPassed`, and what a claim
and a verdict say of their holder); `Tended` (who still visits, which events are pending, `NothingStranded`); `Dated` (a
claim is made after the losses that were handled). `Steps` sorts the actions into those that claim, move or do
neither, and `QuietSteps` and `StillSteps` say what the rest leave alone.

## 7. The work branch of a unit

`CodeWriters` is one unit, its writable sessions, and the Git processes that push to its branch. A push (`Receive`)
starts a Git process; it asks the server before it takes objects (`Admit`) and before it moves refs (`Prepare`), then
moves them one at a time (`Write`), then is gone; or it is killed in between with its lock files left (`Die`). A server
that crashes leaves Git running with hooks that fail; a server that is back waits for the process to be gone
(`MayReconcile`), reads what each ref became, removes the locks (`CleanUp`) and settles the journal (`Reconcile`).

| Variable | Code |
| --- | --- |
| `unit` | the row of `code_workspaces`: generation, writer's state, recorded head, grace over |
| `sess`, `events` | the sessions, and the session events `code.writers.v1` has not handled |
| `machine` | each checkout: its head, whether its process stopped, whether it was told its writer ended |
| `ref`, `locks` | Git: what each ref names, and the lock files |
| `pushes` | `code_git_pushes` with their Git processes |
| `sub` | `code_submissions`, the approvals made of them and the receipts of captures (`code_operations`) |

Abstractions. A session bears the number of its generation, because a refused offer rolls both back. A commit is a
session and a place, for an agent pushes its checkout's head and does not reset it; the last two places are the
commits made of a tree that was left: by its approval (`ApprovalOf`) and by its machine's shutdown (`CaptureOf`).
Taking the locks, the hook and its answer are one step (a crash between them is `Die`). Left out: what a commit may
contain, merges, quarantined repositories, the runner's own pushes, pushes by an account, uploads of earlier versions;
and, of a managed machine's cleanup, the archive it may push elsewhere for a writer that is not the last any more, and
the generation `recoverShutdownWriter()` moves back to one whose successor attached nothing.

A machine that is shut down captures what its stopped worker left. The credential of it (`Entitled`, `shutdown`) is good
while the generation is the last, closing or closed, and no session uses the unit; the machine asks for it only once its
visit is settled (ended or frozen), at the branch, with a tree its head has not (`Pushing`). The push goes through the
same hooks, and the receipt (`Acknowledge`) follows it. An approval made after it keeps that commit instead of making one
of its own (`Approved`), if the receipt is there (`NoConflict`); after an approval there is nothing to capture.

`BranchPromise`: the branch belongs to one writer at a time; only its commits extend it, from the commit on record;
it changes hands only where the record and Git agree.

Run `code`: two visits, one commit each and an approval's, one fault (a crash, an abandoned request or a killed
approval; a worker's own push may be killed freely). `RecordAgrees` (which also shows that the outcome the code calls
a conflict cannot occur), `SealsStand` (what was sealed is followed by the capture or by the approval and never by
both, and a kept approval, the branch and the record name one commit), `KeepsPromise`, and under fairness
`AlwaysConcludes`. Two visits are what a late push of one needs to disturb the next. Two commits a visit were checked
once for the safety properties and showed nothing more. Fairness: a Git process ends, the sweep recovers, the consumer
and the grace's clock go on, a crashed server is restarted; and an approval that is retried gets its turn (strong
fairness) though a shutting machine pushes again and again, because `CodeRepositories.run()` serves a project in the
order it was asked. No machine has to acknowledge. After the last visit nothing is left to do, so the run does not
check for deadlock.

Proof (`CodeWritersProofs`). `Fits`: what holds of each session's checkout and submission (`SessionFits`, `RefsFit`),
of the branch (`BranchFits`), of a push and its refs (`PushesFit`: one at a time, each ref where it was or where it
goes), and why the record may be behind (`Behind`). `RecordAgrees` follows, and `SealsStand` is part of it.

`AlwaysConcludes` makes one exception, and TLC shows that it is needed (`Overtaken`): a capture that reached the
branch and was never acknowledged, or that came between two halves of an approval whose Git was killed after it wrote
the approval's ref, leaves `materializeSubmission()` with `code_head_conflict` at every retry, and `requireSettled()`
keeps the unit from the next writer. Nothing in the repository says otherwise (`code/README.md:116` speaks of a
verified capture), so it is recorded here and is no finding.

An observation no run states: a push that is past both hooks when its session closes may land after the generation
is `closed`; `code.writer_ended` then names an older head than the next lease starts from, where the comments of
`code/src/writers.ts` read as if it named the last. Nothing consumes that event, and the trigger keeps the next writer
out until the push has settled.

## 8. Automatic dispatch

`Dispatch` is the queue of one project: works with their revisions, the sessions made of them in order, the requests
runners make and may repeat, and the calls that serve them.

| Variable | Code |
| --- | --- |
| `work` | `wf_instances`: revision, ended |
| `sessions` | `worker_sessions` in the order of their making |
| `receipt` | `session_dispatch_receipts` by request |
| `hold`, `said` | `session_dispatch_holds` by step; the revision the `launch_held` blocker names |
| `enabled`, `room` | `project_session_dispatch`; each runner's capacity as it last said, 0 while it may take nothing |
| `call` | each `lease()` in flight: its request, the steps it passed over, the failure it is about to count |

A call asks (`Ask`), and then offers with its receipt (`Offer`), is answered otherwise (`Reply`), or fails to build an
offer (`OfferFails`), counts that in a second transaction or not (`Count`) and goes on to the next step. Around it
people offer by hand, release holds, switch and halt; sessions activate, fail and close; work moves on; the server
restarts. What the snapshot saw is no state: the writer decides again, so that only its decision is a step. Time is
left out, and so a request may be answered with nothing at any moment (a runner offline, backoff, a budget, a question,
a wait for compute). `attempts` counts to the cap and no further. Whether an agent stopped twice the same way is open
from the second failure on. Left out: rented machines, inquiries, the migration of revisions.

`DispatchPromise`: a request is answered with one session for ever, a step has one live session at a time, and a step
that failed too often is offered by hand only, until somebody gives the word.

Run `dispatch`: one runner, two requests and two calls at a time, so that a repeated request overlaps its first call;
one work of two revisions, so that counts and releases concern a step the work has left; two sessions, failures held
at two. `HoldsAreSaid`, `KeepsPromise`, and under fairness `CallsEnd`. Fairness: a call's transactions end.

Proof (`DispatchProofs`). `Fits`: no step has two live sessions, nothing is made, tried or held of a step its work has not
reached (so a move never lands on a hold), and what is said stands. That the holds of a work have a latest one comes
from well-founded induction on revisions, and that the latest is the present one from the reach; `SaysHolds` is then
shown of each action. `SessionsGoOn` says of every step that it leaves the sessions there are with their
requests and adds one at most, of a request that has none: a request, offered by hand or by a runner, has one session for
ever, its receipt is of that one, and a closed session stays closed.

`HoldsAreSaid` says how the one blocker of a work serves the holds of all its revisions. A blocker is read only while
the work stands at the revision it names, so a hold of the present step whose blocker names another revision stops work
and nobody reads so (`Untold`). The property says when that happens: only from a failure counted late that holds an
earlier revision and takes the blocker, until the work moves, any of its holds is released, dispatch is switched or the
server restarts. It also says that no blocker names a hold that was lifted, and that what is said of a revision the work
has left was placed just then or is what a release left.

Both exceptions occur in the run, and both are at odds with comments of `dispatch.ts`. `reportHold()` (`:341`) has a hold
reported on the work it holds so that it reaches Needs you, which the late hold prevents. And `initialize()` (`:243`) has
a hold its work moved past withdrawn and never said again, where `releaseHold` says the latest hold that is left even
if the work has moved past it: its blocker stays hidden, but the severe issue `dispatch.launch_held` is reported anew.

## 9. Model tokens

`ModelLedger` is the relay through which sessions on rented machines call the model, and the ledgers that bound what
they spend: the day of a person, and the budget of a grant.

| Variable | Code |
| --- | --- |
| `today` | the UTC day of the clock |
| `caps`, `own` | `fleet_model_caps` of the administrator, `fleet_model_limits` of the person |
| `usage`, `grantTokens` | `fleet_model_usage` by person and day, `fleet_grant_tokens` by grant |
| `blockers`, `faults` | `fleet_model_blockers` by person and day, `fleet_relay_faults` by visit |
| `lanes`, `made` | the relay's memory: lanes taken, requests counted of each grant |
| `call` | each call's locals, the settlement it is still due and the failure still to be noted |
| `ceiling`, `standing`, `sends` | history: the limit a day was last charged under, refusals not lifted, calls that went out |

A call takes its lane (`Admit`), is estimated and given its day before its transaction has the lock (`Prepare`), is
charged to both ledgers or refused (`Reserve`, `RefuseDay`, `RefuseBudget`), counted (`Count`), sent (`Send`),
reported by the provider (`Report`) and stopped (`Stop`) at any moment but inside its reservation. What follows runs
in a callback of its own, after whatever else: `Settle`, `NoteFault`, or `CallbackFails`. The answer to COMMIT may be
lost (`AnswerLost`), midnight may come, a limit may change, Main may start again (`Restart`) and then lets go the
faults whose window is over.

Whether a grant is live is read several times during a call and left open: any of those reads may refuse it, and so a
call may stop at each stage. A call turned away before it has a lane is no step. Left out: the body of a request, the
protocol of the stream, the cap on entries of the relay's memory, and the fault the relay records of all visits when
it starts. The count of a grant is forgotten when the grant expires, and a grant whose terms change is refused until
then, so the model is within one term of a grant; `sends` counts since the relay last started, as the code does.

Run `ledger`: two grants of one person, one of them with a budget of one token; a fallback limit of one and a change
to one or two; estimates of one token and bills up to one more; one request per grant; two calls, two days. Two calls
are what a race for one budget needs, and what a refund and a refusal need to meet; the second day is where a
settlement may go astray; a bill above its estimate is what makes a correction raise a total. `Accounted`,
`NeverOverspent`, `RefusalStands`, `CallsBounded`, and under fairness `LanesFree`. Fairness: the transaction of a
reservation ends, and the total timeout of a call ends it.

Proof (`ModelLedgerProofs`). A sum over calls is stated as the size of a set of tokens, so that nothing needs
induction over data: `TokensApart` and `TokensChange` say what one call's change does to it. The invariant adds to the
properties what a call knows at each stage (`CallFacts`: what it keeps is its charge until it is settled, and what it
is due differs from it only by the bill), that a call in flight has its lane (`LaneFacts`), that the count it read is
the one it writes over (`CountFacts`), and that what a day and a budget hold, each call up to its estimate, is within
the limit it was charged under (`Ceilings`). A step charges one call, settles one, or moves no token.

An observation no run states: a charge whose COMMIT answer is lost, or whose settlement callback fails or dies with
the process, is never returned, although a comment in `fleet/src/model-relay.ts` says that a refusal after the charge
returns it. It errs toward spending less, which is why `NeverOverspent` counts costs and `Accounted` counts charges.

## 10. What is proved and what is only checked

| Property | Run | Theorem |
| --- | --- | --- |
| `ExactlyOnceInOrder` | `events_two` | `DeliversExactlyOnce` |
| `Delivery` | `events_two` | `Implements` |
| `RetryHasWork` | `events_two` | `RetriesHaveWork` |
| `NoWorkOutlivesItsOwner` | `events_two` | `NothingOutlivesItsOwner` |
| `NeverAsleep` | `events_two` | `AlwaysAwake` |
| `DrainDelivers` | `events_drain` | `DrainsDeliver` |
| `SettledAtRest` | `events_drain` | `RestsSettled` |
| `Handled`, `DrainReturns` | `events_live` | liveness |
| `HistoryExplains` | `workflows` | `HistoryIsWhole` |
| `LimitsHold` | `workflows` | `LimitsKept` |
| `AppliedOnce` | `workflows` | `RequestsApplyOnce` |
| `EscalationHeard` | `workflows` | `StopsAreHeard` |
| `Acyclic` | `workflows` | `NoDeadlock` |
| `PrerequisitesStand` | `workflows` | `WorkRestsOnSuccess` |
| `Accounted` | `launches_safe` | `LaunchIsAccounted` |
| `StartedOnce` | `launches_safe` | `AgentStartsOnce` |
| `VerdictNeedsWitness` | `launches_safe` | `OnlyWitnessDecides` |
| `KeepsPromise` | `launches_safe` | `Implements` |
| `AgentsEnd`, `Concluded` | `launches_live` | liveness |
| `OneOpenReview` | `leases` | `OneOpenReviewCorrect` |
| `DoneWasPassed` | `leases` | `DoneWasPassedCorrect` |
| `NothingStranded` | `leases` | `NothingStrandedCorrect` |
| `FreshClaimsStay` | `leases` | `FreshClaimsStayCorrect` |
| `KeepsPromise` | `leases` | `WorkLeasesKeepPromise` |
| `StepFreed`, `ClaimsEnd` | `leases` | liveness |
| `RecordAgrees` | `code` | `RecordAgreesCorrect` |
| `SealsStand` | `code` | `SealsStandCorrect` |
| `KeepsPromise` | `code` | `CodeWritersKeepPromise` |
| `AlwaysConcludes` | `code` | liveness |
| `HoldsAreSaid` | `dispatch` | `HoldsAreSaidCorrect` |
| `KeepsPromise` | `dispatch` | `DispatchKeepsPromise` |
| `CallsEnd` | `dispatch` | liveness |
| `Accounted` | `ledger` | `LedgersExact` |
| `NeverOverspent` | `ledger` | `NobodyOverspends` |
| `RefusalStands` | `ledger` | `RefusalsStand` |
| `CallsBounded` | `ledger` | `CallsAreBounded` |
| `LanesFree` | `ledger` | liveness |

`TypeOK` of each module is its theorem `TypeCorrect`. `SomeWorkIsNext` and `RecordsStand` of `WorkflowsProofs` and
`SessionsAreFinal`, `RequestsHaveOne` and `CapHolds` of `DispatchProofs` are about formulas of those modules, not of a
run. TLC found no violation of them: of the first two on instances smaller than the run's, of the others on those of
`dispatch`.

Liveness under fairness and `ENABLED` are out of the reach of the installed provers, and so is induction over data; no
module here has a `RECURSIVE` operator. Each theorem holds for every value of the constants that satisfies the
module's `ASSUME`, the bounds (`MaxEvents`, `MaxFaults`, `MaxRevision`, `MaxSessions`, `MaxRequests` and the like)
included: they are numbers of any size. `LaunchIsAccounted`, `OnlyWitnessDecides` and the `Implements` of
`LaunchesProofs` also assume readable boots. The assumptions say what the code validates (`DefinitionAssumption`),
that an absent value is none of the others, and that bounds are numbers.

Every property was seen to fail under a plausible error of the code, which stands in its module as `Mutant_<name>`
beside the definition it replaces.

Symmetry is used only over sets whose members the specification treats alike (processes, consumers, instances,
guardians, commands), and never with a liveness property.

Where the modelled system never stops (dispatchers poll, requests are repeated, controllers start again) the run
checks for deadlock; `leases` and `code` do not, because a task and a unit come to an end.

## 11. Plan

What is modelled came first because the rest stands on it: the log that carries every reaction, the engine that
every program moves, the one place where an agent is started, who may work and judge, the branch the work is kept on,
the queue, and what a call of the model may cost. What is left, in order:

1. **Rented machines** in `Dispatch`: a machine bound to one work, the end of its allocation, the day's tokens, and
   inquiries, which share its capacity and not its steps.
2. Further in the modelled parts: the runner's acquisition and settlement, Workflows' version upgrades, merges and
   quarantines of Code, the bundle receiver of earlier runners.

## 12. Not modelled

- In Domain Events: the text of failures, the cap and jitter of backoff, the observer calls.
- In Workflows: the projection of blockers for display, upgrades of a definition's version, retired instances.
- In Sessions: rented machines, budgets, inquiries, messages, usage, transcripts, the screens.
- In Reviews and Tasks: evidence and its provenance, returns, findings; versions before 46.
- In Code: what a commit may contain, merges, quarantines and their recovery, imports, uploads; the archive of a shutdown
  and the generation moved back for one.
- In Fleet: renting, keeping and releasing machines, and the provider of them.
- In the Runner: acquisition of a session and its retries, workspaces and their capture, the transcript and usage
  relays, profiles, the protocol of each agent harness.
- The components of 2.1 that the plan names, and those of 2.2, for the reasons in `PROJECT.json`.

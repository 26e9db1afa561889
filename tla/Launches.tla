------------------------------ MODULE Launches ------------------------------
(***************************************************************************)
(* One launch of the machine runner (packages/runner): its row in the local*)
(* ledger, the controller that supervises it, the guardians that may claim *)
(* it, and the group owner that runs the agent.  They are separate         *)
(* processes that meet in the row and in socket and IPC messages, and each *)
(* may die between any two steps; the machine may reboot under them all.   *)
(*                                                                         *)
(* Time is not counted: a timer may fire once it is armed, and a request   *)
(* may go unanswered at any moment.  The deadline's value is left out, so  *)
(* are the messages that move it.  The agent stands for its process group. *)
(***************************************************************************)
EXTENDS Naturals, Sequences, FiniteSets

CONSTANTS
    Guardians,      \* the guardian processes a controller may spawn
    Commands,       \* what buildLaunch may produce for the launch, over time
    None,           \* absent
    MayMissBoot,    \* the boot identifier may be unreadable
    MaxRequests,    \* bound: requests a stalled guardian has not read
    MaxBoots,       \* bound: boots of the machine
    MaxLosses       \* bound: guardians and owners that fail or are killed from outside

ASSUME LaunchAssumption ==
    /\ None \notin Commands
    /\ Commands \cap {"inspect", "stop"} = {}
    /\ MayMissBoot \in BOOLEAN
    /\ MaxRequests \in Nat /\ MaxBoots \in Nat /\ MaxLosses \in Nat

Statuses == {"reserved", "starting", "running", "stopping", "exited", "stopped", "uncertain"}

VARIABLES
    row,            \* the launches row: status, pinned command, boot and lostAt
    settled,        \* the launch's workspace was captured and its session released
    live,           \* the session the launch serves is live
    ctl,            \* the controller: where its tick is and what it was answered
    inbox,          \* requests on the guardian's socket; asked: someone waits
    guardian,       \* each guardian's phase
    pinned,         \* the command each guardian is launching or launched
    observed,       \* observedState
    shutdown,       \* how its owner said the launch ends: exit, stop, or None
    proof,          \* killProof
    owner,          \* each guardian's group owner
    agent,          \* the process group its owner started
    toOwner,        \* IPC messages, in order
    toGuardian,
    starts,         \* (history) the commands agents were started with
    boot,           \* the machine's boot
    losses

ledger == <<row, settled>>
supervisor == <<guardian, pinned, observed, shutdown, proof>>
group == <<owner, agent, toOwner, toGuardian, starts>>
machine == <<live, boot, losses>>
vars == <<ledger, ctl, inbox, supervisor, group, machine>>

Ended(status) == status \in {"exited", "stopped"}
Over == Ended(row.status)

\* A process group of the launch has a living member.
Running(g) == agent[g] \in {"running", "left"}
OwnerLives(g) == owner[g] \in {"idle", "stopping", "ready"}
GuardianLives(g) == guardian[g] \in {"spawned", "claimed", "open", "checked", "pinned"}
Listening == \E g \in Guardians : guardian[g] \in {"open", "checked", "pinned"}

Down == [at |-> "down", boot |-> 0, fresh |-> FALSE, command |-> None, answer |-> None]

\* reserve(), and markUncertain() when the replayed session is already active.
Init ==
    /\ \E status \in {"reserved", "uncertain"} :
          row = [status |-> status, command |-> None, boot |-> 0, lost |-> FALSE]
    /\ settled = FALSE
    /\ live = TRUE
    /\ ctl = Down
    /\ inbox = {}
    /\ guardian = [g \in Guardians |-> "none"]
    /\ pinned = [g \in Guardians |-> None]
    /\ observed = [g \in Guardians |-> "starting"]
    /\ shutdown = [g \in Guardians |-> None]
    /\ proof = [g \in Guardians |-> FALSE]
    /\ owner = [g \in Guardians |-> "none"]
    /\ agent = [g \in Guardians |-> "none"]
    /\ toOwner = [g \in Guardians |-> <<>>]
    /\ toGuardian = [g \in Guardians |-> <<>>]
    /\ starts = <<>>
    /\ boot = 1
    /\ losses = 0

-----------------------------------------------------------------------------
(* The ledger.                                                             *)

\* immutable_launch_terminal: an ended row takes no update.
Writable(r) == ~Ended(r.status)

\* UPDATE launches SET status=?; of an ended row it is refused.  The error ends a writer that is
\* exiting anyway; any other has an owner that lives, and then the row has not ended (Accounted).
Written(status) == IF Writable(row) THEN [row EXCEPT !.status = status] ELSE row

\* markUncertain()
Uncertain(r) == IF Ended(r.status) THEN r ELSE [r EXCEPT !.status = "uncertain"]

\* mutant: a pinned command is not looked at
Mutant_Unlaunched(r) == r.status \in {"starting", "uncertain"}

\* The predicate of end(id, reason, 'unlaunched').
Unlaunched(r) == r.command = None /\ r.status \in {"starting", "uncertain"}

\* mutant: the minute is counted from updated_at, which every save rewrites
Mutant_AfterLoss(r, read) ==
    IF read # 0 /\ r.boot # 0 /\ r.boot # read /\ ~Ended(r.status)
    THEN {[r EXCEPT !.status = "stopped"]}
    ELSE IF Unlaunched(r) THEN {[r EXCEPT !.lost = TRUE, !.status = "uncertain"]} ELSE {Uncertain(r)}

\* lost(): what an unreachable guardian leaves of the row, read by a controller of
\* the given boot (0: unreadable).  A minute after lostAt an unlaunched row ends.
AfterLoss(r, read) ==
    IF read # 0 /\ r.boot # 0 /\ r.boot # read /\ ~Ended(r.status)
    THEN {[r EXCEPT !.status = "stopped"]}
    ELSE IF ~Unlaunched(r) THEN {Uncertain(r)}
    ELSE IF ~r.lost THEN {[r EXCEPT !.lost = TRUE, !.status = "uncertain"]}
    ELSE {Uncertain(r), [r EXCEPT !.status = "stopped"]}

-----------------------------------------------------------------------------
(* The controller: one tick after another, each asking the guardian first. *)

At(place) == ctl.at = place
Move(place) ==
    ctl' = [Down EXCEPT !.at = place, !.boot = ctl.boot,
                        !.command = IF place \in {"launching", "sent"} THEN ctl.command ELSE None]

\* Nobody waits for what was asked.
Stale(messages) == {[m EXCEPT !.asked = FALSE] : m \in messages}

\* request(): a guardian that does not listen is unreachable, one that stalls reads it later.
Ask(body) ==
    inbox' = IF Listening /\ Cardinality(inbox) < MaxRequests
             THEN inbox \cup {[body |-> body, asked |-> TRUE]} ELSE inbox

\* A controller takes the lock a dead one left, and reads the boot identifier once.
ControllerStarts ==
    /\ At("down")
    /\ \E read \in {boot} \cup (IF MayMissBoot THEN {0} ELSE {}) :
          ctl' = [Down EXCEPT !.at = "idle", !.boot = read]
    /\ UNCHANGED <<ledger, inbox, supervisor, group, machine>>

ControllerDies ==
    /\ ~At("down")
    /\ ctl' = Down
    /\ inbox' = Stale(inbox)
    /\ UNCHANGED <<ledger, supervisor, group, machine>>

\* host.reconcile(): inspect() every open launch.
Inspect ==
    /\ At("idle") /\ ~settled
    /\ IF Over \/ row.status = "reserved"
       THEN Move("asked") /\ UNCHANGED inbox
       ELSE Move("inspecting") /\ Ask("inspect")
    /\ UNCHANGED <<ledger, supervisor, group, machine>>

Inspected ==
    /\ At("inspecting") /\ ctl.answer # None
    /\ Move("asked")
    /\ UNCHANGED <<ledger, inbox, supervisor, group, machine>>

NotInspected ==
    /\ At("inspecting") /\ ctl.answer = None
    /\ row' \in AfterLoss(row, ctl.boot)
    /\ Move("asked")
    /\ inbox' = Stale(inbox)
    /\ UNCHANGED <<settled, supervisor, group, machine>>

\* reconcileLaunch(): whether the launch is one to start is read before the session is.
ReadRow ==
    /\ At("asked")
    /\ ctl' = [ctl EXCEPT !.at = "deciding", !.fresh = row.status \in {"reserved", "starting"}]
    /\ UNCHANGED <<ledger, inbox, supervisor, group, machine>>

\* settle(): only what has ended is captured and released.
Settle ==
    /\ At("deciding") /\ Over
    /\ settled' = TRUE
    /\ Move("idle")
    /\ UNCHANGED <<row, inbox, supervisor, group, machine>>

\* The session is over or refused, its deadline passed or its budget is spent.
Halt ==
    /\ At("deciding") /\ ~Over
    /\ Move("halting")
    /\ UNCHANGED <<ledger, inbox, supervisor, group, machine>>

\* Nothing to do, or the server gave no answer this tick.
Wait ==
    /\ At("deciding")
    /\ Move("idle")
    /\ UNCHANGED <<ledger, inbox, supervisor, group, machine>>

\* The workspace is prepared and the session attached.
Prepare ==
    /\ At("deciding") /\ live /\ ctl.fresh
    /\ ~Over /\ row.status # "uncertain"
    /\ Move("prepared")
    /\ UNCHANGED <<ledger, inbox, supervisor, group, machine>>

\* stopOwned(): the source was refused, or the runner stops.
StopOwned ==
    /\ At("idle") /\ ~Over
    /\ Move("halting")
    /\ UNCHANGED <<ledger, inbox, supervisor, group, machine>>

\* host.launch(), unless the session closed or the preparation failed meanwhile.  The boot
\* is recorded before the guardian is spawned.
Launch ==
    /\ At("prepared")
    /\ \/ Move("idle") /\ UNCHANGED <<row, guardian>>
       \/ ~Over /\ Move("halting") /\ UNCHANGED <<row, guardian>>
       \/ /\ ~Over /\ row.status # "uncertain"
          /\ \E c \in Commands : ctl' = [ctl EXCEPT !.at = "launching", !.command = c]
          /\ IF row.status = "reserved"
             THEN /\ row' = [row EXCEPT !.boot = IF ctl.boot = 0 THEN @ ELSE ctl.boot]
                  /\ \E g \in Guardians :
                        /\ guardian[g] = "none"
                        /\ guardian' = [guardian EXCEPT ![g] = "spawned"]
             ELSE UNCHANGED <<row, guardian>>
    /\ UNCHANGED <<settled, inbox, pinned, observed, shutdown, proof, group, machine>>

SendLaunch ==
    /\ At("launching") /\ ~Over /\ Listening
    /\ Move("sent")
    /\ Ask(ctl.command)
    /\ UNCHANGED <<ledger, supervisor, group, machine>>

\* A refusal is thrown, and what was thrown is halted; an answer ends the tick.
LaunchAnswered ==
    /\ At("sent") /\ ctl.answer # None
    /\ Move(IF ctl.answer = "ok" \/ Over THEN "idle" ELSE "halting")
    /\ UNCHANGED <<ledger, inbox, supervisor, group, machine>>

\* Unreachable: tried again every 25 ms.
LaunchUnanswered ==
    /\ At("sent") /\ ctl.answer = None
    /\ Move(IF Over THEN "idle" ELSE "launching")
    /\ inbox' = Stale(inbox)
    /\ UNCHANGED <<ledger, supervisor, group, machine>>

\* Six seconds without an answer: unclaimed it is cancelled, claimed it is not known.
LaunchGivesUp ==
    /\ ctl.at \in {"launching", "sent"} /\ ctl.answer = None
    /\ Move(IF Over THEN "idle" ELSE "halting")
    /\ row' = IF row.status = "reserved" THEN Written("stopped") ELSE Uncertain(row)
    /\ inbox' = Stale(inbox)
    /\ UNCHANGED <<settled, supervisor, group, machine>>

\* host.stop(): the row arbitrates a cancellation and a guardian's claim.
Stop ==
    /\ At("halting")
    /\ IF Over \/ row.status = "reserved"
       THEN row' = Written("stopped") /\ Move("idle") /\ UNCHANGED inbox
       ELSE Move("stopping") /\ Ask("stop") /\ UNCHANGED row
    /\ UNCHANGED <<settled, supervisor, group, machine>>

StopAnswered ==
    /\ At("stopping") /\ ctl.answer # None
    /\ Move(IF ctl.answer = "ok" THEN "ending" ELSE "idle")
    /\ UNCHANGED <<ledger, inbox, supervisor, group, machine>>

StopUnanswered ==
    /\ At("stopping") /\ ctl.answer = None
    /\ row' \in AfterLoss(row, ctl.boot)
    /\ Move("idle")
    /\ inbox' = Stale(inbox)
    /\ UNCHANGED <<settled, supervisor, group, machine>>

\* Five seconds are given to the end, then it is unconfirmed.
StopEnds ==
    /\ At("ending")
    /\ row' = Uncertain(row)
    /\ Move("idle")
    /\ UNCHANGED <<settled, inbox, supervisor, group, machine>>

-----------------------------------------------------------------------------
(* A guardian.                                                             *)

\* The guardian exits; what it knew is lost, as is what is on its socket and its pipe.
Exit(g) ==
    /\ guardian' = [guardian EXCEPT ![g] = "over"]
    /\ observed' = [observed EXCEPT ![g] = "starting"]
    /\ shutdown' = [shutdown EXCEPT ![g] = None]
    /\ proof' = [proof EXCEPT ![g] = FALSE]
    /\ toGuardian' = [toGuardian EXCEPT ![g] = <<>>]
    /\ UNCHANGED pinned

Enter(g, phase) ==
    /\ guardian' = [guardian EXCEPT ![g] = phase]
    /\ UNCHANGED <<pinned, observed, shutdown, proof>>

Reply(m, answer) ==
    /\ inbox' = inbox \ {m}
    /\ ctl' = IF m.asked THEN [ctl EXCEPT !.answer = answer] ELSE ctl

\* mutant: whatever became of the row is claimed
Mutant_Claimable == TRUE

\* UPDATE launches SET status='starting' WHERE status='reserved'
Claimable == row.status = "reserved"

Claim(g) ==
    /\ guardian[g] = "spawned"
    /\ row' = IF Claimable THEN Written("starting") ELSE row
    /\ Enter(g, IF Claimable THEN "claimed" ELSE "over")
    /\ UNCHANGED <<settled, ctl, inbox, group, machine>>

Listen(g) ==
    /\ guardian[g] = "claimed"
    /\ Enter(g, "open")
    /\ UNCHANGED <<ledger, ctl, inbox, group, machine>>

\* socketFailed(): without an owner the launch has provably ended.
SocketFails(g) ==
    /\ losses < MaxLosses
    /\ guardian[g] \in {"claimed", "open"}
    /\ losses' = losses + 1
    /\ row' = Written(IF owner[g] = "none" THEN "stopped" ELSE "uncertain")
    /\ Exit(g)
    /\ inbox' = {}
    /\ UNCHANGED <<settled, ctl, owner, agent, toOwner, starts, live, boot>>

\* The startup timer, or a SIGTERM, before there is an owner.
NeverLaunched(g) ==
    /\ guardian[g] \in {"claimed", "open"} /\ owner[g] = "none"
    /\ row' = Written("stopped")
    /\ Exit(g)
    /\ inbox' = {}
    /\ UNCHANGED <<settled, ctl, owner, agent, toOwner, starts, machine>>

\* A SIGTERM is passed to the owner; it is no record of anything.
Terminate(g) ==
    /\ guardian[g] = "open" /\ OwnerLives(g) /\ toOwner[g] = <<>>
    /\ toOwner' = [toOwner EXCEPT ![g] = <<"stop">>]
    /\ UNCHANGED <<ledger, ctl, inbox, supervisor, owner, agent, toGuardian, starts, machine>>

\* inspect: only the launch's own guardian repairs what a timeout made uncertain.
Repairs(g) ==
    /\ row.status = "uncertain"
    /\ (owner[g] = "none" /\ row.command = None) \/ owner[g] # "none"

AnswerInspect(g, m) ==
    /\ guardian[g] = "open" /\ m.body = "inspect"
    /\ \/ Repairs(g) /\ row' = Written(observed[g])
       \/ (~Repairs(g) \/ owner[g] = "gone") /\ row' = row
    /\ Reply(m, "ok")
    /\ UNCHANGED <<settled, supervisor, group, machine>>

\* One "stop" is as good as two.
WithStop(queue) == IF "stop" \in {queue[i] : i \in DOMAIN queue} THEN queue ELSE Append(queue, "stop")

\* stop: without an owner the guardian ends the launch, else the owner does.
AnswerStop(g, m) ==
    /\ guardian[g] = "open" /\ m.body = "stop"
    /\ \/ /\ owner[g] = "none" /\ Over
          /\ Reply(m, "refused")
          /\ UNCHANGED <<row, supervisor, toOwner, toGuardian>>
       \/ /\ owner[g] = "none" /\ ~Over
          /\ row' = Written("stopped")
          /\ Exit(g)
          /\ inbox' = {}
          /\ ctl' = IF m.asked THEN [ctl EXCEPT !.answer = "ok"] ELSE ctl
          /\ UNCHANGED toOwner
       \/ /\ OwnerLives(g)
          /\ row' = Written("stopping")
          /\ observed' = [observed EXCEPT ![g] = "stopping"]
          /\ toOwner' = [toOwner EXCEPT ![g] = WithStop(@)]
          /\ Reply(m, "ok")
          /\ UNCHANGED <<guardian, pinned, shutdown, proof, toGuardian>>
       \/ /\ owner[g] = "gone"
          /\ Reply(m, "ok")
          /\ UNCHANGED <<row, supervisor, toOwner, toGuardian>>
    /\ UNCHANGED <<settled, owner, agent, starts, machine>>

\* launch: a replay of the pinned command is answered, another one is refused; a deadline
\* that passed ends the launch; else the command is to be pinned.
AnswerLaunch(g, m) ==
    /\ guardian[g] = "open" /\ m.body \in Commands
    /\ \/ /\ row.command # None \/ row.status # "starting"
          /\ Reply(m, IF row.command = m.body THEN "ok" ELSE "refused")
          /\ UNCHANGED <<row, supervisor, toGuardian>>
       \/ /\ row.command = None /\ row.status = "starting"
          /\ row' = Written("stopped")
          /\ Exit(g)
          /\ inbox' = {}
          /\ ctl' = IF m.asked THEN [ctl EXCEPT !.answer = "ok"] ELSE ctl
       \/ /\ row.command = None /\ row.status = "starting"
          /\ guardian' = [guardian EXCEPT ![g] = "checked"]
          /\ pinned' = [pinned EXCEPT ![g] = m.body]
          /\ UNCHANGED <<row, ctl, inbox, observed, shutdown, proof, toGuardian>>
    /\ UNCHANGED <<settled, owner, agent, toOwner, starts, machine>>

\* The request the guardian is in the middle of.
Launching(g, m) == m.body = pinned[g]

\* UPDATE launches SET command_hash=?: refused on a row that ended since it was read.
Pin(g) ==
    /\ guardian[g] = "checked"
    /\ IF Writable(row)
       THEN /\ row' = [row EXCEPT !.command = pinned[g]]
            /\ guardian' = [guardian EXCEPT ![g] = "pinned"]
            /\ UNCHANGED <<ctl, inbox, pinned>>
       ELSE /\ \E m \in inbox : Launching(g, m) /\ Reply(m, "refused")
            /\ guardian' = [guardian EXCEPT ![g] = "open"]
            /\ pinned' = [pinned EXCEPT ![g] = None]
            /\ UNCHANGED row
    /\ UNCHANGED <<settled, observed, shutdown, proof, group, machine>>

\* The owner is spawned in a group of its own, and sent the command.
Spawn(g) ==
    /\ guardian[g] = "pinned"
    /\ \E m \in inbox : Launching(g, m) /\ Reply(m, "ok")
    /\ guardian' = [guardian EXCEPT ![g] = "open"]
    /\ owner' = [owner EXCEPT ![g] = "idle"]
    /\ toOwner' = [toOwner EXCEPT ![g] = <<"start">>]
    /\ UNCHANGED <<ledger, pinned, observed, shutdown, proof, agent, toGuardian, starts, machine>>

\* spawn() throws and nothing was spawned; or it fails later and nothing is known.
SpawnFails(g) ==
    /\ guardian[g] = "pinned"
    /\ row' = Written("exited") \/ row' = Written("uncertain")
    /\ \E m \in inbox : Launching(g, m)
            /\ ctl' = IF m.asked THEN [ctl EXCEPT !.answer = "ok"] ELSE ctl
    /\ inbox' = {}
    /\ Exit(g)
    /\ UNCHANGED <<settled, owner, agent, toOwner, starts, machine>>

Hears(g, message) ==
    /\ guardian[g] = "open" /\ toGuardian[g] # <<>> /\ Head(toGuardian[g]) = message
    /\ toGuardian' = [toGuardian EXCEPT ![g] = Tail(@)]

HearRunning(g) ==
    /\ Hears(g, "running")
    /\ IF row.status = "stopping"
       THEN UNCHANGED <<row, observed>>
       ELSE /\ row' = Written("running")
            /\ observed' = [observed EXCEPT ![g] = "running"]
    /\ UNCHANGED <<settled, ctl, inbox, guardian, pinned, shutdown, proof,
                   owner, agent, toOwner, starts, machine>>

HearShutdown(g, reason) ==
    /\ Hears(g, reason)
    /\ shutdown' = [shutdown EXCEPT ![g] = reason]
    /\ row' = Written("stopping")
    /\ observed' = [observed EXCEPT ![g] = "stopping"]
    /\ UNCHANGED <<settled, ctl, inbox, guardian, pinned, proof,
                   owner, agent, toOwner, starts, machine>>

\* The whole group is gone at once.
Kill(g) ==
    /\ owner' = [owner EXCEPT ![g] = "gone"]
    /\ agent' = [agent EXCEPT ![g] = IF Running(g) THEN "gone" ELSE @]
    /\ toOwner' = [toOwner EXCEPT ![g] = <<>>]

\* killOwnedGroup(): of an owner not reaped yet; one that died may be taken for reaped.
HearKillReady(g) ==
    /\ Hears(g, "kill_ready")
    /\ \/ Kill(g) /\ proof' = [proof EXCEPT ![g] = TRUE]
       \/ owner[g] = "gone" /\ UNCHANGED <<owner, agent, toOwner, proof>>
    /\ UNCHANGED <<ledger, ctl, inbox, guardian, pinned, observed, shutdown, starts, machine>>

\* mutant: an owner's exit is proof enough
Mutant_Proven(g) == shutdown[g] # None

\* The exit is the guardian's own kill, of an owner that had said how the launch ends.
Proven(g) == proof[g] /\ shutdown[g] # None

\* mutant: an owner lost on its own leaves its agent
Mutant_Swept(g) == agent[g]

\* What the agent's group and its descendants are once the guardian has killed them.
Swept(g) == IF Running(g) THEN "gone" ELSE agent[g]

\* The owner's exit event: proven, or the group is killed and nothing is known.
HearExit(g) ==
    /\ guardian[g] = "open" /\ owner[g] = "gone"
    /\ IF Proven(g)
       THEN row' = Written(IF shutdown[g] = "exit" THEN "exited" ELSE "stopped") /\ UNCHANGED agent
       ELSE /\ row' = Written("uncertain")
            /\ agent' = [agent EXCEPT ![g] = Swept(g)]
    /\ Exit(g)
    /\ inbox' = {}
    /\ UNCHANGED <<settled, ctl, owner, toOwner, starts, machine>>

\* Killed from outside.  A guardian that has no child yet counts as well.
GuardianDies(g) ==
    /\ losses < MaxLosses
    /\ GuardianLives(g)
    /\ losses' = losses + 1
    /\ Exit(g)
    /\ inbox' = IF guardian[g] \in {"open", "checked", "pinned"} THEN {} ELSE inbox
    /\ UNCHANGED <<ledger, ctl, owner, agent, toOwner, starts, live, boot>>

-----------------------------------------------------------------------------
(* The group owner and its agent.                                          *)

\* process.send(): to a guardian that is gone it does nothing.
Sent(g, messages) ==
    toGuardian' = [toGuardian EXCEPT ![g] = IF GuardianLives(g) THEN @ \o messages ELSE <<>>]

\* stop(reason): the first one counts.
ShutDown(g, reason, before) ==
    IF owner[g] = "idle"
    THEN owner' = [owner EXCEPT ![g] = "stopping"] /\ Sent(g, before \o <<reason>>)
    ELSE Sent(g, before) /\ UNCHANGED owner

\* start: the deadline may have passed and the spawn may fail.  An owner that is stopping
\* still starts the agent; its group is killed all the same.
Start(g) ==
    /\ OwnerLives(g) /\ toOwner[g] # <<>> /\ Head(toOwner[g]) = "start"
    /\ toOwner' = [toOwner EXCEPT ![g] = Tail(@)]
    /\ \/ ShutDown(g, "stop", <<>>) /\ UNCHANGED <<agent, starts>>
       \/ /\ agent' = [agent EXCEPT ![g] = "gone"]
          /\ ShutDown(g, "exit", <<>>)
          /\ UNCHANGED starts
       \/ /\ agent' = [agent EXCEPT ![g] = "running"]
          /\ starts' = Append(starts, pinned[g])
          /\ Sent(g, <<"running">>)
          /\ UNCHANGED owner
    /\ UNCHANGED <<ledger, ctl, inbox, supervisor, machine>>

HearStop(g) ==
    /\ OwnerLives(g) /\ toOwner[g] # <<>> /\ Head(toOwner[g]) = "stop"
    /\ toOwner' = [toOwner EXCEPT ![g] = Tail(@)]
    /\ ShutDown(g, "stop", <<>>)
    /\ UNCHANGED <<ledger, ctl, inbox, supervisor, agent, starts, machine>>

\* The deadline, the launch timeout, a signal, or the guardian's disconnect.
StopsItself(g) ==
    /\ owner[g] = "idle"
    /\ ShutDown(g, "stop", <<>>)
    /\ UNCHANGED <<ledger, ctl, inbox, supervisor, agent, toOwner, starts, machine>>

\* The agent's process exits; others of its group may stay.
AgentExits(g) ==
    /\ agent[g] = "running"
    /\ \E left \in {"left", "gone"} : agent' = [agent EXCEPT ![g] = left]
    /\ UNCHANGED <<ledger, ctl, inbox, supervisor, owner, toOwner, toGuardian, starts, machine>>

AgentClosed(g) ==
    /\ owner[g] = "idle" /\ agent[g] \in {"left", "gone"}
    /\ ShutDown(g, "exit", <<>>)
    /\ UNCHANGED <<ledger, ctl, inbox, supervisor, agent, toOwner, starts, machine>>

\* 300 ms after SIGTERM: all others are killed, and the guardian is asked to kill the
\* group; without a guardian the owner does it.
KillOthers(g) ==
    /\ owner[g] = "stopping"
    /\ IF GuardianLives(g)
       THEN /\ owner' = [owner EXCEPT ![g] = "ready"]
            /\ agent' = [agent EXCEPT ![g] = IF Running(g) THEN "gone" ELSE @]
            /\ Sent(g, <<"kill_ready">>)
            /\ UNCHANGED toOwner
       ELSE Kill(g) /\ UNCHANGED toGuardian
    /\ UNCHANGED <<ledger, ctl, inbox, supervisor, starts, machine>>

\* A second later the guardian is gone or stalled.
KillItself(g) ==
    /\ owner[g] = "ready"
    /\ Kill(g)
    /\ UNCHANGED <<ledger, ctl, inbox, supervisor, toGuardian, starts, machine>>

\* Killed from outside; the agent's group lives on.
OwnerDies(g) ==
    /\ losses < MaxLosses
    /\ OwnerLives(g)
    /\ losses' = losses + 1
    /\ owner' = [owner EXCEPT ![g] = "gone"]
    /\ toOwner' = [toOwner EXCEPT ![g] = <<>>]
    /\ UNCHANGED <<ledger, ctl, inbox, supervisor, agent, toGuardian, starts, live, boot>>

-----------------------------------------------------------------------------
SessionEnds ==
    /\ live
    /\ live' = FALSE
    /\ UNCHANGED <<ledger, ctl, inbox, supervisor, group, boot, losses>>

\* The row is all that is left.
Reboot ==
    /\ boot < MaxBoots
    /\ boot' = boot + 1
    /\ ctl' = Down
    /\ inbox' = {}
    /\ guardian' = [g \in Guardians |-> IF GuardianLives(g) THEN "over" ELSE guardian[g]]
    /\ owner' = [g \in Guardians |-> IF OwnerLives(g) THEN "gone" ELSE owner[g]]
    /\ agent' = [g \in Guardians |-> IF Running(g) THEN "gone" ELSE agent[g]]
    /\ toOwner' = [g \in Guardians |-> <<>>]
    /\ toGuardian' = [g \in Guardians |-> <<>>]
    /\ observed' = [g \in Guardians |-> "starting"]
    /\ shutdown' = [g \in Guardians |-> None]
    /\ proof' = [g \in Guardians |-> FALSE]
    /\ UNCHANGED <<ledger, pinned, starts, live, losses>>

Tick ==
    \/ ControllerStarts \/ Inspect \/ Inspected \/ NotInspected \/ ReadRow
    \/ Settle \/ Halt \/ Wait \/ Prepare
    \/ Launch \/ SendLaunch \/ LaunchAnswered \/ LaunchUnanswered \/ LaunchGivesUp
    \/ Stop \/ StopAnswered \/ StopUnanswered \/ StopEnds

GuardianStep(g) ==
    \/ Claim(g) \/ Listen(g) \/ NeverLaunched(g)
    \/ \E m \in inbox : AnswerInspect(g, m) \/ AnswerStop(g, m) \/ AnswerLaunch(g, m)
    \/ Pin(g) \/ Spawn(g) \/ SpawnFails(g)
    \/ HearRunning(g) \/ HearShutdown(g, "exit") \/ HearShutdown(g, "stop")
    \/ HearKillReady(g) \/ HearExit(g)

OwnerStep(g) ==
    Start(g) \/ HearStop(g) \/ StopsItself(g) \/ AgentClosed(g) \/ KillOthers(g) \/ KillItself(g)

Accident(g) == SocketFails(g) \/ Terminate(g) \/ GuardianDies(g) \/ OwnerDies(g) \/ AgentExits(g)

Next ==
    \/ Tick \/ ControllerDies \/ StopOwned \/ SessionEnds \/ Reboot
    \/ \E g \in Guardians : GuardianStep(g) \/ OwnerStep(g) \/ Accident(g)

Spec == Init /\ [][Next]_vars

(* What the code's scheduling gives.  Timers fire, and a guardian and an owner that run    *)
(* take their next step.  Of the controller nothing is certain, and only Concluded assumes *)
(* it: it is started again until it stays up, the server answers some tick that the        *)
(* session is over, and a minute passes between two of its ticks.                          *)
GuardianFairness(g) ==
    /\ WF_vars(Claim(g)) /\ WF_vars(Listen(g)) /\ WF_vars(NeverLaunched(g))
    /\ WF_vars(Pin(g)) /\ WF_vars(Spawn(g) \/ SpawnFails(g))
    /\ WF_vars(HearExit(g))

OwnerFairness(g) ==
    WF_vars(Start(g)) /\ WF_vars(StopsItself(g)) /\ WF_vars(KillOthers(g)) /\ WF_vars(KillItself(g))

ControllerFairness ==
    /\ <>[][~ControllerDies]_vars
    /\ WF_vars(Tick)
    /\ SF_vars(Halt /\ ~live)
    /\ SF_vars((NotInspected \/ StopUnanswered) /\ Over')

FairSpec == Spec /\ \A g \in Guardians : GuardianFairness(g) /\ OwnerFairness(g)

-----------------------------------------------------------------------------
(* What must hold.                                                         *)

Answers == {"ok", "refused", None}
Places == {"down", "idle", "inspecting", "asked", "deciding", "halting", "prepared",
           "launching", "sent", "stopping", "ending"}

Rows == [status : Statuses, command : Commands \cup {None}, boot : Nat, lost : BOOLEAN]
Controllers == {c \in [at : Places, boot : Nat, fresh : BOOLEAN, command : Commands \cup {None},
                       answer : Answers] : c.at \in {"launching", "sent"} => c.command # None}
Requests == [body : Commands \cup {"inspect", "stop"}, asked : BOOLEAN]
GuardianPhases == {"none", "spawned", "claimed", "open", "checked", "pinned", "over"}
OwnerPhases == {"none", "idle", "stopping", "ready", "gone"}
OwnerHears == {"start", "stop"}
OwnerSays == {"running", "exit", "stop", "kill_ready"}

\* The shape of the state.
TypeOK ==
    /\ row \in Rows /\ settled \in BOOLEAN /\ live \in BOOLEAN
    /\ ctl \in Controllers
    /\ inbox \subseteq Requests
    /\ guardian \in [Guardians -> GuardianPhases]
    /\ pinned \in [Guardians -> Commands \cup {None}]
    /\ observed \in [Guardians -> {"starting", "running", "stopping"}]
    /\ shutdown \in [Guardians -> {"exit", "stop", None}]
    /\ proof \in [Guardians -> BOOLEAN]
    /\ owner \in [Guardians -> OwnerPhases]
    /\ agent \in [Guardians -> {"none", "running", "left", "gone"}]
    /\ toOwner \in [Guardians -> Seq(OwnerHears)]
    /\ toGuardian \in [Guardians -> Seq(OwnerSays)]
    /\ starts \in Seq(Commands \cup {None})
    /\ boot \in Nat /\ losses \in Nat

\* Whatever of the launch lives or is about to be spawned is what its row pins, and the row
\* says neither that nobody claimed the launch nor that it ended.  A checkout is captured
\* and a session released on the strength of this.
Accounted ==
    \A g \in Guardians :
        OwnerLives(g) \/ Running(g) \/ guardian[g] = "pinned" =>
            /\ ~Over /\ ~settled
            /\ row.status # "reserved"
            /\ row.command = pinned[g]

\* However many controllers, retries and guardians a launch goes through, one agent is
\* started at most, with the command the row pins.
StartedOnce ==
    /\ Len(starts) <= 1
    /\ \A i \in 1..Len(starts) : starts[i] = row.command

\* An ended launch has nothing running, as ledger.ts says of end() and README.md of a
\* reboot: an unreadable boot identifier proves nothing.
EndedNothingRuns == Over => \A g \in Guardians : ~OwnerLives(g) /\ ~Running(g)

\* An uncertain launch with a pinned command may still run: nothing but its own guardian changes
\* what is recorded of it, or a reboot that left none of its processes.
VerdictNeedsWitness ==
    [][row.status = "uncertain" /\ row.command # None /\ row'.status # "uncertain" =>
            \/ /\ boot > row.boot
               /\ \A g \in Guardians : ~GuardianLives(g) /\ ~OwnerLives(g) /\ ~Running(g)
            \/ \E g \in Guardians : guardian[g] \in {"open", "pinned"} /\ pinned[g] = row.command]_vars

\* The promise: one start, and nothing alive or started once the launch is over.
Promise == INSTANCE LaunchPromise WITH alive <- \E g \in Guardians : Running(g), over <- Over
KeepsPromise == Promise!Spec

\* No agent runs forever, whatever becomes of the controller and of one supervisor.
AgentsEnd == \A g \in Guardians : Running(g) ~> ~Running(g)

\* Once its session is over a launch is recorded as ended, or is left to the operator: a
\* command was pinned and no guardian is left to say what became of it.
Concluded ==
    ControllerFairness =>
        (~live ~> \/ Over
                  \/ /\ row.status = "uncertain" /\ row.command # None
                     /\ \A g \in Guardians : ~GuardianLives(g))
=============================================================================

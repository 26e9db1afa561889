--------------------------- MODULE LaunchesProofs ---------------------------
(***************************************************************************)
(* Proofs about Launches, for any number of guardians, commands, reboots,  *)
(* losses and pending requests: what the row says of a launch is true of   *)
(* its processes, and Launches implements LaunchPromise.                   *)
(***************************************************************************)
EXTENDS Launches, SequenceTheorems, TLAPS

-----------------------------------------------------------------------------
(* Type correctness.                                                       *)

\* What the row becomes by its writers is a row.
LEMMA RowTypes ==
    ASSUME row \in Rows
    PROVE  /\ \A status \in Statuses : Written(status) \in Rows
           /\ Uncertain(row) \in Rows
           /\ \A read : AfterLoss(row, read) \subseteq Rows
<1>1. row.status \in Statuses /\ row.command \in Commands \cup {None}
    /\ row.boot \in Nat /\ row.lost \in BOOLEAN
    BY DEF Rows
<1>2. \A status \in Statuses : [row EXCEPT !.status = status] \in Rows BY DEF Rows
<1>3. [row EXCEPT !.lost = TRUE, !.status = "uncertain"] \in Rows BY DEF Rows, Statuses
<1>4. Uncertain(row) \in Rows BY <1>2 DEF Uncertain, Statuses
<1>5. \A status \in Statuses : Written(status) \in Rows BY <1>2 DEF Written
<1>6. [row EXCEPT !.status = "stopped"] \in Rows BY <1>2 DEF Statuses
<1>7. \A read : AfterLoss(row, read) \subseteq Rows BY <1>3, <1>4, <1>6 DEF AfterLoss
<1> QED BY <1>4, <1>5, <1>7

\* Where the controller goes it stays a controller.
LEMMA ControllerTypes ==
    ASSUME ctl \in Controllers
    PROVE  /\ Down \in Controllers
           /\ \A place \in Places :
                (place \in {"launching", "sent"} => ctl.at \in {"launching", "sent"}) /\ Move(place)
                    => ctl' \in Controllers
           /\ \A answer \in {"ok", "refused"} : [ctl EXCEPT !.answer = answer] \in Controllers
<1>1. Down \in Controllers BY DEF Down, Controllers, Places, Answers
<1>2. ASSUME NEW place \in Places, Move(place),
             place \in {"launching", "sent"} => ctl.at \in {"launching", "sent"}
      PROVE  ctl' \in Controllers
  <2> DEFINE c == IF place \in {"launching", "sent"} THEN ctl.command ELSE None
  <2>1. ctl' = [at |-> place, boot |-> ctl.boot, fresh |-> FALSE, command |-> c, answer |-> None]
      BY <1>2 DEF Move, Down
  <2>2. ctl.boot \in Nat /\ ctl.command \in Commands \cup {None}
      /\ (ctl.at \in {"launching", "sent"} => ctl.command # None)
      BY DEF Controllers
  <2>3. c \in Commands \cup {None} /\ (place \in {"launching", "sent"} => c # None)
      BY <1>2, <2>2
  <2> HIDE DEF c
  <2> QED BY <2>1, <2>2, <2>3 DEF Controllers, Answers
<1>3. \A answer \in {"ok", "refused"} : [ctl EXCEPT !.answer = answer] \in Controllers
  <2>1. ASSUME NEW answer \in {"ok", "refused"} PROVE [ctl EXCEPT !.answer = answer] \in Controllers
    <3>1. /\ ctl \in [at : Places, boot : Nat, fresh : BOOLEAN, command : Commands \cup {None},
                      answer : Answers]
          /\ ctl.at \in {"launching", "sent"} => ctl.command # None
        BY DEF Controllers
    <3>2. [ctl EXCEPT !.answer = answer].at = ctl.at /\ [ctl EXCEPT !.answer = answer].command = ctl.command
        BY <3>1
    <3> QED BY <3>1, <3>2 DEF Controllers, Answers
  <2> QED BY <2>1
<1> QED BY <1>1, <1>2, <1>3

LEMMA TailSeq ==
    ASSUME NEW S, NEW s \in Seq(S), s # <<>>
    PROVE  Tail(s) \in Seq(S)
OBVIOUS

LEMMA InboxTypes ==
    ASSUME inbox \subseteq Requests
    PROVE  /\ Stale(inbox) \subseteq Requests
           /\ \A body \in Commands \cup {"inspect", "stop"} : Ask(body) => inbox' \subseteq Requests
<1>1. Stale(inbox) \subseteq Requests
  <2>1. \A m \in Requests : [m EXCEPT !.asked = FALSE] \in Requests BY DEF Requests
  <2> QED BY <2>1 DEF Stale
<1>2. \A body \in Commands \cup {"inspect", "stop"} : Ask(body) => inbox' \subseteq Requests
  <2>1. \A body \in Commands \cup {"inspect", "stop"} : [body |-> body, asked |-> TRUE] \in Requests
      BY DEF Requests
  <2> QED BY <2>1 DEF Ask
<1> QED BY <1>1, <1>2

\* What an owner sends are messages.
LEMMA SentTypes ==
    ASSUME toGuardian \in [Guardians -> Seq(OwnerSays)], NEW g \in Guardians,
           NEW messages \in Seq(OwnerSays), Sent(g, messages)
    PROVE  toGuardian' \in [Guardians -> Seq(OwnerSays)]
<1>1. toGuardian[g] \o messages \in Seq(OwnerSays) BY ConcatProperties
<1>2. <<>> \in Seq(OwnerSays) OBVIOUS
<1> QED BY <1>1, <1>2 DEF Sent


LEMMA ControllerTypesStep ==
    ASSUME LaunchAssumption, TypeOK, Tick \/ ControllerDies \/ StopOwned
    PROVE  TypeOK'
<1> USE DEF ledger, supervisor, group, machine
<1>a. /\ \A status \in Statuses : Written(status) \in Rows
      /\ Uncertain(row) \in Rows
      /\ \A read : AfterLoss(row, read) \subseteq Rows
    BY RowTypes DEF TypeOK
<1>b. /\ Down \in Controllers
      /\ \A place \in Places :
          (place \in {"launching", "sent"} => ctl.at \in {"launching", "sent"}) /\ Move(place)
              => ctl' \in Controllers
      /\ \A answer \in {"ok", "refused"} : [ctl EXCEPT !.answer = answer] \in Controllers
    BY ControllerTypes DEF TypeOK
<1>c. /\ Stale(inbox) \subseteq Requests
      /\ \A body \in Commands \cup {"inspect", "stop"} : Ask(body) => inbox' \subseteq Requests
    BY InboxTypes DEF TypeOK
<1>1. CASE ControllerStarts
  <2>1. \A read \in Nat : [Down EXCEPT !.at = "idle", !.boot = read] \in Controllers
      BY DEF Down, Controllers, Places, Answers
  <2>2. PICK read \in {boot} \cup (IF MayMissBoot THEN {0} ELSE {}) :
              ctl' = [Down EXCEPT !.at = "idle", !.boot = read]
      BY <1>1 DEF ControllerStarts
  <2>3. read \in Nat BY DEF TypeOK
  <2>4. ctl' \in Controllers BY <2>1, <2>2, <2>3
  <2> QED BY <1>1, <2>4 DEF ControllerStarts, TypeOK
<1>2. CASE ControllerDies BY <1>2, <1>a, <1>b, <1>c DEF ControllerDies, At, TypeOK, Places, Statuses
<1>3. CASE Inspect BY <1>3, <1>a, <1>b, <1>c DEF Inspect, At, TypeOK, Places, Statuses
<1>4. CASE Inspected BY <1>4, <1>a, <1>b, <1>c DEF Inspected, At, TypeOK, Places, Statuses
<1>5. CASE NotInspected BY <1>5, <1>a, <1>b, <1>c DEF NotInspected, At, TypeOK, Places, Statuses
<1>6. CASE ReadRow
  <2>1. ctl \in Controllers /\ ctl.at = "asked" BY <1>6 DEF ReadRow, At, TypeOK
  <2>2. \A f \in BOOLEAN : [ctl EXCEPT !.at = "deciding", !.fresh = f] \in Controllers
      BY <2>1 DEF Controllers, Places
  <2> DEFINE f == row.status \in {"reserved", "starting"}
  <2>3. ctl' = [ctl EXCEPT !.at = "deciding", !.fresh = f] BY <1>6 DEF ReadRow
  <2>4. f \in BOOLEAN OBVIOUS
  <2> HIDE DEF f
  <2>5. ctl' \in Controllers BY <2>2, <2>3, <2>4
  <2> QED BY <1>6, <2>5 DEF ReadRow, TypeOK
<1>7. CASE Settle BY <1>7, <1>a, <1>b, <1>c DEF Settle, At, TypeOK, Places, Statuses
<1>8. CASE Halt BY <1>8, <1>a, <1>b, <1>c DEF Halt, At, TypeOK, Places, Statuses
<1>9. CASE Wait BY <1>9, <1>a, <1>b, <1>c DEF Wait, At, TypeOK, Places, Statuses
<1>10. CASE Prepare BY <1>10, <1>a, <1>b, <1>c DEF Prepare, At, TypeOK, Places, Statuses
<1>11. CASE StopOwned BY <1>11, <1>a, <1>b, <1>c DEF StopOwned, At, TypeOK, Places, Statuses
<1>12. CASE Launch
  <2>1. \A c \in Commands : [ctl EXCEPT !.at = "launching", !.command = c] \in Controllers
      BY LaunchAssumption DEF Controllers, Places, TypeOK
  <2>2. ctl' \in Controllers BY <1>12, <1>b, <2>1 DEF Launch, Places
  <2>3. [row EXCEPT !.boot = IF ctl.boot = 0 THEN @ ELSE ctl.boot] \in Rows
      BY DEF Rows, Controllers, TypeOK
  <2>4. row' \in Rows BY <1>12, <2>3 DEF Launch, TypeOK
  <2>5. guardian' \in [Guardians -> GuardianPhases]
    <3>1. guardian \in [Guardians -> GuardianPhases] BY DEF TypeOK
    <3>2. \A g \in Guardians : [guardian EXCEPT ![g] = "spawned"] \in [Guardians -> GuardianPhases]
        BY <3>1 DEF GuardianPhases
    <3>3. guardian' = guardian \/ \E g \in Guardians : guardian' = [guardian EXCEPT ![g] = "spawned"]
        BY <1>12 DEF Launch
    <3> QED BY <3>1, <3>2, <3>3
  <2> QED BY <1>12, <2>2, <2>4, <2>5 DEF Launch, TypeOK
<1>13. CASE SendLaunch
  <2>1. ctl' \in Controllers BY <1>13, <1>b DEF SendLaunch, At, Places
  <2>2. ctl.command \in Commands BY <1>13 DEF SendLaunch, At, TypeOK, Controllers
  <2>3. inbox' \subseteq Requests BY <1>13, <1>c, <2>2 DEF SendLaunch
  <2> QED BY <1>13, <2>1, <2>3 DEF SendLaunch, TypeOK
<1>14. CASE LaunchAnswered
    BY <1>14, <1>a, <1>b, <1>c DEF LaunchAnswered, At, TypeOK, Places, Statuses
<1>15. CASE LaunchUnanswered
    BY <1>15, <1>a, <1>b, <1>c DEF LaunchUnanswered, At, TypeOK, Places, Statuses
<1>16. CASE LaunchGivesUp BY <1>16, <1>a, <1>b, <1>c DEF LaunchGivesUp, At, TypeOK, Places, Statuses
<1>17. CASE Stop BY <1>17, <1>a, <1>b, <1>c DEF Stop, At, TypeOK, Places, Statuses
<1>18. CASE StopAnswered BY <1>18, <1>a, <1>b, <1>c DEF StopAnswered, At, TypeOK, Places, Statuses
<1>19. CASE StopUnanswered
    BY <1>19, <1>a, <1>b, <1>c DEF StopUnanswered, At, TypeOK, Places, Statuses
<1>20. CASE StopEnds BY <1>20, <1>a, <1>b, <1>c DEF StopEnds, At, TypeOK, Places, Statuses
<1> QED
    BY <1>1, <1>2, <1>3, <1>4, <1>5, <1>6, <1>7, <1>8, <1>9, <1>10, <1>11, <1>12, <1>13, <1>14,
           <1>15, <1>16, <1>17, <1>18, <1>19, <1>20
       DEF Tick

LEMMA GuardianTypes ==
    ASSUME LaunchAssumption, TypeOK, NEW g \in Guardians,
           GuardianStep(g) \/ Accident(g)
    PROVE  TypeOK'
<1> USE DEF ledger, supervisor, group, machine
<1>a. \A status \in Statuses : Written(status) \in Rows BY RowTypes DEF TypeOK
<1>b. \A m \in inbox, answer \in {"ok", "refused"} :
         /\ [ctl EXCEPT !.answer = answer] \in Controllers
         /\ Reply(m, answer) => inbox' \subseteq Requests /\ ctl' \in Controllers
    BY ControllerTypes DEF TypeOK, Reply
<1>c. \A phase \in GuardianPhases : Enter(g, phase) =>
         /\ guardian' \in [Guardians -> GuardianPhases]
         /\ UNCHANGED <<pinned, observed, shutdown, proof>>
    BY DEF TypeOK, Enter
<1>d. Exit(g) =>
         /\ guardian' \in [Guardians -> GuardianPhases]
         /\ pinned' = pinned
         /\ observed' \in [Guardians -> {"starting", "running", "stopping"}]
         /\ shutdown' \in [Guardians -> {"exit", "stop", None}]
         /\ proof' \in [Guardians -> BOOLEAN]
         /\ toGuardian' \in [Guardians -> Seq(OwnerSays)]
  <2>1. <<>> \in Seq(OwnerSays) OBVIOUS
  <2> QED BY <2>1 DEF TypeOK, Exit, GuardianPhases
<1>e. {"starting", "claimed", "over", "open", "stopped", "uncertain"} \subseteq Statuses \cup GuardianPhases
    BY DEF Statuses, GuardianPhases
<1>f. toGuardian[g] # <<>> => Tail(toGuardian[g]) \in Seq(OwnerSays) BY TailSeq DEF TypeOK
<1>1. CASE Claim(g) BY <1>1, <1>a, <1>c, <1>d, <1>e DEF Claim, TypeOK, Statuses, GuardianPhases
<1>2. CASE Listen(g) BY <1>2, <1>a, <1>c, <1>d, <1>e DEF Listen, TypeOK, Statuses, GuardianPhases
<1>3. CASE NeverLaunched(g)
    BY <1>3, <1>a, <1>c, <1>d, <1>e DEF NeverLaunched, TypeOK, Statuses, GuardianPhases
<1>4. CASE \E m \in inbox : AnswerInspect(g, m)
  <2>1. PICK m \in inbox : AnswerInspect(g, m) BY <1>4
  <2>2. row' \in Rows BY <1>a, <2>1 DEF AnswerInspect, TypeOK, Statuses
  <2>3. inbox' \subseteq Requests /\ ctl' \in Controllers BY <1>b, <2>1 DEF AnswerInspect
  <2> QED BY <2>1, <2>2, <2>3 DEF AnswerInspect, TypeOK
<1>5. CASE \E m \in inbox : AnswerStop(g, m)
  <2>1. PICK m \in inbox : AnswerStop(g, m) BY <1>5
  <2>2. row' \in Rows BY <1>a, <2>1 DEF AnswerStop, TypeOK, Statuses
  <2>3. inbox' \subseteq Requests /\ ctl' \in Controllers
      BY <1>b, <2>1 DEF AnswerStop, TypeOK
  <2>4. toOwner' \in [Guardians -> Seq(OwnerHears)]
    <3>1. WithStop(toOwner[g]) \in Seq(OwnerHears)
      <4>1. Append(toOwner[g], "stop") \in Seq(OwnerHears) BY DEF TypeOK, OwnerHears
      <4> QED BY <4>1 DEF WithStop, TypeOK
    <3> QED BY <2>1, <3>1 DEF AnswerStop, TypeOK
  <2>5. /\ guardian' \in [Guardians -> GuardianPhases]
        /\ pinned' = pinned
        /\ observed' \in [Guardians -> {"starting", "running", "stopping"}]
        /\ shutdown' \in [Guardians -> {"exit", "stop", None}]
        /\ proof' \in [Guardians -> BOOLEAN]
        /\ toGuardian' \in [Guardians -> Seq(OwnerSays)]
      BY <1>d, <2>1 DEF AnswerStop, TypeOK
  <2> QED BY <2>1, <2>2, <2>3, <2>4, <2>5 DEF AnswerStop, TypeOK
<1>6. CASE \E m \in inbox : AnswerLaunch(g, m)
  <2>1. PICK m \in inbox : AnswerLaunch(g, m) BY <1>6
  <2>2. row' \in Rows BY <1>a, <2>1 DEF AnswerLaunch, TypeOK, Statuses
  <2>3. inbox' \subseteq Requests /\ ctl' \in Controllers
      BY <1>b, <2>1 DEF AnswerLaunch, TypeOK
  <2>4. /\ guardian' \in [Guardians -> GuardianPhases]
        /\ pinned' \in [Guardians -> Commands \cup {None}]
        /\ observed' \in [Guardians -> {"starting", "running", "stopping"}]
        /\ shutdown' \in [Guardians -> {"exit", "stop", None}]
        /\ proof' \in [Guardians -> BOOLEAN]
        /\ toGuardian' \in [Guardians -> Seq(OwnerSays)]
      BY <1>d, <2>1 DEF AnswerLaunch, TypeOK, GuardianPhases
  <2> QED BY <2>1, <2>2, <2>3, <2>4 DEF AnswerLaunch, TypeOK
<1>7. CASE Pin(g)
  <2>1. row' \in Rows
    <3>1. pinned[g] \in Commands \cup {None} BY DEF TypeOK
    <3>2. [row EXCEPT !.command = pinned[g]] \in Rows BY <3>1 DEF TypeOK, Rows
    <3> QED BY <1>7, <3>2 DEF Pin, TypeOK
  <2>2. inbox' \subseteq Requests /\ ctl' \in Controllers BY <1>7, <1>b DEF Pin, TypeOK
  <2>3. guardian' \in [Guardians -> GuardianPhases] /\ pinned' \in [Guardians -> Commands \cup {None}]
      BY <1>7 DEF Pin, TypeOK, GuardianPhases
  <2> QED BY <1>7, <2>1, <2>2, <2>3 DEF Pin, TypeOK
<1>8. CASE Spawn(g)
  <2>1. inbox' \subseteq Requests /\ ctl' \in Controllers BY <1>8, <1>b DEF Spawn
  <2>2. guardian' \in [Guardians -> GuardianPhases] /\ owner' \in [Guardians -> OwnerPhases]
      BY <1>8 DEF Spawn, TypeOK, GuardianPhases, OwnerPhases
  <2>3. toOwner' \in [Guardians -> Seq(OwnerHears)]
    <3>1. <<"start">> \in Seq(OwnerHears) BY DEF OwnerHears
    <3> QED BY <1>8, <3>1 DEF Spawn, TypeOK
  <2> QED BY <1>8, <2>1, <2>2, <2>3 DEF Spawn, TypeOK
<1>9. CASE SpawnFails(g)
  <2>1. inbox' \subseteq Requests /\ ctl' \in Controllers BY <1>9, <1>b DEF SpawnFails, TypeOK
  <2>2. row' \in Rows BY <1>9, <1>a DEF SpawnFails, Statuses
  <2> QED BY <1>9, <1>d, <2>1, <2>2 DEF SpawnFails, TypeOK
<1>10. CASE HearRunning(g)
  <2>1. row' \in Rows BY <1>10, <1>a DEF HearRunning, TypeOK, Statuses
  <2>2. toGuardian' \in [Guardians -> Seq(OwnerSays)] BY <1>10, <1>f DEF HearRunning, Hears, TypeOK
  <2> QED BY <1>10, <2>1, <2>2 DEF HearRunning, TypeOK
<1>11. CASE \E reason \in {"exit", "stop"} : HearShutdown(g, reason)
  <2>1. PICK reason \in {"exit", "stop"} : HearShutdown(g, reason) BY <1>11
  <2>2. row' \in Rows BY <1>a, <2>1 DEF HearShutdown, Statuses
  <2>3. toGuardian' \in [Guardians -> Seq(OwnerSays)] BY <1>f, <2>1 DEF HearShutdown, Hears, TypeOK
  <2>4. shutdown' \in [Guardians -> {"exit", "stop", None}] BY <2>1 DEF HearShutdown, TypeOK
  <2> QED BY <2>1, <2>2, <2>3, <2>4 DEF HearShutdown, TypeOK
<1>12. CASE HearKillReady(g)
  <2>1. toGuardian' \in [Guardians -> Seq(OwnerSays)]
      BY <1>12, <1>f DEF HearKillReady, Hears, TypeOK
  <2>2. /\ owner' \in [Guardians -> OwnerPhases]
        /\ agent' \in [Guardians -> {"none", "running", "left", "gone"}]
      BY <1>12 DEF HearKillReady, Kill, TypeOK, OwnerPhases
  <2>3. toOwner' \in [Guardians -> Seq(OwnerHears)]
    <3>1. <<>> \in Seq(OwnerHears) OBVIOUS
    <3>2. toOwner' = toOwner \/ toOwner' = [toOwner EXCEPT ![g] = <<>>]
        BY <1>12 DEF HearKillReady, Kill
    <3> QED BY <3>1, <3>2 DEF TypeOK
  <2>4. proof' \in [Guardians -> BOOLEAN] BY <1>12 DEF HearKillReady, TypeOK
  <2> QED BY <1>12, <2>1, <2>2, <2>3, <2>4 DEF HearKillReady, TypeOK
<1>13. CASE HearExit(g)
  <2>1. row' \in Rows BY <1>13, <1>a DEF HearExit, Statuses
  <2>2. agent' \in [Guardians -> {"none", "running", "left", "gone"}]
      BY <1>13 DEF HearExit, Swept, TypeOK
  <2> QED BY <1>13, <1>d, <2>1, <2>2 DEF HearExit, TypeOK
<1>14. CASE SocketFails(g)
  <2>1. row' \in Rows BY <1>14, <1>a DEF SocketFails, Statuses
  <2> QED BY <1>14, <1>d, <2>1 DEF SocketFails, TypeOK
<1>15. CASE Terminate(g)
  <2>1. <<"stop">> \in Seq(OwnerHears) BY DEF OwnerHears
  <2> QED BY <1>15, <2>1 DEF Terminate, TypeOK
<1>16. CASE GuardianDies(g)
  <2> QED BY <1>16, <1>d DEF GuardianDies, TypeOK
<1>17. CASE OwnerDies(g)
  <2>1. <<>> \in Seq(OwnerHears) OBVIOUS
  <2> QED BY <1>17, <2>1 DEF OwnerDies, TypeOK, OwnerPhases
<1>18. CASE AgentExits(g)
  <2> QED BY <1>18 DEF AgentExits, TypeOK
<1> QED
    BY <1>1, <1>2, <1>3, <1>4, <1>5, <1>6, <1>7, <1>8, <1>9, <1>10, <1>11, <1>12, <1>13, <1>14,
           <1>15, <1>16, <1>17, <1>18
       DEF GuardianStep, Accident

LEMMA OwnerTypes ==
    ASSUME LaunchAssumption, TypeOK, NEW g \in Guardians, OwnerStep(g)
    PROVE  TypeOK'
<1> USE DEF ledger, supervisor, group, machine
<1>a. \A messages \in Seq(OwnerSays) : Sent(g, messages) => toGuardian' \in [Guardians -> Seq(OwnerSays)]
    BY SentTypes DEF TypeOK
<1>b. /\ <<>> \in Seq(OwnerSays) /\ <<"stop">> \in Seq(OwnerSays) /\ <<"exit">> \in Seq(OwnerSays)
      /\ <<"running">> \in Seq(OwnerSays) /\ <<"kill_ready">> \in Seq(OwnerSays)
      /\ <<>> \o <<"stop">> = <<"stop">> /\ <<>> \o <<"exit">> = <<"exit">>
    BY DEF OwnerSays
<1>c. \A reason \in {"stop", "exit"} : ShutDown(g, reason, <<>>) =>
         /\ owner' \in [Guardians -> OwnerPhases]
         /\ toGuardian' \in [Guardians -> Seq(OwnerSays)]
  <2>1. ASSUME NEW reason \in {"stop", "exit"}, ShutDown(g, reason, <<>>)
        PROVE  /\ owner' \in [Guardians -> OwnerPhases]
               /\ Sent(g, <<>> \o <<reason>>) \/ Sent(g, <<>>)
      BY <2>1 DEF ShutDown, TypeOK, OwnerPhases
  <2> QED BY <1>a, <1>b, <2>1
<1>d. toOwner[g] # <<>> => Tail(toOwner[g]) \in Seq(OwnerHears) BY TailSeq DEF TypeOK
<1>e. Kill(g) => /\ owner' \in [Guardians -> OwnerPhases]
                 /\ agent' \in [Guardians -> {"none", "running", "left", "gone"}]
                 /\ toOwner' \in [Guardians -> Seq(OwnerHears)]
  <2>1. <<>> \in Seq(OwnerHears) OBVIOUS
  <2> QED BY <2>1 DEF Kill, TypeOK, OwnerPhases
<1>1. CASE Start(g)
  <2>1. toOwner' \in [Guardians -> Seq(OwnerHears)] BY <1>1, <1>d DEF Start, TypeOK
  <2>2. agent' \in [Guardians -> {"none", "running", "left", "gone"}] BY <1>1 DEF Start, TypeOK
  <2>3. owner' \in [Guardians -> OwnerPhases] /\ toGuardian' \in [Guardians -> Seq(OwnerSays)]
      BY <1>1, <1>a, <1>b, <1>c DEF Start, TypeOK
  <2>4. starts' \in Seq(Commands \cup {None})
    <3>1. Append(starts, pinned[g]) \in Seq(Commands \cup {None}) BY DEF TypeOK
    <3> QED BY <1>1, <3>1 DEF Start, TypeOK
  <2> QED BY <1>1, <2>1, <2>2, <2>3, <2>4 DEF Start, TypeOK
<1>2. CASE HearStop(g) BY <1>2, <1>c, <1>d DEF HearStop, TypeOK
<1>3. CASE StopsItself(g) BY <1>3, <1>c DEF StopsItself, TypeOK
<1>4. CASE AgentClosed(g) BY <1>4, <1>c DEF AgentClosed, TypeOK
<1>5. CASE KillOthers(g)
  <2>1. CASE GuardianLives(g)
    <3>1. owner' \in [Guardians -> OwnerPhases] /\ agent' \in [Guardians -> {"none", "running", "left", "gone"}]
        BY <1>5, <2>1 DEF KillOthers, TypeOK, OwnerPhases
    <3>2. toGuardian' \in [Guardians -> Seq(OwnerSays)] BY <1>5, <2>1, <1>a, <1>b DEF KillOthers
    <3> QED BY <1>5, <2>1, <3>1, <3>2 DEF KillOthers, TypeOK
  <2>2. CASE ~GuardianLives(g) BY <1>5, <2>2, <1>e DEF KillOthers, TypeOK
  <2> QED BY <2>1, <2>2
<1>6. CASE KillItself(g) BY <1>6, <1>e DEF KillItself, TypeOK
<1> QED BY <1>1, <1>2, <1>3, <1>4, <1>5, <1>6 DEF OwnerStep


LEMMA TypesStep ==
    ASSUME LaunchAssumption, TypeOK, [Next]_vars
    PROVE  TypeOK'
<1>1. CASE Tick \/ ControllerDies \/ StopOwned BY <1>1, ControllerTypesStep
<1>2. CASE SessionEnds BY <1>2 DEF SessionEnds, ledger, supervisor, group, TypeOK
<1>3. CASE Reboot
  <2>1. <<>> \in Seq(OwnerHears) /\ <<>> \in Seq(OwnerSays) OBVIOUS
  <2>2. ctl' \in Controllers /\ inbox' \subseteq Requests
      BY <1>3, ControllerTypes DEF Reboot, TypeOK
  <2>3. /\ guardian' \in [Guardians -> GuardianPhases] /\ owner' \in [Guardians -> OwnerPhases]
        /\ agent' \in [Guardians -> {"none", "running", "left", "gone"}]
      BY <1>3 DEF Reboot, TypeOK, GuardianPhases, OwnerPhases
  <2>4. /\ toOwner' \in [Guardians -> Seq(OwnerHears)] /\ toGuardian' \in [Guardians -> Seq(OwnerSays)]
        /\ observed' \in [Guardians -> {"starting", "running", "stopping"}]
        /\ shutdown' \in [Guardians -> {"exit", "stop", None}] /\ proof' \in [Guardians -> BOOLEAN]
      BY <1>3, <2>1 DEF Reboot
  <2> QED BY <1>3, <2>2, <2>3, <2>4 DEF Reboot, ledger, TypeOK
<1>4. CASE \E g \in Guardians : GuardianStep(g) \/ Accident(g) BY <1>4, GuardianTypes
<1>5. CASE \E g \in Guardians : OwnerStep(g) BY <1>5, OwnerTypes
<1>6. CASE UNCHANGED vars
    BY <1>6 DEF vars, ledger, supervisor, group, machine, TypeOK
<1> QED BY <1>1, <1>2, <1>3, <1>4, <1>5, <1>6 DEF Next

LEMMA TypesInit == LaunchAssumption /\ Init => TypeOK
<1> SUFFICES ASSUME LaunchAssumption, Init PROVE TypeOK OBVIOUS
<1>1. <<>> \in Seq(OwnerHears) /\ <<>> \in Seq(OwnerSays) /\ <<>> \in Seq(Commands \cup {None}) OBVIOUS
<1>2. row \in Rows BY DEF Init, Rows, Statuses
<1>3. ctl \in Controllers BY DEF Init, Down, Controllers, Places, Answers
<1> QED BY <1>1, <1>2, <1>3 DEF Init, TypeOK, GuardianPhases, OwnerPhases

\* The variables keep their types.
THEOREM TypeCorrect == Spec => []TypeOK
<1>1. Init => TypeOK BY LaunchAssumption, TypesInit
<1>2. TypeOK /\ [Next]_vars => TypeOK' BY LaunchAssumption, TypesStep
<1> QED BY <1>1, <1>2, PTL DEF Spec


-----------------------------------------------------------------------------
(* The inductive invariant.                                                *)

\* Where a guardian, its owner and its agent are fits together.
Shaped(g) ==
    /\ guardian[g] \in {"none", "spawned", "claimed"} => pinned[g] = None
    /\ guardian[g] \in {"checked", "pinned"} => pinned[g] # None
    /\ owner[g] # "none" => guardian[g] \in {"open", "over"} /\ pinned[g] # None
    /\ guardian[g] = "open" /\ pinned[g] # None => owner[g] # "none"
    /\ owner[g] = "none" => agent[g] = "none" /\ toOwner[g] = <<>> /\ toGuardian[g] = <<>>
    /\ toOwner[g] \in {<<>>, <<"start">>, <<"stop">>, <<"start", "stop">>}
    /\ proof[g] => owner[g] = "gone" /\ ~Running(g)

ShapeInv == \A g \in Guardians : Shaped(g)

\* A guardian that claimed the launch and may act on it, or did.
Claimed(g) == guardian[g] \in {"claimed", "open", "checked", "pinned"} \/ pinned[g] # None

Alive(g) == OwnerLives(g) \/ Running(g) \/ guardian[g] = "pinned"

\* The row and the one guardian that claimed it.
RowInv ==
    /\ \A g, h \in Guardians : Claimed(g) /\ Claimed(h) => g = h
    /\ row.status = "reserved" => row.command = None /\ \A g \in Guardians : ~Claimed(g)
    /\ row.command # None => \E g \in Guardians : pinned[g] = row.command /\ guardian[g] # "checked"
    /\ \A g \in Guardians : owner[g] # "none" \/ guardian[g] = "pinned" => row.command = pinned[g]

\* What the row says ended has ended, if boots can be told apart.
EndInv ==
    /\ Over => MayMissBoot \/ \A g \in Guardians : ~Alive(g)
    /\ settled => Over

\* A boot a controller read is the machine's.  If every controller reads it, the one on the row
\* is the boot of everything of the launch that lives.
BootInv ==
    /\ boot > 0 /\ row.boot <= boot
    /\ ~At("down") => ctl.boot = boot \/ (MayMissBoot /\ ctl.boot = 0)
    /\ \/ MayMissBoot
       \/ \A g \in Guardians : GuardianLives(g) \/ OwnerLives(g) \/ Running(g) => row.boot = boot

\* The one start there may be is the one of the pinned command.
StartInv ==
    /\ starts = <<>> \/ (starts = <<row.command>> /\ \E g \in Guardians : owner[g] # "none")
    /\ \A g \in Guardians : toOwner[g] \in {<<"start">>, <<"start", "stop">>} => starts = <<>>

Inv == ShapeInv /\ RowInv /\ EndInv /\ BootInv /\ StartInv


-----------------------------------------------------------------------------
(* The controller touches nothing but the row, its own state and the socket, *)
(* and ends a row only if nobody claimed it or pinned its command, or if the  *)
(* row names another boot than the machine's.                                *)

RowMoves ==
    /\ row'.command = row.command
    /\ row'.status = "reserved" => row.status = "reserved"
    /\ Over => row'.status = row.status
    /\ Over' /\ ~Over => row.status = "reserved" \/ Unlaunched(row) \/ row.boot # boot
    /\ row.status = "uncertain" /\ row.command # None /\ row'.status # "uncertain" => row.boot # boot

LEMMA RowWrites ==
    ASSUME row \in Rows
    PROVE  /\ row' = row => RowMoves /\ row'.boot = row.boot
           /\ row' = Uncertain(row) => RowMoves /\ row'.boot = row.boot
           /\ \A read \in {0, boot} :
                row' \in AfterLoss(row, read) => RowMoves /\ row'.boot = row.boot
           /\ (Over \/ row.status = "reserved") /\ row' = Written("stopped")
                 => RowMoves /\ row'.boot = row.boot
<1>1. row = [status |-> row.status, command |-> row.command, boot |-> row.boot, lost |-> row.lost]
    BY DEF Rows
<1>2. row' = row => RowMoves /\ row'.boot = row.boot BY DEF RowMoves, Over
<1>3. row' = Uncertain(row) => RowMoves /\ row'.boot = row.boot
    BY <1>1 DEF RowMoves, Over, Uncertain, Ended
<1>4. ASSUME NEW read \in {0, boot}, row' \in AfterLoss(row, read)
      PROVE  RowMoves /\ row'.boot = row.boot
  <2>1. CASE row' = Uncertain(row) BY <1>3, <2>1
  <2>2. ASSUME row.boot # boot, ~Over, row' = [row EXCEPT !.status = "stopped"]
        PROVE  RowMoves /\ row'.boot = row.boot
      BY <1>1, <2>2 DEF RowMoves, Over, Ended
  <2>3. ASSUME Unlaunched(row), row' = [row EXCEPT !.lost = TRUE, !.status = "uncertain"]
        PROVE  RowMoves /\ row'.boot = row.boot
      BY <1>1, <2>3 DEF RowMoves, Over, Ended, Unlaunched
  <2>4. ASSUME Unlaunched(row), row' = [row EXCEPT !.status = "stopped"]
        PROVE  RowMoves /\ row'.boot = row.boot
      BY <1>1, <2>4 DEF RowMoves, Over, Ended, Unlaunched
  <2> QED BY <1>4, <2>1, <2>2, <2>3, <2>4 DEF AfterLoss, Over
<1>5. (Over \/ row.status = "reserved") /\ row' = Written("stopped") => RowMoves /\ row'.boot = row.boot
    BY <1>1, <1>2 DEF RowMoves, Over, Ended, Written, Writable
<1> QED BY <1>2, <1>3, <1>4, <1>5

\* A controller's step spawns at most a guardian of a launch nobody claimed, in the boot it
\* records if it could read it.
SpawnsGuardian ==
    /\ row.status = "reserved"
    /\ row'.boot = boot \/ (MayMissBoot /\ row'.boot = row.boot)
    /\ \E g \in Guardians :
          guardian[g] = "none" /\ guardian' = [guardian EXCEPT ![g] = "spawned"]

LEMMA ControllerFrame ==
    ASSUME LaunchAssumption, TypeOK, BootInv, Tick \/ ControllerDies \/ StopOwned
    PROVE  /\ UNCHANGED <<pinned, observed, shutdown, proof, group, machine>>
           /\ RowMoves
           /\ (guardian' = guardian /\ row'.boot = row.boot) \/ SpawnsGuardian
           /\ (settled' = settled) \/ Over
           /\ ctl'.at # "down" => ctl'.boot = boot \/ (MayMissBoot /\ ctl'.boot = 0)
<1> USE DEF ledger, supervisor, group, machine
<1>a. /\ row' = row => RowMoves /\ row'.boot = row.boot
      /\ row' = Uncertain(row) => RowMoves /\ row'.boot = row.boot
      /\ \A read \in {0, boot} : row' \in AfterLoss(row, read) => RowMoves /\ row'.boot = row.boot
      /\ (Over \/ row.status = "reserved") /\ row' = Written("stopped")
           => RowMoves /\ row'.boot = row.boot
    BY RowWrites DEF TypeOK
<1>b. ~At("down") => ctl.boot = boot \/ (MayMissBoot /\ ctl.boot = 0) BY DEF BootInv
<1>c. \A place : Move(place) => ctl'.boot = ctl.boot BY DEF Move, Down
<1>d. Down.at = "down" /\ (ctl' = Down => ctl'.at = "down") BY DEF Down, At
<1>1. CASE ControllerStarts
  <2>1. PICK read \in {boot} \cup (IF MayMissBoot THEN {0} ELSE {}) :
              ctl' = [Down EXCEPT !.at = "idle", !.boot = read]
      BY <1>1 DEF ControllerStarts
  <2>2. ctl'.boot = boot \/ (MayMissBoot /\ ctl'.boot = 0) BY <2>1 DEF Down
  <2> QED BY <1>1, <1>a, <2>2 DEF ControllerStarts
<1>2. CASE ControllerDies BY <1>2, <1>a, <1>b, <1>c, <1>d DEF ControllerDies, At
<1>3. CASE Inspect BY <1>3, <1>a, <1>b, <1>c, <1>d DEF Inspect, At
<1>4. CASE Inspected BY <1>4, <1>a, <1>b, <1>c, <1>d DEF Inspected, At
<1>5. CASE NotInspected BY <1>5, <1>a, <1>b, <1>c, <1>d DEF NotInspected, At
<1>6. CASE ReadRow
  <2>1. ctl'.boot = ctl.boot BY <1>6 DEF ReadRow, TypeOK, Controllers
  <2> QED BY <1>6, <1>a, <1>b, <2>1 DEF ReadRow, At
<1>7. CASE Settle BY <1>7, <1>a, <1>b, <1>c, <1>d DEF Settle, At
<1>8. CASE Halt BY <1>8, <1>a, <1>b, <1>c, <1>d DEF Halt, At
<1>9. CASE Wait BY <1>9, <1>a, <1>b, <1>c, <1>d DEF Wait, At
<1>10. CASE Prepare BY <1>10, <1>a, <1>b, <1>c, <1>d DEF Prepare, At
<1>11. CASE StopOwned BY <1>11, <1>a, <1>b, <1>c, <1>d DEF StopOwned, At
<1>12. CASE Launch
  <2>1. (ctl.boot = boot \/ (MayMissBoot /\ ctl.boot = 0)) /\ boot > 0
      BY <1>12, <1>b DEF Launch, At, BootInv
  <2>2. ctl'.boot = ctl.boot
    <3>1. \A c \in Commands : [ctl EXCEPT !.at = "launching", !.command = c].boot = ctl.boot
        BY DEF TypeOK, Controllers
    <3> QED BY <1>12, <1>c, <2>1, <3>1 DEF Launch
  <2>3. CASE row' = row /\ guardian' = guardian BY <1>12, <1>a, <2>1, <2>2, <2>3 DEF Launch
  <2>4. CASE ~(row' = row /\ guardian' = guardian)
    <3>1. /\ row.status = "reserved"
          /\ row' = [row EXCEPT !.boot = IF ctl.boot = 0 THEN @ ELSE ctl.boot]
          /\ \E g \in Guardians : guardian[g] = "none" /\ guardian' = [guardian EXCEPT ![g] = "spawned"]
        BY <1>12, <2>4 DEF Launch
    <3>2. /\ row'.boot = boot \/ (MayMissBoot /\ row'.boot = row.boot)
          /\ row'.command = row.command /\ row'.status = row.status
        BY <2>1, <3>1 DEF TypeOK, Rows
    <3>3. RowMoves /\ SpawnsGuardian BY <3>1, <3>2 DEF RowMoves, SpawnsGuardian, Over
    <3> QED BY <1>12, <2>1, <2>2, <3>3 DEF Launch
  <2> QED BY <2>3, <2>4
<1>13. CASE SendLaunch BY <1>13, <1>a, <1>b, <1>c, <1>d DEF SendLaunch, At
<1>14. CASE LaunchAnswered BY <1>14, <1>a, <1>b, <1>c, <1>d DEF LaunchAnswered, At
<1>15. CASE LaunchUnanswered BY <1>15, <1>a, <1>b, <1>c, <1>d DEF LaunchUnanswered, At
<1>16. CASE LaunchGivesUp BY <1>16, <1>a, <1>b, <1>c, <1>d DEF LaunchGivesUp, At
<1>17. CASE Stop BY <1>17, <1>a, <1>b, <1>c, <1>d DEF Stop, At
<1>18. CASE StopAnswered BY <1>18, <1>a, <1>b, <1>c, <1>d DEF StopAnswered, At
<1>19. CASE StopUnanswered BY <1>19, <1>a, <1>b, <1>c, <1>d DEF StopUnanswered, At
<1>20. CASE StopEnds BY <1>20, <1>a, <1>b, <1>c, <1>d DEF StopEnds, At
<1> QED
    BY <1>1, <1>2, <1>3, <1>4, <1>5, <1>6, <1>7, <1>8, <1>9, <1>10, <1>11, <1>12, <1>13, <1>14,
           <1>15, <1>16, <1>17, <1>18, <1>19, <1>20
       DEF Tick

-----------------------------------------------------------------------------
(* The invariant is kept by every process.                                 *)

\* Where nothing was claimed or pinned, or in a boot known to be another, nothing of the launch is alive.
LEMMA NobodyAlive ==
    ASSUME ShapeInv, RowInv, BootInv,
           row.status = "reserved" \/ row.command = None \/ (~MayMissBoot /\ row.boot # boot)
    PROVE  \A g \in Guardians : ~Alive(g)
<1> SUFFICES ASSUME NEW g \in Guardians PROVE ~Alive(g) OBVIOUS
<1>1. owner[g] # "none" \/ guardian[g] = "pinned" => pinned[g] # None /\ row.command = pinned[g]
    BY DEF ShapeInv, Shaped, RowInv
<1>2. Alive(g) => owner[g] # "none" \/ guardian[g] = "pinned"
    BY DEF Alive, OwnerLives, Running, ShapeInv, Shaped
<1>3. CASE row.status = "reserved" BY <1>1, <1>2, <1>3 DEF RowInv
<1>4. CASE row.command = None BY <1>1, <1>2, <1>4
<1>5. CASE ~MayMissBoot /\ row.boot # boot BY <1>5 DEF BootInv, Alive, GuardianLives
<1> QED BY <1>3, <1>4, <1>5

LEMMA InvInit == LaunchAssumption /\ Init => Inv
<1> SUFFICES ASSUME LaunchAssumption, Init PROVE Inv OBVIOUS
<1>1. row.boot = 0 /\ row.command = None /\ row.status \in {"reserved", "uncertain"} BY DEF Init
<1>2. ShapeInv BY DEF Init, ShapeInv, Shaped, Running
<1>3. RowInv BY <1>1 DEF Init, RowInv, Claimed
<1>4. EndInv BY <1>1 DEF Init, EndInv, Over, Ended
<1>5. BootInv BY <1>1 DEF Init, BootInv, At, Down, GuardianLives, OwnerLives, Running
<1>6. StartInv BY DEF Init, StartInv
<1> QED BY <1>2, <1>3, <1>4, <1>5, <1>6 DEF Inv

LEMMA InvController ==
    ASSUME LaunchAssumption, TypeOK, Inv, Tick \/ ControllerDies \/ StopOwned
    PROVE  Inv'
<1> USE DEF Inv
<1>1. /\ UNCHANGED <<pinned, observed, shutdown, proof, group, machine>>
      /\ RowMoves
      /\ (guardian' = guardian /\ row'.boot = row.boot) \/ SpawnsGuardian
      /\ (settled' = settled) \/ Over
      /\ ctl'.at # "down" => ctl'.boot = boot \/ (MayMissBoot /\ ctl'.boot = 0)
    BY ControllerFrame
<1>2. \A h \in Guardians : guardian'[h] = guardian[h]
                        \/ (guardian[h] = "none" /\ guardian'[h] = "spawned" /\ SpawnsGuardian)
    BY <1>1 DEF SpawnsGuardian, TypeOK
<1>3. ShapeInv' BY <1>1, <1>2 DEF ShapeInv, Shaped, Running, group
<1>4. \A h \in Guardians : Claimed(h)' <=> Claimed(h) BY <1>1, <1>2 DEF Claimed
<1>5. \A h \in Guardians : Alive(h)' <=> Alive(h)
    BY <1>1, <1>2 DEF Alive, OwnerLives, Running, group
<1>6. RowInv'
  <2>1. row'.command = row.command /\ (row'.status = "reserved" => row.status = "reserved")
      BY <1>1 DEF RowMoves
  <2>2. owner' = owner /\ pinned' = pinned BY <1>1 DEF group
  <2>3. \A h \in Guardians : /\ guardian'[h] = "checked" => guardian[h] = "checked"
                             /\ guardian'[h] = "pinned" => guardian[h] = "pinned"
      BY <1>2
  <2>4. \A g, h \in Guardians : Claimed(g)' /\ Claimed(h)' => g = h BY <1>4 DEF RowInv
  <2>5. row'.status = "reserved" => row'.command = None /\ \A g \in Guardians : ~Claimed(g)'
      BY <1>4, <2>1 DEF RowInv
  <2>6. row'.command # None => \E g \in Guardians : pinned'[g] = row'.command /\ guardian'[g] # "checked"
    <3>1. SUFFICES ASSUME row.command # None
                   PROVE  \E g \in Guardians : pinned[g] = row.command /\ guardian'[g] # "checked"
        BY <2>1, <2>2
    <3>2. PICK g \in Guardians : pinned[g] = row.command /\ guardian[g] # "checked"
        BY <3>1 DEF RowInv
    <3> QED BY <2>3, <3>2
  <2>7. \A g \in Guardians : owner'[g] # "none" \/ guardian'[g] = "pinned" => row'.command = pinned'[g]
      BY <2>1, <2>2, <2>3 DEF RowInv
  <2> QED BY <2>4, <2>5, <2>6, <2>7 DEF RowInv
<1>7. EndInv'
  <2>1. Over' => MayMissBoot \/ \A h \in Guardians : ~Alive(h)
    <3>1. CASE Over BY <3>1 DEF EndInv
    <3>2. CASE ~Over /\ ~MayMissBoot BY <1>1, <3>2, NobodyAlive DEF RowMoves, Unlaunched
    <3> QED BY <3>1, <3>2
  <2>2. Over => Over' BY <1>1 DEF RowMoves, Over
  <2>3. settled' => Over'
    <3>1. settled' = settled \/ Over BY <1>1
    <3> QED BY <2>2, <3>1 DEF EndInv
  <2> QED BY <1>5, <2>1, <2>3 DEF EndInv
<1>8. BootInv'
  <2>1. boot' = boot /\ live' = live BY <1>1 DEF machine
  <2>2. row'.boot = row.boot \/ row'.boot = boot BY <1>1 DEF SpawnsGuardian
  <2>3. boot \in Nat BY DEF TypeOK
  <2>4. ~MayMissBoot => \A h \in Guardians :
            (GuardianLives(h) \/ OwnerLives(h) \/ Running(h))' => row'.boot = boot
    <3>1. SUFFICES ASSUME ~MayMissBoot, NEW h \in Guardians,
                          (GuardianLives(h) \/ OwnerLives(h) \/ Running(h))', ~SpawnsGuardian
                   PROVE  row'.boot = boot
        BY DEF SpawnsGuardian
    <3>2. GuardianLives(h) \/ OwnerLives(h) \/ Running(h)
        BY <1>1, <1>2, <3>1 DEF GuardianLives, OwnerLives, Running, group
    <3> QED BY <1>1, <3>1, <3>2 DEF BootInv
  <2> QED BY <1>1, <2>1, <2>2, <2>3, <2>4 DEF BootInv, At
<1>9. StartInv' BY <1>1 DEF StartInv, RowMoves, group
<1> QED BY <1>3, <1>6, <1>7, <1>8, <1>9

LEMMA InvMachine ==
    ASSUME LaunchAssumption, TypeOK, Inv, SessionEnds \/ Reboot \/ UNCHANGED vars
    PROVE  Inv'
<1> USE DEF Inv
<1>1. CASE SessionEnds \/ UNCHANGED vars
  <2>1. /\ row' = row /\ settled' = settled /\ guardian' = guardian /\ pinned' = pinned /\ owner' = owner
        /\ agent' = agent /\ toOwner' = toOwner /\ toGuardian' = toGuardian /\ proof' = proof
        /\ starts' = starts /\ boot' = boot /\ ctl' = ctl
      BY <1>1 DEF SessionEnds, vars, ledger, supervisor, group, machine
  <2>2. ShapeInv' BY <2>1 DEF ShapeInv, Shaped, Running
  <2>3. RowInv' BY <2>1 DEF RowInv, Claimed
  <2>4. EndInv' BY <2>1 DEF EndInv, Over, Alive, OwnerLives, Running
  <2>5. BootInv' BY <2>1 DEF BootInv, At, GuardianLives, OwnerLives, Running
  <2>6. StartInv' BY <2>1 DEF StartInv
  <2> QED BY <2>2, <2>3, <2>4, <2>5, <2>6
<1>2. CASE Reboot
  <2>1. /\ row' = row /\ settled' = settled /\ pinned' = pinned /\ starts' = starts
        /\ boot' = boot + 1 /\ ctl'.at = "down"
      BY <1>2 DEF Reboot, ledger, Down
  <2>2. \A h \in Guardians :
          /\ ~GuardianLives(h)' /\ ~OwnerLives(h)' /\ ~Running(h)'
          /\ toOwner'[h] = <<>> /\ toGuardian'[h] = <<>> /\ ~proof'[h]
          /\ guardian'[h] = guardian[h] \/ (guardian'[h] = "over" /\ GuardianLives(h))
          /\ owner'[h] = "none" <=> owner[h] = "none"
          /\ owner'[h] # "none" => guardian'[h] = "over"
          /\ agent[h] = "none" => agent'[h] = "none"
      BY <1>2 DEF Reboot, GuardianLives, OwnerLives, Running, ShapeInv, Shaped, TypeOK
  <2>3. ShapeInv' BY <2>1, <2>2 DEF ShapeInv, Shaped, GuardianLives
  <2>4. \A h \in Guardians : Claimed(h)' => Claimed(h) BY <2>1, <2>2 DEF Claimed
  <2>5. \A h \in Guardians : guardian'[h] \notin {"checked", "pinned"} BY <2>2 DEF GuardianLives
  <2>6. RowInv' BY <2>1, <2>2, <2>4, <2>5 DEF RowInv
  <2>7. EndInv' BY <2>1, <2>2, <2>5 DEF EndInv, Over, Alive
  <2>8. BootInv'
    <3>1. boot \in Nat /\ row.boot \in Nat BY DEF TypeOK, Rows
    <3> QED BY <2>1, <2>2, <3>1 DEF BootInv, At
  <2>9. StartInv' BY <2>1, <2>2 DEF StartInv
  <2> QED BY <2>3, <2>6, <2>7, <2>8, <2>9
<1> QED BY <1>1, <1>2


\* Of the guardians that did not claim the launch nothing lives or is on its way.
LEMMA OnlyOne ==
    ASSUME ShapeInv, RowInv, NEW g \in Guardians, Claimed(g)
    PROVE  /\ row.status # "reserved"
           /\ \A h \in Guardians \ {g} :
                 /\ pinned[h] = None /\ ~Claimed(h) /\ ~Alive(h)
                 /\ owner[h] = "none" /\ agent[h] = "none"
                 /\ toOwner[h] = <<>> /\ toGuardian[h] = <<>>
           /\ row.command # None => pinned[g] = row.command /\ guardian[g] # "checked"
<1>1. row.status # "reserved" BY DEF RowInv
<1>2. \A h \in Guardians \ {g} : ~Claimed(h) BY DEF RowInv
<1>3. \A h \in Guardians \ {g} : pinned[h] = None /\ guardian[h] # "pinned" BY <1>2 DEF Claimed
<1>4. \A h \in Guardians \ {g} : /\ owner[h] = "none" /\ agent[h] = "none"
                                 /\ toOwner[h] = <<>> /\ toGuardian[h] = <<>>
    BY <1>3 DEF ShapeInv, Shaped
<1>5. \A h \in Guardians \ {g} : ~Alive(h) BY <1>3, <1>4 DEF Alive, OwnerLives, Running
<1>6. row.command # None => pinned[g] = row.command /\ guardian[g] # "checked"
  <2>1. SUFFICES ASSUME row.command # None PROVE pinned[g] = row.command /\ guardian[g] # "checked" OBVIOUS
  <2>2. PICK h \in Guardians : pinned[h] = row.command /\ guardian[h] # "checked" BY <2>1 DEF RowInv
  <2> QED BY <1>3, <2>1, <2>2
<1> QED BY <1>1, <1>2, <1>3, <1>4, <1>5, <1>6

\* What the guardian that claimed the launch, its owner and their agent may do to it.
\* They leave the other guardians, the machine and the boot as they are.
Others(g) ==
    \A h \in Guardians \ {g} :
        /\ guardian'[h] = guardian[h] /\ pinned'[h] = pinned[h] /\ proof'[h] = proof[h]
        /\ owner'[h] = owner[h] /\ agent'[h] = agent[h]
        /\ toOwner'[h] = toOwner[h] /\ toGuardian'[h] = toGuardian[h]

RowKept(g) ==
    /\ row'.boot = row.boot /\ row'.status # "reserved"
    /\ row'.command = row.command \/ row'.command = pinned'[g]
    /\ row'.command # None => pinned'[g] = row'.command /\ guardian'[g] # "checked"
    /\ (owner[g] # "none" => row'.command = row.command)

\* What ended stays ended and, if boots can be told apart, leaves nothing alive.
EndKept(g) == (Over' => MayMissBoot \/ ~Alive(g)') /\ (Over => Over')

MachineKept ==
    /\ settled' = settled /\ boot' = boot
    /\ ctl'.at = ctl.at /\ ctl'.boot = ctl.boot

Lives(g) == GuardianLives(g) \/ OwnerLives(g) \/ Running(g)
NoneRevived(g) == Lives(g)' => Lives(g)

\* An agent is started by an owner that was told to, with what the row pins.
StartKept(g) ==
    /\ \/ starts' = starts
       \/ starts = <<>> /\ starts' = <<row'.command>> /\ owner'[g] # "none"
    /\ owner[g] # "none" => owner'[g] # "none"
    /\ toOwner'[g] \in {<<"start">>, <<"start", "stop">>} => starts' = <<>>
    /\ owner'[g] # "none" \/ guardian'[g] = "pinned" => row'.command = pinned'[g]

\* A verdict on a launch that was uncertain is its own guardian's.
Witnessed(g) ==
    row.status = "uncertain" /\ row.command # None /\ row'.status # "uncertain"
        => guardian[g] \in {"open", "pinned"} /\ pinned[g] = row.command

\* What LaunchPromise sees of the step.
PromiseKept(g) ==
    /\ Over' => Over \/ ~Running(g)
    /\ starts' = starts => (Running(g)' => Running(g))
    /\ starts' # starts => (MayMissBoot \/ ~Over') /\ Running(g)' /\ pinned'[g] # None

Steps(g) ==
    /\ Others(g) /\ RowKept(g) /\ Shaped(g)'
    /\ EndKept(g) /\ MachineKept /\ NoneRevived(g) /\ StartKept(g)
    /\ Witnessed(g) /\ PromiseKept(g)

LEMMA StepsKeep ==
    ASSUME TypeOK, Inv, NEW g \in Guardians, Claimed(g), Steps(g)
    PROVE  Inv'
<1> USE DEF Inv
<1>1. /\ row.status # "reserved"
      /\ \A h \in Guardians \ {g} :
            /\ pinned[h] = None /\ ~Claimed(h) /\ ~Alive(h)
            /\ owner[h] = "none" /\ agent[h] = "none"
            /\ toOwner[h] = <<>> /\ toGuardian[h] = <<>>
      /\ row.command # None => pinned[g] = row.command /\ guardian[g] # "checked"
    BY OnlyOne
<1>2. \A h \in Guardians \ {g} : ~Claimed(h)' /\ ~Alive(h)' /\ Shaped(h)'
    BY <1>1
           DEF Steps, EndKept, MachineKept, NoneRevived, Lives, StartKept, Others, Claimed, Alive,
               OwnerLives, Running, ShapeInv, Shaped
<1>3. ShapeInv' BY <1>2 DEF Steps, EndKept, MachineKept, NoneRevived, Lives, StartKept, ShapeInv
<1>4. RowInv'
  <2>1. \A h, i \in Guardians : Claimed(h)' /\ Claimed(i)' => h = i BY <1>2
  <2>2. row'.status # "reserved"
      BY DEF Steps, EndKept, MachineKept, NoneRevived, Lives, StartKept, RowKept
  <2>3. row'.command # None => \E h \in Guardians : pinned'[h] = row'.command /\ guardian'[h] # "checked"
      BY DEF Steps, EndKept, MachineKept, NoneRevived, Lives, StartKept, RowKept
  <2>4. \A h \in Guardians : owner'[h] # "none" \/ guardian'[h] = "pinned" => row'.command = pinned'[h]
    <3>1. \A h \in Guardians \ {g} : owner'[h] = "none" /\ guardian'[h] # "pinned"
        BY <1>1 DEF Steps, EndKept, MachineKept, NoneRevived, Lives, StartKept, Others, Claimed
    <3> QED BY <3>1 DEF Steps, EndKept, MachineKept, NoneRevived, Lives, StartKept
  <2> QED BY <2>1, <2>2, <2>3, <2>4 DEF RowInv
<1>5. EndInv' BY <1>2 DEF Steps, EndKept, MachineKept, NoneRevived, Lives, StartKept, EndInv
<1>6. BootInv'
  <2>1. \A h \in Guardians \ {g} :
          (GuardianLives(h) \/ OwnerLives(h) \/ Running(h))' => GuardianLives(h) \/ OwnerLives(h) \/ Running(h)
      BY
             DEF Steps, EndKept, MachineKept, NoneRevived, Lives, StartKept, Others, GuardianLives,
                 OwnerLives, Running
  <2> QED
      BY <2>1 DEF Steps, EndKept, MachineKept, NoneRevived, Lives, StartKept, RowKept, BootInv, At
<1>7. StartInv'
  <2>1. \A h \in Guardians \ {g} : toOwner'[h] = <<>>
      BY <1>1 DEF Steps, EndKept, MachineKept, NoneRevived, Lives, StartKept, Others
  <2>2. \A h \in Guardians : toOwner'[h] \in {<<"start">>, <<"start", "stop">>} => starts' = <<>>
    <3>1. <<>> \notin {<<"start">>, <<"start", "stop">>} OBVIOUS
    <3> QED BY <2>1, <3>1 DEF Steps, EndKept, MachineKept, NoneRevived, Lives, StartKept
  <2>3. CASE starts' = starts
    <3>1. CASE starts = <<>> BY <2>2, <2>3, <3>1 DEF StartInv
    <3>2. CASE starts = <<row.command>> /\ \E h \in Guardians : owner[h] # "none"
      <4>1. owner[g] # "none" BY <1>1, <3>2
      <4>2. row'.command = row.command /\ owner'[g] # "none"
          BY <4>1 DEF Steps, EndKept, MachineKept, NoneRevived, Lives, StartKept, RowKept
      <4> QED BY <2>2, <2>3, <3>2, <4>2 DEF StartInv
    <3> QED BY <3>1, <3>2 DEF StartInv
  <2>4. CASE starts = <<>> /\ starts' = <<row'.command>> /\ owner'[g] # "none"
      BY <2>2, <2>4 DEF StartInv
  <2> QED BY <2>3, <2>4 DEF Steps, EndKept, MachineKept, NoneRevived, Lives, StartKept
<1> QED BY <1>3, <1>4, <1>5, <1>6, <1>7


\* The provers tell two sequences apart by their elements.
LEMMA StartThenStop ==
    /\ Append(<<"start">>, "stop") = <<"start", "stop">>
    /\ Tail(<<"start", "stop">>) = <<"stop">>
    /\ Tail(<<"start">>) = <<>> /\ Tail(<<"stop">>) = <<>>
<1> DEFINE s == <<"start">>
           both == <<"start", "stop">>
           q == Append(s, "stop")
           t == Tail(both)
<1>1. s \in Seq(OwnerHears) /\ Len(s) = 1 /\ s[1] = "start" /\ "stop" \in OwnerHears
    BY DEF OwnerHears
<1>2. /\ both \in Seq(OwnerHears) /\ both # <<>> /\ Len(both) = 2
      /\ both[1] = "start" /\ both[2] = "stop"
    BY DEF OwnerHears
<1>3. q \in Seq(OwnerHears) /\ Len(q) = 2 /\ q[1] = "start" /\ q[2] = "stop"
    BY <1>1, AppendProperties
<1>4. t \in Seq(OwnerHears) /\ Len(t) = 1 /\ t[1] = "stop"
    BY <1>2
<1>5. q = both
  <2> HIDE DEF q, both
  <2>1. \A i \in 1..Len(q) : q[i] = both[i] BY <1>2, <1>3
  <2> QED BY <1>2, <1>3, <2>1, SeqEqual
<1>6. t = <<"stop">>
  <2> DEFINE u == <<"stop">>
  <2>1. u \in Seq(OwnerHears) /\ Len(u) = 1 /\ u[1] = "stop" BY DEF OwnerHears
  <2> HIDE DEF t, u
  <2>2. \A i \in 1..Len(t) : t[i] = u[i] BY <1>4, <2>1
  <2>3. t = u BY <1>4, <2>1, <2>2, SeqEqual
  <2> QED BY <2>3 DEF u
<1>7. Tail(<<"start">>) = <<>> /\ Tail(<<"stop">>) = <<>> OBVIOUS
<1> QED BY <1>5, <1>6, <1>7

\* A queue to an owner holds one start and one stop at most, in that order.
LEMMA WithStopIs ==
    ASSUME NEW queue \in {<<>>, <<"start">>, <<"stop">>, <<"start", "stop">>}
    PROVE  /\ WithStop(queue) \in {<<"stop">>, <<"start", "stop">>}
           /\ WithStop(queue) = <<"start", "stop">> => queue \in {<<"start">>, <<"start", "stop">>}
<1>1. CASE queue = <<>> BY <1>1 DEF WithStop
<1>2. CASE queue = <<"start">>
  <2>1. "stop" \notin {queue[i] : i \in DOMAIN queue} BY <1>2
  <2>2. Append(queue, "stop") = <<"start", "stop">> BY <1>2, StartThenStop
  <2> QED BY <1>2, <2>1, <2>2 DEF WithStop
<1>3. CASE queue = <<"stop">> BY <1>3 DEF WithStop
<1>4. CASE queue = <<"start", "stop">> BY <1>4 DEF WithStop
<1> QED BY <1>1, <1>2, <1>3, <1>4

\* A guardian that claimed the launch: its socket, and spawning its owner.
LEMMA GuardianSteps ==
    ASSUME LaunchAssumption, TypeOK, Inv, NEW g \in Guardians,
           \/ Listen(g) \/ NeverLaunched(g) \/ (\E m \in inbox : AnswerInspect(g, m))
           \/ (\E m \in inbox : AnswerStop(g, m)) \/ (\E m \in inbox : AnswerLaunch(g, m))
           \/ Pin(g) \/ Spawn(g) \/ SpawnFails(g)
    PROVE  Claimed(g) /\ Steps(g)
<1> USE DEF Inv, ledger, supervisor, group, machine
<1>t. /\ guardian \in [Guardians -> GuardianPhases] /\ pinned \in [Guardians -> Commands \cup {None}]
      /\ proof \in [Guardians -> BOOLEAN] /\ owner \in [Guardians -> OwnerPhases]
      /\ agent \in [Guardians -> {"none", "running", "left", "gone"}]
      /\ toOwner \in [Guardians -> Seq(OwnerHears)] /\ toGuardian \in [Guardians -> Seq(OwnerSays)]
      /\ observed \in [Guardians -> {"starting", "running", "stopping"}]
    BY DEF TypeOK
<1>r. \A c : LET r == [row EXCEPT !.command = c]
           IN  r.command = c /\ r.boot = row.boot /\ r.status = row.status
    BY DEF TypeOK, Rows
<1>n. None \notin Commands BY DEF LaunchAssumption
<1>q. WithStop(toOwner[g]) \in {<<"stop">>, <<"start", "stop">>}
      /\ (WithStop(toOwner[g]) = <<"start", "stop">> => toOwner[g] \in {<<"start">>, <<"start", "stop">>})
    BY WithStopIs DEF ShapeInv, Shaped
<1>a. /\ \A status \in Statuses :
            /\ Written(status).command = row.command /\ Written(status).boot = row.boot
            /\ Over => Written(status) = row
            /\ ~Over => Written(status).status = status
      /\ row.status \in Statuses
    BY DEF Written, Writable, Over, TypeOK, Rows
<1>b. Claimed(g) =>
         /\ row.status # "reserved"
         /\ row.command # None => pinned[g] = row.command /\ guardian[g] # "checked"
    BY OnlyOne
<1>c. \A m, answer : Reply(m, answer) => ctl'.at = ctl.at /\ ctl'.boot = ctl.boot
    BY DEF Reply, TypeOK, Controllers
<1>d. /\ Shaped(g)
      /\ owner[g] # "none" \/ guardian[g] = "pinned" => row.command = pinned[g]
      /\ Over => MayMissBoot \/ ~Alive(g)
      /\ toOwner[g] \in {<<"start">>, <<"start", "stop">>} => starts = <<>>
      /\ owner[g] = "none" /\ Claimed(g) => starts = <<>>
  <2>1. owner[g] = "none" /\ Claimed(g) => \A h \in Guardians : owner[h] = "none" BY OnlyOne
  <2> QED BY <2>1 DEF ShapeInv, RowInv, EndInv, StartInv
<1>1. CASE Listen(g)
  <2>1. Claimed(g) /\ row.status # "reserved"
      BY <1>1, <1>b, <1>d DEF Listen, Enter, Claimed, Shaped, OwnerLives
  <2>2. Others(g) BY <1>1, <1>t DEF Listen, Enter, Others
  <2>3. RowKept(g)
      BY <1>1, <2>1, <1>a, <1>b, <1>d, <1>t DEF Listen, Enter, RowKept, Shaped, Statuses, OwnerLives
  <2>4. Shaped(g)' BY <1>1, <2>1, <1>b, <1>d, <1>t DEF Listen, Enter, Shaped, Running, OwnerLives
  <2>5. EndKept(g)
      BY <1>1, <2>1, <1>a, <1>d, <1>t
         DEF Listen, Enter, EndKept, Over, Ended, Alive, Shaped, Running, OwnerLives, Statuses
  <2>6. MachineKept BY <1>1, <1>c DEF Listen, Enter, MachineKept, TypeOK, Controllers
  <2>7. StartKept(g)
      BY <1>1, <2>1, <1>a, <1>b, <1>d, <1>t
         DEF Listen, Enter, StartKept, Shaped, Statuses, OwnerLives
  <2>8. NoneRevived(g)
      BY <1>1, <1>d, <1>t
         DEF Listen, Enter, NoneRevived, Lives, GuardianLives, OwnerLives, Running, Shaped
  <2>9. Witnessed(g)
      BY <1>1, <2>1, <1>a, <1>b, <1>d, <1>t
         DEF Listen, Enter, Witnessed, Shaped, Statuses, OwnerLives
  <2>10. PromiseKept(g)
      BY <1>1, <2>1, <1>a, <1>d, <1>t
         DEF Listen, Enter, PromiseKept, Over, Ended, Alive, Shaped, Statuses, OwnerLives, Running
  <2> QED BY <2>1, <2>2, <2>3, <2>4, <2>5, <2>6, <2>7, <2>8, <2>9, <2>10 DEF Steps
<1>2. CASE NeverLaunched(g)
  <2>1. Claimed(g) /\ row.status # "reserved"
      BY <1>2, <1>b, <1>d DEF NeverLaunched, Exit, Claimed, Shaped, OwnerLives
  <2>2. Others(g) BY <1>2, <1>t DEF NeverLaunched, Exit, Others
  <2>3. RowKept(g)
      BY <1>2, <2>1, <1>a, <1>b, <1>d, <1>t
         DEF NeverLaunched, Exit, RowKept, Shaped, Statuses, OwnerLives
  <2>4. Shaped(g)'
      BY <1>2, <2>1, <1>b, <1>d, <1>t DEF NeverLaunched, Exit, Shaped, Running, OwnerLives
  <2>5. EndKept(g)
      BY <1>2, <2>1, <1>a, <1>d, <1>t
         DEF NeverLaunched, Exit, EndKept, Over, Ended, Alive, Shaped, Running, OwnerLives, Statuses
  <2>6. MachineKept BY <1>2, <1>c DEF NeverLaunched, Exit, MachineKept, TypeOK, Controllers
  <2>7. StartKept(g)
      BY <1>2, <2>1, <1>a, <1>b, <1>d, <1>t
         DEF NeverLaunched, Exit, StartKept, Shaped, Statuses, OwnerLives
  <2>8. NoneRevived(g)
      BY <1>2, <1>d, <1>t
         DEF NeverLaunched, Exit, NoneRevived, Lives, GuardianLives, OwnerLives, Running, Shaped
  <2>9. Witnessed(g)
      BY <1>2, <2>1, <1>a, <1>b, <1>d, <1>t
         DEF NeverLaunched, Exit, Witnessed, Shaped, Statuses, OwnerLives
  <2>10. PromiseKept(g)
      BY <1>2, <2>1, <1>a, <1>d, <1>t
         DEF NeverLaunched, Exit, PromiseKept, Over, Ended, Alive, Shaped, Statuses, OwnerLives,
             Running
  <2> QED BY <2>1, <2>2, <2>3, <2>4, <2>5, <2>6, <2>7, <2>8, <2>9, <2>10 DEF Steps
<1>3. CASE \E m \in inbox : AnswerInspect(g, m)
  <2>0. PICK m \in inbox : AnswerInspect(g, m) BY <1>3
  <2>1. Claimed(g) /\ row.status # "reserved"
      BY <2>0, <1>b, <1>d DEF AnswerInspect, Repairs, Claimed, Shaped, OwnerLives
  <2>a. row' = row \/ \E s \in Statuses \ {"reserved"} : row' = Written(s)
    <3>1. observed[g] \in Statuses \ {"reserved"} BY <1>t DEF Statuses
    <3> QED BY <2>0, <3>1 DEF AnswerInspect
  <2>b. row'.command = row.command /\ row'.boot = row.boot /\ row'.status # "reserved"
    BY <2>1, <2>a, <1>a
  <2>2. Others(g) BY <2>0, <1>t, <2>a, <2>b DEF AnswerInspect, Repairs, Others
  <2>3. RowKept(g)
      BY <2>0, <2>1, <1>a, <1>b, <1>d, <1>t, <2>a, <2>b
         DEF AnswerInspect, Repairs, RowKept, Shaped, Statuses, OwnerLives
  <2>4. Shaped(g)'
      BY <2>0, <2>1, <1>b, <1>d, <1>t, <2>a, <2>b
         DEF AnswerInspect, Repairs, Shaped, Running, OwnerLives
  <2>5. EndKept(g)
      BY <2>0, <2>1, <1>a, <1>d, <1>t, <2>a, <2>b
         DEF AnswerInspect, Repairs, EndKept, Over, Ended, Alive, Shaped, Running, OwnerLives,
             Statuses
  <2>6. MachineKept BY <2>0, <1>c DEF AnswerInspect, Repairs, MachineKept, TypeOK, Controllers
  <2>7. StartKept(g)
      BY <2>0, <2>1, <1>a, <1>b, <1>d, <1>t, <2>a, <2>b
         DEF AnswerInspect, Repairs, StartKept, Shaped, Statuses, OwnerLives
  <2>8. NoneRevived(g)
      BY <2>0, <1>d, <1>t, <2>a, <2>b
         DEF AnswerInspect, Repairs, NoneRevived, Lives, GuardianLives, OwnerLives, Running, Shaped
  <2>9. Witnessed(g)
      BY <2>0, <2>1, <1>a, <1>b, <1>d, <1>t, <2>a, <2>b
         DEF AnswerInspect, Repairs, Witnessed, Shaped, Statuses, OwnerLives
  <2>10. PromiseKept(g)
      BY <2>0, <2>1, <1>a, <1>d, <1>t, <2>a, <2>b
         DEF AnswerInspect, Repairs, PromiseKept, Over, Ended, Alive, Shaped, Statuses, OwnerLives,
             Running
  <2> QED BY <2>1, <2>2, <2>3, <2>4, <2>5, <2>6, <2>7, <2>8, <2>9, <2>10 DEF Steps
<1>4. CASE \E m \in inbox : AnswerStop(g, m)
  <2>0. PICK m \in inbox : AnswerStop(g, m) BY <1>4
  <2>1. Claimed(g) /\ row.status # "reserved"
      BY <2>0, <1>b, <1>d DEF AnswerStop, Exit, Claimed, Shaped, OwnerLives
  <2>2. Others(g) BY <2>0, <1>t, <1>q DEF AnswerStop, Exit, Others
  <2>3. RowKept(g)
      BY <2>0, <2>1, <1>a, <1>b, <1>d, <1>t, <1>q
         DEF AnswerStop, Exit, RowKept, Shaped, Statuses, OwnerLives
  <2>4. Shaped(g)'
      BY <2>0, <2>1, <1>b, <1>d, <1>t, <1>q DEF AnswerStop, Exit, Shaped, Running, OwnerLives
  <2>5. EndKept(g)
      BY <2>0, <2>1, <1>a, <1>d, <1>t, <1>q
         DEF AnswerStop, Exit, EndKept, Over, Ended, Alive, Shaped, Running, OwnerLives, Statuses
  <2>6. MachineKept BY <2>0, <1>c DEF AnswerStop, Exit, MachineKept, TypeOK, Controllers
  <2>7. StartKept(g)
      BY <2>0, <2>1, <1>a, <1>b, <1>d, <1>t, <1>q
         DEF AnswerStop, Exit, StartKept, Shaped, Statuses, OwnerLives
  <2>8. NoneRevived(g)
      BY <2>0, <1>d, <1>t, <1>q
         DEF AnswerStop, Exit, NoneRevived, Lives, GuardianLives, OwnerLives, Running, Shaped
  <2>9. Witnessed(g)
      BY <2>0, <2>1, <1>a, <1>b, <1>d, <1>t, <1>q
         DEF AnswerStop, Exit, Witnessed, Shaped, Statuses, OwnerLives
  <2>10. PromiseKept(g)
      BY <2>0, <2>1, <1>a, <1>d, <1>t, <1>q
         DEF AnswerStop, Exit, PromiseKept, Over, Ended, Alive, Shaped, Statuses, OwnerLives,
             Running
  <2> QED BY <2>1, <2>2, <2>3, <2>4, <2>5, <2>6, <2>7, <2>8, <2>9, <2>10 DEF Steps
<1>5. CASE \E m \in inbox : AnswerLaunch(g, m)
  <2>0. PICK m \in inbox : AnswerLaunch(g, m) BY <1>5
  <2>1. Claimed(g) /\ row.status # "reserved"
      BY <2>0, <1>b, <1>d DEF AnswerLaunch, Exit, Claimed, Shaped, OwnerLives
  <2>2. Others(g) BY <2>0, <1>t, <1>n DEF AnswerLaunch, Exit, Others
  <2>3. RowKept(g)
      BY <2>0, <2>1, <1>a, <1>b, <1>d, <1>t, <1>n
         DEF AnswerLaunch, Exit, RowKept, Shaped, Statuses, OwnerLives
  <2>4. Shaped(g)'
      BY <2>0, <2>1, <1>b, <1>d, <1>t, <1>n DEF AnswerLaunch, Exit, Shaped, Running, OwnerLives
  <2>5. EndKept(g)
      BY <2>0, <2>1, <1>a, <1>d, <1>t, <1>n
         DEF AnswerLaunch, Exit, EndKept, Over, Ended, Alive, Shaped, Running, OwnerLives, Statuses
  <2>6. MachineKept BY <2>0, <1>c DEF AnswerLaunch, Exit, MachineKept, TypeOK, Controllers
  <2>7. StartKept(g)
      BY <2>0, <2>1, <1>a, <1>b, <1>d, <1>t, <1>n
         DEF AnswerLaunch, Exit, StartKept, Shaped, Statuses, OwnerLives
  <2>8. NoneRevived(g)
      BY <2>0, <1>d, <1>t, <1>n
         DEF AnswerLaunch, Exit, NoneRevived, Lives, GuardianLives, OwnerLives, Running, Shaped
  <2>9. Witnessed(g)
      BY <2>0, <2>1, <1>a, <1>b, <1>d, <1>t, <1>n
         DEF AnswerLaunch, Exit, Witnessed, Shaped, Statuses, OwnerLives
  <2>10. PromiseKept(g)
      BY <2>0, <2>1, <1>a, <1>d, <1>t, <1>n
         DEF AnswerLaunch, Exit, PromiseKept, Over, Ended, Alive, Shaped, Statuses, OwnerLives,
             Running
  <2> QED BY <2>1, <2>2, <2>3, <2>4, <2>5, <2>6, <2>7, <2>8, <2>9, <2>10 DEF Steps
<1>6. CASE Pin(g)
  <2>1. Claimed(g) /\ row.status # "reserved"
      BY <1>6, <1>b, <1>d DEF Pin, Writable, Claimed, Shaped, OwnerLives
  <2>a. (~Over /\ guardian'[g] = "pinned" /\ pinned' = pinned /\ row'.command = pinned[g]
            /\ row'.boot = row.boot /\ row'.status = row.status)
        \/ (row' = row /\ guardian'[g] = "open" /\ pinned'[g] = None /\ row.command = None)
    BY <1>6, <2>1, <1>b, <1>t, <1>r DEF Pin, Writable, Over
  <2>b. guardian[g] = "checked" /\ owner[g] = "none" /\ owner' = owner /\ agent' = agent /\ starts' = starts
        /\ toOwner' = toOwner
    BY <1>6, <1>d DEF Pin, Shaped
  <2>2. Others(g) BY <1>6, <1>t, <1>r, <2>a, <2>b DEF Pin, Writable, Others
  <2>3. RowKept(g)
      BY <1>6, <2>1, <1>a, <1>b, <1>d, <1>t, <1>r, <2>a, <2>b
         DEF Pin, Writable, RowKept, Shaped, Statuses, OwnerLives
  <2>4. Shaped(g)'
      BY <1>6, <2>1, <1>b, <1>d, <1>t, <1>r, <2>a, <2>b
         DEF Pin, Writable, Shaped, Running, OwnerLives
  <2>5. EndKept(g)
      BY <1>6, <2>1, <1>a, <1>d, <1>t, <1>r, <2>a, <2>b
         DEF Pin, Writable, EndKept, Over, Ended, Alive, Shaped, Running, OwnerLives, Statuses
  <2>6. MachineKept BY <1>6, <1>c DEF Pin, Writable, MachineKept, TypeOK, Controllers
  <2>7. StartKept(g)
      BY <1>6, <2>1, <1>a, <1>b, <1>d, <1>t, <1>r, <2>a, <2>b
         DEF Pin, Writable, StartKept, Shaped, Statuses, OwnerLives
  <2>8. NoneRevived(g)
      BY <1>6, <1>d, <1>t, <1>r, <2>a, <2>b
         DEF Pin, Writable, NoneRevived, Lives, GuardianLives, OwnerLives, Running, Shaped
  <2>9. Witnessed(g)
      BY <1>6, <2>1, <1>a, <1>b, <1>d, <1>t, <1>r, <2>a, <2>b
         DEF Pin, Writable, Witnessed, Shaped, Statuses, OwnerLives
  <2>10. PromiseKept(g)
      BY <1>6, <2>1, <1>a, <1>d, <1>t, <1>r, <2>a, <2>b
         DEF Pin, Writable, PromiseKept, Over, Ended, Alive, Shaped, Statuses, OwnerLives, Running
  <2> QED BY <2>1, <2>2, <2>3, <2>4, <2>5, <2>6, <2>7, <2>8, <2>9, <2>10 DEF Steps
<1>7. CASE Spawn(g)
  <2>1. Claimed(g) /\ row.status # "reserved"
      BY <1>7, <1>b, <1>d DEF Spawn, Claimed, Shaped, OwnerLives
  <2>2. Others(g) BY <1>7, <1>t DEF Spawn, Others
  <2>3. RowKept(g)
      BY <1>7, <2>1, <1>a, <1>b, <1>d, <1>t DEF Spawn, RowKept, Shaped, Statuses, OwnerLives
  <2>4. Shaped(g)' BY <1>7, <2>1, <1>b, <1>d, <1>t DEF Spawn, Shaped, Running, OwnerLives
  <2>5. EndKept(g)
      BY <1>7, <2>1, <1>a, <1>d, <1>t
         DEF Spawn, EndKept, Over, Ended, Alive, Shaped, Running, OwnerLives, Statuses
  <2>6. MachineKept BY <1>7, <1>c DEF Spawn, MachineKept, TypeOK, Controllers
  <2>7. StartKept(g)
      BY <1>7, <2>1, <1>a, <1>b, <1>d, <1>t DEF Spawn, StartKept, Shaped, Statuses, OwnerLives
  <2>8. NoneRevived(g)
      BY <1>7, <1>d, <1>t DEF Spawn, NoneRevived, Lives, GuardianLives, OwnerLives, Running, Shaped
  <2>9. Witnessed(g)
      BY <1>7, <2>1, <1>a, <1>b, <1>d, <1>t DEF Spawn, Witnessed, Shaped, Statuses, OwnerLives
  <2>10. PromiseKept(g)
      BY <1>7, <2>1, <1>a, <1>d, <1>t
         DEF Spawn, PromiseKept, Over, Ended, Alive, Shaped, Statuses, OwnerLives, Running
  <2> QED BY <2>1, <2>2, <2>3, <2>4, <2>5, <2>6, <2>7, <2>8, <2>9, <2>10 DEF Steps
<1>8. CASE SpawnFails(g)
  <2>1. Claimed(g) /\ row.status # "reserved"
      BY <1>8, <1>b, <1>d DEF SpawnFails, Exit, Claimed, Shaped, OwnerLives
  <2>2. Others(g) BY <1>8, <1>t DEF SpawnFails, Exit, Others
  <2>3. RowKept(g)
      BY <1>8, <2>1, <1>a, <1>b, <1>d, <1>t
         DEF SpawnFails, Exit, RowKept, Shaped, Statuses, OwnerLives
  <2>4. Shaped(g)' BY <1>8, <2>1, <1>b, <1>d, <1>t DEF SpawnFails, Exit, Shaped, Running, OwnerLives
  <2>5. EndKept(g)
      BY <1>8, <2>1, <1>a, <1>d, <1>t
         DEF SpawnFails, Exit, EndKept, Over, Ended, Alive, Shaped, Running, OwnerLives, Statuses
  <2>6. MachineKept BY <1>8, <1>c DEF SpawnFails, Exit, MachineKept, TypeOK, Controllers
  <2>7. StartKept(g)
      BY <1>8, <2>1, <1>a, <1>b, <1>d, <1>t
         DEF SpawnFails, Exit, StartKept, Shaped, Statuses, OwnerLives
  <2>8. NoneRevived(g)
      BY <1>8, <1>d, <1>t
         DEF SpawnFails, Exit, NoneRevived, Lives, GuardianLives, OwnerLives, Running, Shaped
  <2>9. Witnessed(g)
      BY <1>8, <2>1, <1>a, <1>b, <1>d, <1>t
         DEF SpawnFails, Exit, Witnessed, Shaped, Statuses, OwnerLives
  <2>10. PromiseKept(g)
      BY <1>8, <2>1, <1>a, <1>d, <1>t
         DEF SpawnFails, Exit, PromiseKept, Over, Ended, Alive, Shaped, Statuses, OwnerLives,
             Running
  <2> QED BY <2>1, <2>2, <2>3, <2>4, <2>5, <2>6, <2>7, <2>8, <2>9, <2>10 DEF Steps
<1> QED BY <1>1, <1>2, <1>3, <1>4, <1>5, <1>6, <1>7, <1>8 DEF Steps

\* What a guardian does of its owner's messages and exit.
LEMMA HearingSteps ==
    ASSUME LaunchAssumption, TypeOK, Inv, NEW g \in Guardians,
           \/ HearRunning(g) \/ (\E reason \in {"exit", "stop"} : HearShutdown(g, reason))
           \/ HearKillReady(g) \/ HearExit(g)
    PROVE  Claimed(g) /\ Steps(g)
<1> USE DEF Inv, ledger, supervisor, group, machine
<1>t. /\ guardian \in [Guardians -> GuardianPhases] /\ pinned \in [Guardians -> Commands \cup {None}]
      /\ proof \in [Guardians -> BOOLEAN] /\ owner \in [Guardians -> OwnerPhases]
      /\ agent \in [Guardians -> {"none", "running", "left", "gone"}]
      /\ toOwner \in [Guardians -> Seq(OwnerHears)] /\ toGuardian \in [Guardians -> Seq(OwnerSays)]
      /\ observed \in [Guardians -> {"starting", "running", "stopping"}]
    BY DEF TypeOK
<1>a. /\ \A status \in Statuses :
            /\ Written(status).command = row.command /\ Written(status).boot = row.boot
            /\ Over => Written(status) = row
            /\ ~Over => Written(status).status = status
      /\ row.status \in Statuses
    BY DEF Written, Writable, Over, TypeOK, Rows
<1>b. Claimed(g) =>
         /\ row.status # "reserved"
         /\ row.command # None => pinned[g] = row.command /\ guardian[g] # "checked"
    BY OnlyOne
<1>c. \A m, answer : Reply(m, answer) => ctl'.at = ctl.at /\ ctl'.boot = ctl.boot
    BY DEF Reply, TypeOK, Controllers
<1>d. /\ Shaped(g)
      /\ owner[g] # "none" \/ guardian[g] = "pinned" => row.command = pinned[g]
      /\ Over => MayMissBoot \/ ~Alive(g)
      /\ toOwner[g] \in {<<"start">>, <<"start", "stop">>} => starts = <<>>
      /\ owner[g] = "none" /\ Claimed(g) => starts = <<>>
  <2>1. owner[g] = "none" /\ Claimed(g) => \A h \in Guardians : owner[h] = "none" BY OnlyOne
  <2> QED BY <2>1 DEF ShapeInv, RowInv, EndInv, StartInv
<1>1. CASE HearRunning(g)
  <2>1. Claimed(g) /\ row.status # "reserved"
      BY <1>1, <1>b, <1>d DEF HearRunning, Hears, Claimed, Shaped, OwnerLives
  <2>2. Others(g) BY <1>1, <1>t DEF HearRunning, Hears, Others
  <2>3. RowKept(g)
      BY <1>1, <2>1, <1>a, <1>b, <1>d, <1>t
         DEF HearRunning, Hears, RowKept, Shaped, Statuses, OwnerLives
  <2>4. Shaped(g)'
      BY <1>1, <2>1, <1>b, <1>d, <1>t DEF HearRunning, Hears, Shaped, Running, OwnerLives
  <2>5. EndKept(g)
      BY <1>1, <2>1, <1>a, <1>d, <1>t
         DEF HearRunning, Hears, EndKept, Over, Ended, Alive, Shaped, Running, OwnerLives, Statuses
  <2>6. MachineKept BY <1>1, <1>c DEF HearRunning, Hears, MachineKept, TypeOK, Controllers
  <2>7. StartKept(g)
      BY <1>1, <2>1, <1>a, <1>b, <1>d, <1>t
         DEF HearRunning, Hears, StartKept, Shaped, Statuses, OwnerLives
  <2>8. NoneRevived(g)
      BY <1>1, <1>d, <1>t
         DEF HearRunning, Hears, NoneRevived, Lives, GuardianLives, OwnerLives, Running, Shaped
  <2>9. Witnessed(g)
      BY <1>1, <2>1, <1>a, <1>b, <1>d, <1>t
         DEF HearRunning, Hears, Witnessed, Shaped, Statuses, OwnerLives
  <2>10. PromiseKept(g)
      BY <1>1, <2>1, <1>a, <1>d, <1>t
         DEF HearRunning, Hears, PromiseKept, Over, Ended, Alive, Shaped, Statuses, OwnerLives,
             Running
  <2> QED BY <2>1, <2>2, <2>3, <2>4, <2>5, <2>6, <2>7, <2>8, <2>9, <2>10 DEF Steps
<1>2. CASE \E reason \in {"exit", "stop"} : HearShutdown(g, reason)
  <2>0. PICK reason \in {"exit", "stop"} : HearShutdown(g, reason) BY <1>2
  <2>1. Claimed(g) /\ row.status # "reserved"
      BY <2>0, <1>b, <1>d DEF HearShutdown, Hears, Claimed, Shaped, OwnerLives
  <2>2. Others(g) BY <2>0, <1>t DEF HearShutdown, Hears, Others
  <2>3. RowKept(g)
      BY <2>0, <2>1, <1>a, <1>b, <1>d, <1>t
         DEF HearShutdown, Hears, RowKept, Shaped, Statuses, OwnerLives
  <2>4. Shaped(g)'
      BY <2>0, <2>1, <1>b, <1>d, <1>t DEF HearShutdown, Hears, Shaped, Running, OwnerLives
  <2>5. EndKept(g)
      BY <2>0, <2>1, <1>a, <1>d, <1>t
         DEF HearShutdown, Hears, EndKept, Over, Ended, Alive, Shaped, Running, OwnerLives, Statuses
  <2>6. MachineKept BY <2>0, <1>c DEF HearShutdown, Hears, MachineKept, TypeOK, Controllers
  <2>7. StartKept(g)
      BY <2>0, <2>1, <1>a, <1>b, <1>d, <1>t
         DEF HearShutdown, Hears, StartKept, Shaped, Statuses, OwnerLives
  <2>8. NoneRevived(g)
      BY <2>0, <1>d, <1>t
         DEF HearShutdown, Hears, NoneRevived, Lives, GuardianLives, OwnerLives, Running, Shaped
  <2>9. Witnessed(g)
      BY <2>0, <2>1, <1>a, <1>b, <1>d, <1>t
         DEF HearShutdown, Hears, Witnessed, Shaped, Statuses, OwnerLives
  <2>10. PromiseKept(g)
      BY <2>0, <2>1, <1>a, <1>d, <1>t
         DEF HearShutdown, Hears, PromiseKept, Over, Ended, Alive, Shaped, Statuses, OwnerLives,
             Running
  <2> QED BY <2>1, <2>2, <2>3, <2>4, <2>5, <2>6, <2>7, <2>8, <2>9, <2>10 DEF Steps
<1>3. CASE HearKillReady(g)
  <2>1. Claimed(g) /\ row.status # "reserved"
      BY <1>3, <1>b, <1>d DEF HearKillReady, Hears, Kill, Claimed, Shaped, OwnerLives
  <2>2. Others(g) BY <1>3, <1>t DEF HearKillReady, Hears, Kill, Others
  <2>3. RowKept(g)
      BY <1>3, <2>1, <1>a, <1>b, <1>d, <1>t
         DEF HearKillReady, Hears, Kill, RowKept, Shaped, Statuses, OwnerLives
  <2>4. Shaped(g)'
      BY <1>3, <2>1, <1>b, <1>d, <1>t DEF HearKillReady, Hears, Kill, Shaped, Running, OwnerLives
  <2>5. EndKept(g)
      BY <1>3, <2>1, <1>a, <1>d, <1>t
         DEF HearKillReady, Hears, Kill, EndKept, Over, Ended, Alive, Shaped, Running, OwnerLives,
             Statuses
  <2>6. MachineKept BY <1>3, <1>c DEF HearKillReady, Hears, Kill, MachineKept, TypeOK, Controllers
  <2>7. StartKept(g)
      BY <1>3, <2>1, <1>a, <1>b, <1>d, <1>t
         DEF HearKillReady, Hears, Kill, StartKept, Shaped, Statuses, OwnerLives
  <2>8. NoneRevived(g)
      BY <1>3, <1>d, <1>t
         DEF HearKillReady, Hears, Kill, NoneRevived, Lives, GuardianLives, OwnerLives, Running,
             Shaped
  <2>9. Witnessed(g)
      BY <1>3, <2>1, <1>a, <1>b, <1>d, <1>t
         DEF HearKillReady, Hears, Kill, Witnessed, Shaped, Statuses, OwnerLives
  <2>10. PromiseKept(g)
      BY <1>3, <2>1, <1>a, <1>d, <1>t
         DEF HearKillReady, Hears, Kill, PromiseKept, Over, Ended, Alive, Shaped, Statuses,
             OwnerLives, Running
  <2> QED BY <2>1, <2>2, <2>3, <2>4, <2>5, <2>6, <2>7, <2>8, <2>9, <2>10 DEF Steps
<1>4. CASE HearExit(g)
  <2>1. Claimed(g) /\ row.status # "reserved"
      BY <1>4, <1>b, <1>d DEF HearExit, Exit, Proven, Swept, Claimed, Shaped, OwnerLives
  <2>2. Others(g) BY <1>4, <1>t DEF HearExit, Exit, Proven, Swept, Others
  <2>3. RowKept(g)
      BY <1>4, <2>1, <1>a, <1>b, <1>d, <1>t
         DEF HearExit, Exit, Proven, Swept, RowKept, Shaped, Statuses, OwnerLives
  <2>4. Shaped(g)'
      BY <1>4, <2>1, <1>b, <1>d, <1>t DEF HearExit, Exit, Proven, Swept, Shaped, Running, OwnerLives
  <2>5. EndKept(g)
      BY <1>4, <2>1, <1>a, <1>d, <1>t
         DEF HearExit, Exit, Proven, Swept, EndKept, Over, Ended, Alive, Shaped, Running,
             OwnerLives, Statuses
  <2>6. MachineKept
      BY <1>4, <1>c DEF HearExit, Exit, Proven, Swept, MachineKept, TypeOK, Controllers
  <2>7. StartKept(g)
      BY <1>4, <2>1, <1>a, <1>b, <1>d, <1>t
         DEF HearExit, Exit, Proven, Swept, StartKept, Shaped, Statuses, OwnerLives
  <2>8. NoneRevived(g)
      BY <1>4, <1>d, <1>t
         DEF HearExit, Exit, Proven, Swept, NoneRevived, Lives, GuardianLives, OwnerLives, Running,
             Shaped
  <2>9. Witnessed(g)
      BY <1>4, <2>1, <1>a, <1>b, <1>d, <1>t
         DEF HearExit, Exit, Proven, Swept, Witnessed, Shaped, Statuses, OwnerLives
  <2>10. PromiseKept(g)
      BY <1>4, <2>1, <1>a, <1>d, <1>t
         DEF HearExit, Exit, Proven, Swept, PromiseKept, Over, Ended, Alive, Shaped, Statuses,
             OwnerLives, Running
  <2> QED BY <2>1, <2>2, <2>3, <2>4, <2>5, <2>6, <2>7, <2>8, <2>9, <2>10 DEF Steps
<1> QED BY <1>1, <1>2, <1>3, <1>4 DEF Steps

\* What an owner does, and what it does to its agent.
LEMMA OwnerSteps ==
    ASSUME LaunchAssumption, TypeOK, Inv, NEW g \in Guardians, OwnerStep(g)
    PROVE  Claimed(g) /\ Steps(g)
<1> USE DEF Inv, ledger, supervisor, group, machine
<1>t. /\ guardian \in [Guardians -> GuardianPhases] /\ pinned \in [Guardians -> Commands \cup {None}]
      /\ proof \in [Guardians -> BOOLEAN] /\ owner \in [Guardians -> OwnerPhases]
      /\ agent \in [Guardians -> {"none", "running", "left", "gone"}]
      /\ toOwner \in [Guardians -> Seq(OwnerHears)] /\ toGuardian \in [Guardians -> Seq(OwnerSays)]
      /\ observed \in [Guardians -> {"starting", "running", "stopping"}]
    BY DEF TypeOK
<1>u. /\ toOwner[g] # <<>> /\ Head(toOwner[g]) = "start"
           => /\ toOwner[g] \in {<<"start">>, <<"start", "stop">>}
              /\ Tail(toOwner[g]) \in {<<>>, <<"stop">>}
      /\ toOwner[g] # <<>> /\ Head(toOwner[g]) = "stop" => Tail(toOwner[g]) = <<>>
  <2>1. toOwner[g] \in {<<>>, <<"start">>, <<"stop">>, <<"start", "stop">>} BY DEF ShapeInv, Shaped
  <2>2. Head(<<"stop">>) = "stop" /\ Head(<<"start">>) = "start" /\ Head(<<"start", "stop">>) = "start"
      OBVIOUS
  <2> QED BY <2>1, <2>2, StartThenStop
<1>v. <<>> \notin {<<"start">>, <<"start", "stop">>} /\ <<"stop">> \notin {<<"start">>, <<"start", "stop">>}
    OBVIOUS
<1>w. starts = <<>> => Append(starts, pinned[g]) = <<pinned[g]>> OBVIOUS
<1>s. \A reason, before : ShutDown(g, reason, before) =>
         /\ owner' = owner \/ (owner[g] = "idle" /\ owner' = [owner EXCEPT ![g] = "stopping"])
         /\ \A h \in Guardians \ {g} : toGuardian'[h] = toGuardian[h]
    BY DEF ShutDown, Sent, TypeOK
<1>a. /\ \A status \in Statuses :
            /\ Written(status).command = row.command /\ Written(status).boot = row.boot
            /\ Over => Written(status) = row
            /\ ~Over => Written(status).status = status
      /\ row.status \in Statuses
    BY DEF Written, Writable, Over, TypeOK, Rows
<1>b. Claimed(g) =>
         /\ row.status # "reserved"
         /\ row.command # None => pinned[g] = row.command /\ guardian[g] # "checked"
    BY OnlyOne
<1>c. \A m, answer : Reply(m, answer) => ctl'.at = ctl.at /\ ctl'.boot = ctl.boot
    BY DEF Reply, TypeOK, Controllers
<1>d. /\ Shaped(g)
      /\ owner[g] # "none" \/ guardian[g] = "pinned" => row.command = pinned[g]
      /\ Over => MayMissBoot \/ ~Alive(g)
      /\ toOwner[g] \in {<<"start">>, <<"start", "stop">>} => starts = <<>>
      /\ owner[g] = "none" /\ Claimed(g) => starts = <<>>
  <2>1. owner[g] = "none" /\ Claimed(g) => \A h \in Guardians : owner[h] = "none" BY OnlyOne
  <2> QED BY <2>1 DEF ShapeInv, RowInv, EndInv, StartInv
<1>1. CASE Start(g)
  <2>1. Claimed(g) /\ row.status # "reserved"
      BY <1>1, <1>b, <1>d DEF Start, Sent, Claimed, Shaped, OwnerLives
  <2>2. Others(g) BY <1>1, <1>t, <1>s, <1>u, <1>v, <1>w DEF Start, Sent, Others
  <2>3. RowKept(g)
      BY <1>1, <2>1, <1>a, <1>b, <1>d, <1>t, <1>s, <1>u, <1>v, <1>w
         DEF Start, Sent, RowKept, Shaped, Statuses, OwnerLives
  <2>4. Shaped(g)'
      BY <1>1, <2>1, <1>b, <1>d, <1>t, <1>s, <1>u, <1>v, <1>w
         DEF Start, Sent, Shaped, Running, OwnerLives
  <2>5. EndKept(g)
      BY <1>1, <2>1, <1>a, <1>d, <1>t, <1>s, <1>u, <1>v, <1>w
         DEF Start, Sent, EndKept, Over, Ended, Alive, Shaped, Running, OwnerLives, Statuses
  <2>6. MachineKept BY <1>1, <1>c DEF Start, Sent, MachineKept, TypeOK, Controllers
  <2>7. StartKept(g)
      BY <1>1, <2>1, <1>a, <1>b, <1>d, <1>t, <1>s, <1>u, <1>v, <1>w
         DEF Start, Sent, StartKept, Shaped, Statuses, OwnerLives
  <2>8. NoneRevived(g)
      BY <1>1, <1>d, <1>t, <1>s, <1>u, <1>v, <1>w
         DEF Start, Sent, NoneRevived, Lives, GuardianLives, OwnerLives, Running, Shaped
  <2>9. Witnessed(g)
      BY <1>1, <2>1, <1>a, <1>b, <1>d, <1>t, <1>s, <1>u, <1>v, <1>w
         DEF Start, Sent, Witnessed, Shaped, Statuses, OwnerLives
  <2>10. PromiseKept(g)
      BY <1>1, <2>1, <1>a, <1>d, <1>t, <1>s, <1>u, <1>v, <1>w
         DEF Start, Sent, PromiseKept, Over, Ended, Alive, Shaped, Statuses, OwnerLives, Running
  <2> QED BY <2>1, <2>2, <2>3, <2>4, <2>5, <2>6, <2>7, <2>8, <2>9, <2>10 DEF Steps
<1>2. CASE HearStop(g)
  <2>1. Claimed(g) /\ row.status # "reserved"
      BY <1>2, <1>b, <1>d DEF HearStop, Claimed, Shaped, OwnerLives
  <2>2. Others(g) BY <1>2, <1>t, <1>s, <1>u, <1>v DEF HearStop, Others
  <2>3. RowKept(g)
      BY <1>2, <2>1, <1>a, <1>b, <1>d, <1>t, <1>s, <1>u, <1>v
         DEF HearStop, RowKept, Shaped, Statuses, OwnerLives
  <2>4. Shaped(g)'
      BY <1>2, <2>1, <1>b, <1>d, <1>t, <1>s, <1>u, <1>v DEF HearStop, Shaped, Running, OwnerLives
  <2>5. EndKept(g)
      BY <1>2, <2>1, <1>a, <1>d, <1>t, <1>s, <1>u, <1>v
         DEF HearStop, EndKept, Over, Ended, Alive, Shaped, Running, OwnerLives, Statuses
  <2>6. MachineKept BY <1>2, <1>c DEF HearStop, MachineKept, TypeOK, Controllers
  <2>7. StartKept(g)
      BY <1>2, <2>1, <1>a, <1>b, <1>d, <1>t, <1>s, <1>u, <1>v
         DEF HearStop, StartKept, Shaped, Statuses, OwnerLives
  <2>8. NoneRevived(g)
      BY <1>2, <1>d, <1>t, <1>s, <1>u, <1>v
         DEF HearStop, NoneRevived, Lives, GuardianLives, OwnerLives, Running, Shaped
  <2>9. Witnessed(g)
      BY <1>2, <2>1, <1>a, <1>b, <1>d, <1>t, <1>s, <1>u, <1>v
         DEF HearStop, Witnessed, Shaped, Statuses, OwnerLives
  <2>10. PromiseKept(g)
      BY <1>2, <2>1, <1>a, <1>d, <1>t, <1>s, <1>u, <1>v
         DEF HearStop, PromiseKept, Over, Ended, Alive, Shaped, Statuses, OwnerLives, Running
  <2> QED BY <2>1, <2>2, <2>3, <2>4, <2>5, <2>6, <2>7, <2>8, <2>9, <2>10 DEF Steps
<1>3. CASE StopsItself(g)
  <2>1. Claimed(g) /\ row.status # "reserved"
      BY <1>3, <1>b, <1>d DEF StopsItself, Claimed, Shaped, OwnerLives
  <2>2. Others(g) BY <1>3, <1>t, <1>s DEF StopsItself, Others
  <2>3. RowKept(g)
      BY <1>3, <2>1, <1>a, <1>b, <1>d, <1>t, <1>s
         DEF StopsItself, RowKept, Shaped, Statuses, OwnerLives
  <2>4. Shaped(g)'
      BY <1>3, <2>1, <1>b, <1>d, <1>t, <1>s DEF StopsItself, Shaped, Running, OwnerLives
  <2>5. EndKept(g)
      BY <1>3, <2>1, <1>a, <1>d, <1>t, <1>s
         DEF StopsItself, EndKept, Over, Ended, Alive, Shaped, Running, OwnerLives, Statuses
  <2>6. MachineKept BY <1>3, <1>c DEF StopsItself, MachineKept, TypeOK, Controllers
  <2>7. StartKept(g)
      BY <1>3, <2>1, <1>a, <1>b, <1>d, <1>t, <1>s
         DEF StopsItself, StartKept, Shaped, Statuses, OwnerLives
  <2>8. NoneRevived(g)
      BY <1>3, <1>d, <1>t, <1>s
         DEF StopsItself, NoneRevived, Lives, GuardianLives, OwnerLives, Running, Shaped
  <2>9. Witnessed(g)
      BY <1>3, <2>1, <1>a, <1>b, <1>d, <1>t, <1>s
         DEF StopsItself, Witnessed, Shaped, Statuses, OwnerLives
  <2>10. PromiseKept(g)
      BY <1>3, <2>1, <1>a, <1>d, <1>t, <1>s
         DEF StopsItself, PromiseKept, Over, Ended, Alive, Shaped, Statuses, OwnerLives, Running
  <2> QED BY <2>1, <2>2, <2>3, <2>4, <2>5, <2>6, <2>7, <2>8, <2>9, <2>10 DEF Steps
<1>4. CASE AgentClosed(g)
  <2>1. Claimed(g) /\ row.status # "reserved"
      BY <1>4, <1>b, <1>d DEF AgentClosed, Claimed, Shaped, OwnerLives
  <2>2. Others(g) BY <1>4, <1>t, <1>s DEF AgentClosed, Others
  <2>3. RowKept(g)
      BY <1>4, <2>1, <1>a, <1>b, <1>d, <1>t, <1>s
         DEF AgentClosed, RowKept, Shaped, Statuses, OwnerLives
  <2>4. Shaped(g)'
      BY <1>4, <2>1, <1>b, <1>d, <1>t, <1>s DEF AgentClosed, Shaped, Running, OwnerLives
  <2>5. EndKept(g)
      BY <1>4, <2>1, <1>a, <1>d, <1>t, <1>s
         DEF AgentClosed, EndKept, Over, Ended, Alive, Shaped, Running, OwnerLives, Statuses
  <2>6. MachineKept BY <1>4, <1>c DEF AgentClosed, MachineKept, TypeOK, Controllers
  <2>7. StartKept(g)
      BY <1>4, <2>1, <1>a, <1>b, <1>d, <1>t, <1>s
         DEF AgentClosed, StartKept, Shaped, Statuses, OwnerLives
  <2>8. NoneRevived(g)
      BY <1>4, <1>d, <1>t, <1>s
         DEF AgentClosed, NoneRevived, Lives, GuardianLives, OwnerLives, Running, Shaped
  <2>9. Witnessed(g)
      BY <1>4, <2>1, <1>a, <1>b, <1>d, <1>t, <1>s
         DEF AgentClosed, Witnessed, Shaped, Statuses, OwnerLives
  <2>10. PromiseKept(g)
      BY <1>4, <2>1, <1>a, <1>d, <1>t, <1>s
         DEF AgentClosed, PromiseKept, Over, Ended, Alive, Shaped, Statuses, OwnerLives, Running
  <2> QED BY <2>1, <2>2, <2>3, <2>4, <2>5, <2>6, <2>7, <2>8, <2>9, <2>10 DEF Steps
<1>5. CASE KillOthers(g)
  <2>1. Claimed(g) /\ row.status # "reserved"
      BY <1>5, <1>b, <1>d DEF KillOthers, Kill, Sent, Claimed, Shaped, OwnerLives
  <2>2. Others(g) BY <1>5, <1>t, <1>v DEF KillOthers, Kill, Sent, Others
  <2>3. RowKept(g)
      BY <1>5, <2>1, <1>a, <1>b, <1>d, <1>t, <1>v
         DEF KillOthers, Kill, Sent, RowKept, Shaped, Statuses, OwnerLives
  <2>4. Shaped(g)'
      BY <1>5, <2>1, <1>b, <1>d, <1>t, <1>v DEF KillOthers, Kill, Sent, Shaped, Running, OwnerLives
  <2>5. EndKept(g)
      BY <1>5, <2>1, <1>a, <1>d, <1>t, <1>v
         DEF KillOthers, Kill, Sent, EndKept, Over, Ended, Alive, Shaped, Running, OwnerLives,
             Statuses
  <2>6. MachineKept BY <1>5, <1>c DEF KillOthers, Kill, Sent, MachineKept, TypeOK, Controllers
  <2>7. StartKept(g)
      BY <1>5, <2>1, <1>a, <1>b, <1>d, <1>t, <1>v
         DEF KillOthers, Kill, Sent, StartKept, Shaped, Statuses, OwnerLives
  <2>8. NoneRevived(g)
      BY <1>5, <1>d, <1>t, <1>v
         DEF KillOthers, Kill, Sent, NoneRevived, Lives, GuardianLives, OwnerLives, Running, Shaped
  <2>9. Witnessed(g)
      BY <1>5, <2>1, <1>a, <1>b, <1>d, <1>t, <1>v
         DEF KillOthers, Kill, Sent, Witnessed, Shaped, Statuses, OwnerLives
  <2>10. PromiseKept(g)
      BY <1>5, <2>1, <1>a, <1>d, <1>t, <1>v
         DEF KillOthers, Kill, Sent, PromiseKept, Over, Ended, Alive, Shaped, Statuses, OwnerLives,
             Running
  <2> QED BY <2>1, <2>2, <2>3, <2>4, <2>5, <2>6, <2>7, <2>8, <2>9, <2>10 DEF Steps
<1>6. CASE KillItself(g)
  <2>1. Claimed(g) /\ row.status # "reserved"
      BY <1>6, <1>b, <1>d DEF KillItself, Kill, Claimed, Shaped, OwnerLives
  <2>2. Others(g) BY <1>6, <1>t, <1>v DEF KillItself, Kill, Others
  <2>3. RowKept(g)
      BY <1>6, <2>1, <1>a, <1>b, <1>d, <1>t, <1>v
         DEF KillItself, Kill, RowKept, Shaped, Statuses, OwnerLives
  <2>4. Shaped(g)'
      BY <1>6, <2>1, <1>b, <1>d, <1>t, <1>v DEF KillItself, Kill, Shaped, Running, OwnerLives
  <2>5. EndKept(g)
      BY <1>6, <2>1, <1>a, <1>d, <1>t, <1>v
         DEF KillItself, Kill, EndKept, Over, Ended, Alive, Shaped, Running, OwnerLives, Statuses
  <2>6. MachineKept BY <1>6, <1>c DEF KillItself, Kill, MachineKept, TypeOK, Controllers
  <2>7. StartKept(g)
      BY <1>6, <2>1, <1>a, <1>b, <1>d, <1>t, <1>v
         DEF KillItself, Kill, StartKept, Shaped, Statuses, OwnerLives
  <2>8. NoneRevived(g)
      BY <1>6, <1>d, <1>t, <1>v
         DEF KillItself, Kill, NoneRevived, Lives, GuardianLives, OwnerLives, Running, Shaped
  <2>9. Witnessed(g)
      BY <1>6, <2>1, <1>a, <1>b, <1>d, <1>t, <1>v
         DEF KillItself, Kill, Witnessed, Shaped, Statuses, OwnerLives
  <2>10. PromiseKept(g)
      BY <1>6, <2>1, <1>a, <1>d, <1>t, <1>v
         DEF KillItself, Kill, PromiseKept, Over, Ended, Alive, Shaped, Statuses, OwnerLives,
             Running
  <2> QED BY <2>1, <2>2, <2>3, <2>4, <2>5, <2>6, <2>7, <2>8, <2>9, <2>10 DEF Steps
<1> QED BY <1>1, <1>2, <1>3, <1>4, <1>5, <1>6 DEF OwnerStep

\* What is killed or fails from outside, of a launch that was claimed.
LEMMA AccidentSteps ==
    ASSUME LaunchAssumption, TypeOK, Inv, NEW g \in Guardians,
           \/ SocketFails(g) \/ Terminate(g) \/ OwnerDies(g) \/ AgentExits(g)
           \/ (GuardianDies(g) /\ Claimed(g))
    PROVE  Claimed(g) /\ Steps(g)
<1> USE DEF Inv, ledger, supervisor, group, machine
<1>t. /\ guardian \in [Guardians -> GuardianPhases] /\ pinned \in [Guardians -> Commands \cup {None}]
      /\ proof \in [Guardians -> BOOLEAN] /\ owner \in [Guardians -> OwnerPhases]
      /\ agent \in [Guardians -> {"none", "running", "left", "gone"}]
      /\ toOwner \in [Guardians -> Seq(OwnerHears)] /\ toGuardian \in [Guardians -> Seq(OwnerSays)]
      /\ observed \in [Guardians -> {"starting", "running", "stopping"}]
    BY DEF TypeOK
<1>v. <<>> \notin {<<"start">>, <<"start", "stop">>} /\ <<"stop">> \notin {<<"start">>, <<"start", "stop">>}
    OBVIOUS
<1>a. /\ \A status \in Statuses :
            /\ Written(status).command = row.command /\ Written(status).boot = row.boot
            /\ Over => Written(status) = row
            /\ ~Over => Written(status).status = status
      /\ row.status \in Statuses
    BY DEF Written, Writable, Over, TypeOK, Rows
<1>b. Claimed(g) =>
         /\ row.status # "reserved"
         /\ row.command # None => pinned[g] = row.command /\ guardian[g] # "checked"
    BY OnlyOne
<1>c. \A m, answer : Reply(m, answer) => ctl'.at = ctl.at /\ ctl'.boot = ctl.boot
    BY DEF Reply, TypeOK, Controllers
<1>d. /\ Shaped(g)
      /\ owner[g] # "none" \/ guardian[g] = "pinned" => row.command = pinned[g]
      /\ Over => MayMissBoot \/ ~Alive(g)
      /\ toOwner[g] \in {<<"start">>, <<"start", "stop">>} => starts = <<>>
      /\ owner[g] = "none" /\ Claimed(g) => starts = <<>>
  <2>1. owner[g] = "none" /\ Claimed(g) => \A h \in Guardians : owner[h] = "none" BY OnlyOne
  <2> QED BY <2>1 DEF ShapeInv, RowInv, EndInv, StartInv
<1>1. CASE SocketFails(g)
  <2>1. Claimed(g) /\ row.status # "reserved"
      BY <1>1, <1>b, <1>d DEF SocketFails, Exit, Claimed, Shaped, OwnerLives
  <2>2. Others(g) BY <1>1, <1>t DEF SocketFails, Exit, Others
  <2>3. RowKept(g)
      BY <1>1, <2>1, <1>a, <1>b, <1>d, <1>t
         DEF SocketFails, Exit, RowKept, Shaped, Statuses, OwnerLives
  <2>4. Shaped(g)'
      BY <1>1, <2>1, <1>b, <1>d, <1>t DEF SocketFails, Exit, Shaped, Running, OwnerLives
  <2>5. EndKept(g)
      BY <1>1, <2>1, <1>a, <1>d, <1>t
         DEF SocketFails, Exit, EndKept, Over, Ended, Alive, Shaped, Running, OwnerLives, Statuses
  <2>6. MachineKept BY <1>1, <1>c DEF SocketFails, Exit, MachineKept, TypeOK, Controllers
  <2>7. StartKept(g)
      BY <1>1, <2>1, <1>a, <1>b, <1>d, <1>t
         DEF SocketFails, Exit, StartKept, Shaped, Statuses, OwnerLives
  <2>8. NoneRevived(g)
      BY <1>1, <1>d, <1>t
         DEF SocketFails, Exit, NoneRevived, Lives, GuardianLives, OwnerLives, Running, Shaped
  <2>9. Witnessed(g)
      BY <1>1, <2>1, <1>a, <1>b, <1>d, <1>t
         DEF SocketFails, Exit, Witnessed, Shaped, Statuses, OwnerLives
  <2>10. PromiseKept(g)
      BY <1>1, <2>1, <1>a, <1>d, <1>t
         DEF SocketFails, Exit, PromiseKept, Over, Ended, Alive, Shaped, Statuses, OwnerLives,
             Running
  <2> QED BY <2>1, <2>2, <2>3, <2>4, <2>5, <2>6, <2>7, <2>8, <2>9, <2>10 DEF Steps
<1>2. CASE Terminate(g)
  <2>1. Claimed(g) /\ row.status # "reserved"
      BY <1>2, <1>b, <1>d DEF Terminate, Claimed, Shaped, OwnerLives
  <2>2. Others(g) BY <1>2, <1>t, <1>v DEF Terminate, Others
  <2>3. RowKept(g)
      BY <1>2, <2>1, <1>a, <1>b, <1>d, <1>t, <1>v
         DEF Terminate, RowKept, Shaped, Statuses, OwnerLives
  <2>4. Shaped(g)' BY <1>2, <2>1, <1>b, <1>d, <1>t, <1>v DEF Terminate, Shaped, Running, OwnerLives
  <2>5. EndKept(g)
      BY <1>2, <2>1, <1>a, <1>d, <1>t, <1>v
         DEF Terminate, EndKept, Over, Ended, Alive, Shaped, Running, OwnerLives, Statuses
  <2>6. MachineKept BY <1>2, <1>c DEF Terminate, MachineKept, TypeOK, Controllers
  <2>7. StartKept(g)
      BY <1>2, <2>1, <1>a, <1>b, <1>d, <1>t, <1>v
         DEF Terminate, StartKept, Shaped, Statuses, OwnerLives
  <2>8. NoneRevived(g)
      BY <1>2, <1>d, <1>t, <1>v
         DEF Terminate, NoneRevived, Lives, GuardianLives, OwnerLives, Running, Shaped
  <2>9. Witnessed(g)
      BY <1>2, <2>1, <1>a, <1>b, <1>d, <1>t, <1>v
         DEF Terminate, Witnessed, Shaped, Statuses, OwnerLives
  <2>10. PromiseKept(g)
      BY <1>2, <2>1, <1>a, <1>d, <1>t, <1>v
         DEF Terminate, PromiseKept, Over, Ended, Alive, Shaped, Statuses, OwnerLives, Running
  <2> QED BY <2>1, <2>2, <2>3, <2>4, <2>5, <2>6, <2>7, <2>8, <2>9, <2>10 DEF Steps
<1>3. CASE OwnerDies(g)
  <2>1. Claimed(g) /\ row.status # "reserved"
      BY <1>3, <1>b, <1>d DEF OwnerDies, Claimed, Shaped, OwnerLives
  <2>2. Others(g) BY <1>3, <1>t, <1>v DEF OwnerDies, Others
  <2>3. RowKept(g)
      BY <1>3, <2>1, <1>a, <1>b, <1>d, <1>t, <1>v
         DEF OwnerDies, RowKept, Shaped, Statuses, OwnerLives
  <2>4. Shaped(g)' BY <1>3, <2>1, <1>b, <1>d, <1>t, <1>v DEF OwnerDies, Shaped, Running, OwnerLives
  <2>5. EndKept(g)
      BY <1>3, <2>1, <1>a, <1>d, <1>t, <1>v
         DEF OwnerDies, EndKept, Over, Ended, Alive, Shaped, Running, OwnerLives, Statuses
  <2>6. MachineKept BY <1>3, <1>c DEF OwnerDies, MachineKept, TypeOK, Controllers
  <2>7. StartKept(g)
      BY <1>3, <2>1, <1>a, <1>b, <1>d, <1>t, <1>v
         DEF OwnerDies, StartKept, Shaped, Statuses, OwnerLives
  <2>8. NoneRevived(g)
      BY <1>3, <1>d, <1>t, <1>v
         DEF OwnerDies, NoneRevived, Lives, GuardianLives, OwnerLives, Running, Shaped
  <2>9. Witnessed(g)
      BY <1>3, <2>1, <1>a, <1>b, <1>d, <1>t, <1>v
         DEF OwnerDies, Witnessed, Shaped, Statuses, OwnerLives
  <2>10. PromiseKept(g)
      BY <1>3, <2>1, <1>a, <1>d, <1>t, <1>v
         DEF OwnerDies, PromiseKept, Over, Ended, Alive, Shaped, Statuses, OwnerLives, Running
  <2> QED BY <2>1, <2>2, <2>3, <2>4, <2>5, <2>6, <2>7, <2>8, <2>9, <2>10 DEF Steps
<1>4. CASE AgentExits(g)
  <2>1. Claimed(g) /\ row.status # "reserved"
      BY <1>4, <1>b, <1>d DEF AgentExits, Claimed, Shaped, OwnerLives
  <2>2. Others(g) BY <1>4, <1>t DEF AgentExits, Others
  <2>3. RowKept(g)
      BY <1>4, <2>1, <1>a, <1>b, <1>d, <1>t DEF AgentExits, RowKept, Shaped, Statuses, OwnerLives
  <2>4. Shaped(g)' BY <1>4, <2>1, <1>b, <1>d, <1>t DEF AgentExits, Shaped, Running, OwnerLives
  <2>5. EndKept(g)
      BY <1>4, <2>1, <1>a, <1>d, <1>t
         DEF AgentExits, EndKept, Over, Ended, Alive, Shaped, Running, OwnerLives, Statuses
  <2>6. MachineKept BY <1>4, <1>c DEF AgentExits, MachineKept, TypeOK, Controllers
  <2>7. StartKept(g)
      BY <1>4, <2>1, <1>a, <1>b, <1>d, <1>t DEF AgentExits, StartKept, Shaped, Statuses, OwnerLives
  <2>8. NoneRevived(g)
      BY <1>4, <1>d, <1>t
         DEF AgentExits, NoneRevived, Lives, GuardianLives, OwnerLives, Running, Shaped
  <2>9. Witnessed(g)
      BY <1>4, <2>1, <1>a, <1>b, <1>d, <1>t DEF AgentExits, Witnessed, Shaped, Statuses, OwnerLives
  <2>10. PromiseKept(g)
      BY <1>4, <2>1, <1>a, <1>d, <1>t
         DEF AgentExits, PromiseKept, Over, Ended, Alive, Shaped, Statuses, OwnerLives, Running
  <2> QED BY <2>1, <2>2, <2>3, <2>4, <2>5, <2>6, <2>7, <2>8, <2>9, <2>10 DEF Steps
<1>5. CASE (GuardianDies(g) /\ Claimed(g))
  <2>1. Claimed(g) /\ row.status # "reserved"
      BY <1>5, <1>b, <1>d DEF GuardianDies, Exit, GuardianLives, Claimed, Shaped, OwnerLives
  <2>2. Others(g) BY <1>5, <1>t DEF GuardianDies, Exit, GuardianLives, Others
  <2>3. RowKept(g)
      BY <1>5, <2>1, <1>a, <1>b, <1>d, <1>t
         DEF GuardianDies, Exit, GuardianLives, RowKept, Shaped, Statuses, OwnerLives
  <2>4. Shaped(g)'
      BY <1>5, <2>1, <1>b, <1>d, <1>t
         DEF GuardianDies, Exit, GuardianLives, Shaped, Running, OwnerLives
  <2>5. EndKept(g)
      BY <1>5, <2>1, <1>a, <1>d, <1>t
         DEF GuardianDies, Exit, GuardianLives, EndKept, Over, Ended, Alive, Shaped, Running,
             OwnerLives, Statuses
  <2>6. MachineKept
      BY <1>5, <1>c DEF GuardianDies, Exit, GuardianLives, MachineKept, TypeOK, Controllers
  <2>7. StartKept(g)
      BY <1>5, <2>1, <1>a, <1>b, <1>d, <1>t
         DEF GuardianDies, Exit, GuardianLives, StartKept, Shaped, Statuses, OwnerLives
  <2>8. NoneRevived(g)
      BY <1>5, <1>d, <1>t
         DEF GuardianDies, Exit, GuardianLives, NoneRevived, Lives, OwnerLives, Running, Shaped
  <2>9. Witnessed(g)
      BY <1>5, <2>1, <1>a, <1>b, <1>d, <1>t
         DEF GuardianDies, Exit, GuardianLives, Witnessed, Shaped, Statuses, OwnerLives
  <2>10. PromiseKept(g)
      BY <1>5, <2>1, <1>a, <1>d, <1>t
         DEF GuardianDies, Exit, GuardianLives, PromiseKept, Over, Ended, Alive, Shaped, Statuses,
             OwnerLives, Running
  <2> QED BY <2>1, <2>2, <2>3, <2>4, <2>5, <2>6, <2>7, <2>8, <2>9, <2>10 DEF Steps
<1> QED BY <1>1, <1>2, <1>3, <1>4, <1>5 DEF Steps

-----------------------------------------------------------------------------
(* Guardians that have not claimed the launch.                             *)

\* Claiming it is the one way a guardian comes to act on a launch.
LEMMA InvUnclaimed ==
    ASSUME LaunchAssumption, TypeOK, Inv, NEW g \in Guardians,
           Claim(g) \/ (GuardianDies(g) /\ ~Claimed(g))
    PROVE  Inv'
<1> USE DEF Inv, ledger, supervisor, group, machine
<1>1. /\ guardian \in [Guardians -> GuardianPhases] /\ proof \in [Guardians -> BOOLEAN]
      /\ toGuardian \in [Guardians -> Seq(OwnerSays)]
    BY DEF TypeOK
<1>2. guardian[g] = "spawned"
    BY DEF Claim, GuardianDies, GuardianLives, Claimed
<1>3. pinned[g] = None /\ owner[g] = "none" /\ agent[g] = "none" /\ toGuardian[g] = <<>> /\ ~proof[g]
    BY <1>1, <1>2 DEF ShapeInv, Shaped
<1>4. /\ guardian' = [guardian EXCEPT ![g] = guardian'[g]] /\ guardian'[g] \in {"claimed", "over"}
      /\ UNCHANGED <<settled, live, boot, pinned, owner, agent, toOwner, starts>>
      /\ toGuardian' = [toGuardian EXCEPT ![g] = <<>>] \/ toGuardian' = toGuardian
      /\ proof' = [proof EXCEPT ![g] = FALSE] \/ proof' = proof
      /\ ctl' = ctl
    BY <1>1 DEF Claim, Enter, GuardianDies, Exit
<1>5. /\ row'.command = row.command /\ row'.boot = row.boot
      /\ (row' = row /\ guardian'[g] = "over")
           \/ (row.status = "reserved" /\ row'.status = "starting" /\ guardian'[g] = "claimed")
    BY <1>1 DEF Claim, Claimable, Written, Writable, Ended, Enter, GuardianDies, Exit, TypeOK, Rows
<1>6. \A h \in Guardians \ {g} : guardian'[h] = guardian[h] BY <1>1, <1>4
<1>7. toGuardian' = toGuardian /\ proof' = proof BY <1>1, <1>3, <1>4
<1>8. \A h \in Guardians \ {g} : Claimed(h)' <=> Claimed(h) BY <1>4, <1>6 DEF Claimed
<1>9. \A h \in Guardians : Alive(h)' <=> Alive(h)
    BY <1>2, <1>4, <1>5, <1>6 DEF Alive, OwnerLives, Running
<1>10. ShapeInv'
  <2>1. ASSUME NEW h \in Guardians \ {g} PROVE Shaped(h)'
      BY <1>4, <1>6, <1>7 DEF ShapeInv, Shaped, Running
  <2>2. Shaped(g)' BY <1>2, <1>3, <1>4, <1>7 DEF ShapeInv, Shaped, Running
  <2> QED BY <2>1, <2>2 DEF ShapeInv
<1>11. RowInv'
  <2>1. CASE row' = row /\ guardian'[g] = "over"
    <3>1. ~Claimed(g)' BY <1>3, <1>4, <2>1 DEF Claimed
    <3> QED BY <1>2, <1>3, <1>4, <1>6, <1>8, <2>1, <3>1 DEF RowInv
  <2>2. CASE row.status = "reserved" /\ row'.status = "starting" /\ guardian'[g] = "claimed"
    <3>1. \A h \in Guardians \ {g} : ~Claimed(h)' BY <1>8, <2>2 DEF RowInv
    <3>2. row'.command = None BY <1>5, <2>2 DEF RowInv
    <3>3. \A h \in Guardians : owner'[h] # "none" \/ guardian'[h] = "pinned" => row'.command = pinned'[h]
        BY <1>3, <1>4, <1>5, <1>6, <2>2 DEF RowInv
    <3> QED BY <2>2, <3>1, <3>2, <3>3 DEF RowInv
  <2> QED BY <1>5, <2>1, <2>2
<1>12. EndInv' BY <1>4, <1>5, <1>9 DEF EndInv, Over, Ended
<1>13. BootInv'
  <2>1. \A h \in Guardians : (GuardianLives(h) \/ OwnerLives(h) \/ Running(h))' => GuardianLives(h) \/ OwnerLives(h) \/ Running(h)
      BY <1>2, <1>4, <1>6 DEF GuardianLives, OwnerLives, Running
  <2> QED BY <1>4, <1>5, <2>1 DEF BootInv, At
<1>14. StartInv' BY <1>4, <1>5 DEF StartInv
<1> QED BY <1>10, <1>11, <1>12, <1>13, <1>14

-----------------------------------------------------------------------------
(* The theorems.  That a launch ends only where nothing of it is left, and *)
(* by whose verdict, needs the boot identifier to be readable: without it  *)
(* a row can name a boot its guardian does not run in.  That an agent      *)
(* starts once does not need it.                                           *)

\* Whatever a guardian, its owner, their agent or an accident does, a guardian that acts has
\* claimed the launch.
LEMMA ClaimedSteps ==
    ASSUME LaunchAssumption, TypeOK, Inv, NEW g \in Guardians,
           GuardianStep(g) \/ OwnerStep(g) \/ Accident(g)
    PROVE  \/ Claimed(g) /\ Steps(g)
           \/ Claim(g) \/ (GuardianDies(g) /\ ~Claimed(g))
BY GuardianSteps, HearingSteps, OwnerSteps, AccidentSteps DEF GuardianStep, Accident

LEMMA InvStep ==
    ASSUME LaunchAssumption, TypeOK, Inv, [Next]_vars
    PROVE  Inv'
<1>1. CASE Tick \/ ControllerDies \/ StopOwned BY <1>1, InvController
<1>2. CASE SessionEnds \/ Reboot \/ UNCHANGED vars BY <1>2, InvMachine
<1>3. CASE \E g \in Guardians : GuardianStep(g) \/ OwnerStep(g) \/ Accident(g)
  <2>1. PICK g \in Guardians : GuardianStep(g) \/ OwnerStep(g) \/ Accident(g) BY <1>3
  <2>2. CASE Claimed(g) /\ Steps(g) BY <2>2, StepsKeep
  <2>3. CASE Claim(g) \/ (GuardianDies(g) /\ ~Claimed(g)) BY <2>3, InvUnclaimed
  <2> QED BY <2>1, <2>2, <2>3, ClaimedSteps
<1> QED BY <1>1, <1>2, <1>3 DEF Next

\* What the row says of a launch is true of its processes.
THEOREM Invariant == Spec => []Inv
<1>1. Init => TypeOK /\ Inv BY LaunchAssumption, TypesInit, InvInit
<1>2. TypeOK /\ Inv /\ [Next]_vars => (TypeOK /\ Inv)' BY LaunchAssumption, TypesStep, InvStep
<1> QED BY <1>1, <1>2, PTL DEF Spec

\* A launch that is recorded as unclaimed, ended or settled has no owner, no process and none
\* about to be spawned, and what lives is what the row pins (ledger.ts, supervisor.mjs).
THEOREM LaunchIsAccounted ==
    ASSUME ~MayMissBoot
    PROVE  Spec => []Accounted
<1>1. Inv => Accounted
  <2> SUFFICES ASSUME Inv, NEW g \in Guardians, Alive(g)
               PROVE  ~Over /\ ~settled /\ row.status # "reserved" /\ row.command = pinned[g]
      BY DEF Accounted, Alive
  <2>1. ~Over /\ ~settled BY DEF Inv, EndInv
  <2>2. owner[g] # "none" \/ guardian[g] = "pinned"
      BY DEF Alive, OwnerLives, Running, Inv, ShapeInv, Shaped
  <2>3. row.command = pinned[g] /\ pinned[g] # None
      BY <2>2 DEF Inv, RowInv, ShapeInv, Shaped
  <2>4. row.status # "reserved" BY <2>3 DEF Inv, RowInv
  <2> QED BY <2>1, <2>3, <2>4
<1> QED BY <1>1, Invariant, PTL

\* A launch's agent is started once at most, with the pinned command, through any number of
\* controllers, guardians, retries and reboots (reserve, claim and pin of supervisor.mjs).
THEOREM AgentStartsOnce == Spec => []StartedOnce
<1>1. Inv => StartedOnce
  <2> SUFFICES ASSUME StartInv PROVE StartedOnce BY DEF Inv
  <2>1. CASE starts = <<>> BY <2>1 DEF StartedOnce
  <2>2. CASE starts = <<row.command>>
    <3>1. Len(starts) = 1 /\ starts[1] = row.command BY <2>2
    <3> QED BY <3>1 DEF StartedOnce
  <2> QED BY <2>1, <2>2 DEF StartInv
<1> QED BY <1>1, Invariant, PTL

\* Where boots can be read, no controller, and no guardian but its own, changes the verdict on an
\* uncertain launch that may run, unless a reboot left none of its processes (lost() of
\* process-host.ts, end() of ledger.ts).
THEOREM OnlyWitnessDecides ==
    ASSUME ~MayMissBoot
    PROVE  Spec => VerdictNeedsWitness
<1> DEFINE Decided == row.status = "uncertain" /\ row.command # None /\ row'.status # "uncertain"
           Gone == \A g \in Guardians : ~GuardianLives(g) /\ ~OwnerLives(g) /\ ~Running(g)
           Witness == \/ boot > row.boot /\ Gone
                      \/ \E g \in Guardians : guardian[g] \in {"open", "pinned"} /\ pinned[g] = row.command
<1>1. ASSUME TypeOK, Inv, [Next]_vars, Decided PROVE Witness
  <2>1. CASE Tick \/ ControllerDies \/ StopOwned
    <3>1. row.boot # boot BY <1>1, <2>1, LaunchAssumption, ControllerFrame DEF Inv, RowMoves
    <3>2. row.boot \in Nat /\ boot \in Nat /\ row.boot <= boot
        BY <1>1 DEF TypeOK, Rows, Inv, BootInv
    <3>3. Gone BY <1>1, <3>1 DEF Inv, BootInv
    <3> QED BY <3>1, <3>2, <3>3
  <2>2. CASE SessionEnds \/ Reboot \/ UNCHANGED vars
      BY <1>1, <2>2 DEF SessionEnds, Reboot, vars, ledger
  <2>3. CASE \E g \in Guardians : GuardianStep(g) \/ OwnerStep(g) \/ Accident(g)
    <3>1. PICK g \in Guardians : GuardianStep(g) \/ OwnerStep(g) \/ Accident(g) BY <2>3
    <3>2. CASE Claimed(g) /\ Steps(g) BY <1>1, <3>2 DEF Steps, Witnessed
    <3>3. CASE Claim(g) BY <1>1, <3>3 DEF Claim, Claimable
    <3>4. CASE GuardianDies(g) BY <1>1, <3>4 DEF GuardianDies, ledger
    <3> QED BY <1>1, <3>1, <3>2, <3>3, <3>4, LaunchAssumption, ClaimedSteps
  <2> QED BY <1>1, <2>1, <2>2, <2>3 DEF Next
<1>2. TypeOK /\ Inv /\ [Next]_vars => [Decided => Witness]_vars BY <1>1
<1> QED BY <1>2, TypeCorrect, Invariant, PTL DEF Spec, VerdictNeedsWitness

\* Every step is one of the promise's, or none it sees.
LEMMA StepImplements ==
    ASSUME LaunchAssumption, ~MayMissBoot, TypeOK, Inv, [Next]_vars
    PROVE  [Promise!Next]_(Promise!vars)
<1> SUFFICES Promise!Next \/ UNCHANGED Promise!vars BY DEF Promise!vars
<1> DEFINE alive == \E g \in Guardians : Running(g)
<1>0. Over => ~alive BY DEF Inv, EndInv, Alive
<1>1. ASSUME starts' = starts, alive' => alive, Over => Over', Over' => Over \/ ~alive
      PROVE  Promise!Next \/ UNCHANGED Promise!vars
  <2>1. CASE Over' <=> Over
    <3>1. CASE alive' <=> alive BY <1>1, <2>1, <3>1 DEF Promise!vars, Over, Ended
    <3>2. CASE ~alive' BY <1>1, <2>1, <3>2 DEF Promise!Next, Promise!End, Over, Ended
    <3> QED BY <1>1, <3>1, <3>2
  <2>2. CASE Over' /\ ~Over
    <3>1. ~alive /\ ~alive' BY <1>1, <2>2
    <3> QED BY <1>1, <2>2, <3>1 DEF Promise!Next, Promise!Record, Over, Ended
  <2> QED BY <1>1, <2>1, <2>2
<1>2. CASE Tick \/ ControllerDies \/ StopOwned
  <2>1. /\ UNCHANGED <<pinned, observed, shutdown, proof, group, machine>> /\ RowMoves
      BY <1>2, ControllerFrame DEF Inv
  <2>2. starts' = starts /\ (alive' <=> alive) BY <2>1 DEF group, Running
  <2>3. Over => Over' BY <2>1 DEF RowMoves, Over
  <2>4. Over' => Over \/ ~alive
    <3>1. Over' /\ ~Over => \A g \in Guardians : ~Alive(g)
        BY <2>1, NobodyAlive DEF Inv, RowMoves, Unlaunched
    <3> QED BY <3>1 DEF Alive
  <2> QED BY <1>1, <2>2, <2>3, <2>4
<1>3. CASE SessionEnds \/ Reboot \/ UNCHANGED vars
  <2>1. starts' = starts /\ row' = row /\ (alive' => alive)
      BY <1>3 DEF SessionEnds, Reboot, vars, ledger, group, Running, TypeOK
  <2> QED BY <1>1, <2>1 DEF Over
<1>4. CASE \E g \in Guardians : GuardianStep(g) \/ OwnerStep(g) \/ Accident(g)
  <2>1. PICK g \in Guardians : GuardianStep(g) \/ OwnerStep(g) \/ Accident(g) BY <1>4
  <2>2. CASE Claimed(g) /\ Steps(g)
    <3>1. \A h \in Guardians \ {g} : ~Running(h) /\ ~Running(h)'
        BY <2>2, OnlyOne DEF Inv, Steps, Others, Running
    <3>2. (alive <=> Running(g)) /\ (alive' <=> Running(g)') BY <3>1
    <3>3. Over => Over' BY <2>2 DEF Steps, EndKept
    <3>4. CASE starts' = starts BY <1>1, <2>2, <3>2, <3>3, <3>4 DEF Steps, PromiseKept
    <3>5. CASE starts' # starts
      <4>1. starts = <<>> /\ starts' = <<row'.command>> /\ ~Over' /\ alive'
          BY <2>2, <3>2, <3>5 DEF Steps, StartKept, PromiseKept
      <4>2. row'.command \in Commands
        <5>1. pinned'[g] \in Commands
            BY <2>2, <3>5, TypesStep DEF Steps, PromiseKept, TypeOK
        <5>2. owner'[g] # "none" => row'.command = pinned'[g] BY <2>2 DEF Steps, StartKept
        <5> QED BY <2>2, <3>5, <5>1, <5>2 DEF Steps, StartKept
      <4>3. ~Over BY <3>3, <4>1
      <4> QED BY <4>1, <4>2, <4>3 DEF Promise!Next, Promise!Start, Over, Ended
    <3> QED BY <3>4, <3>5
  <2>3. CASE Claim(g) \/ (GuardianDies(g) /\ ~Claimed(g))
    <3>1. starts' = starts /\ (alive' <=> alive) /\ (Over' <=> Over)
      <4>1. agent' = agent /\ starts' = starts
          BY <2>3 DEF Claim, GuardianDies, group, machine
      <4>2. Over' <=> Over
          BY <2>3
                 DEF Claim, Claimable, Written, Writable, Ended, GuardianDies, Over, ledger,
                     TypeOK, Rows
      <4> QED BY <4>1, <4>2 DEF Running
    <3> QED BY <1>1, <3>1
  <2> QED BY <2>1, <2>2, <2>3, ClaimedSteps
<1> QED BY <1>2, <1>3, <1>4 DEF Next

\* Launches implements LaunchPromise: its agent is started once at most, and nothing of it is
\* alive or started once the row says that it ended.
THEOREM Implements ==
    ASSUME ~MayMissBoot
    PROVE  Spec => KeepsPromise
<1>1. Init => Promise!Init
  BY DEF Init, Promise!Init, Running, Over, Ended
<1>2. TypeOK /\ Inv /\ [Next]_vars => [Promise!Next]_(Promise!vars)
    BY LaunchAssumption, StepImplements
<1> QED BY <1>1, <1>2, TypeCorrect, Invariant, PTL DEF Spec, KeepsPromise, Promise!Spec

=============================================================================

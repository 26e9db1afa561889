------------------------------ MODULE Workflows ------------------------------
(***************************************************************************)
(* The workflow engine's commands (packages/workflows): instances of       *)
(* pinned definitions move along their edges, wait on each other, and spend*)
(* the rounds their limits allow.  The graph of a version never changes;   *)
(* its policy, and the limits in it, are those of the program deployed now.*)
(* One project; a command is one write transaction, so it is one step, and *)
(* a refused command is no step.                                           *)
(*                                                                         *)
(* A command names its request ID; a retry of an answered request replays  *)
(* its receipt.  A delayed command is one that names an earlier revision.  *)
(***************************************************************************)
EXTENDS Naturals, FiniteSets

CONSTANTS
    Instances,      \* instance IDs to mint
    Names,          \* identifiers: of states, actions and limits
    Requests,       \* request IDs of callers
    Workflows,      \* the registered workflow versions
    Definition,     \* what each version pins, see DefinitionAssumption
    Policies,       \* the policies programs may be deployed with, for each version
    Providers,      \* units that own system prerequisites
    Additions,      \* the rounds an extension may add
    None,           \* absent
    MaxRevision     \* bound: the revisions of one instance

Edges == [from : Names, action : Names, to : Names]
Limits == [name : Names, from : Names, actions : SUBSET Names, max : 1..1000]

\* The history actions of the engine's own bookkeeping.
Reserved == {"start", "add_dependencies", "replan_dependencies"}

\* What a version pins: what validateDefinition accepts, and the success states.
WellFormed(d) ==
    /\ d.initial \in Names
    /\ d.edges \subseteq Edges
    /\ d.terminal \subseteq Names
    /\ \A e \in d.edges : e.from \notin d.terminal /\ e.action \notin Reserved
    /\ \A e, f \in d.edges : e.from = f.from /\ e.action = f.action => e = f
    /\ d.success \subseteq d.terminal       \* {}: no success states declared
    /\ d.pauses \subseteq Workflows         \* blocksStarts

\* What register() accepts beside the pinned d: validatePolicy and validateLimits.
Registrable(d, p) ==
    /\ p.guarded \subseteq d.edges          \* edges of rules with requiresDependencies
    /\ p.resumes \subseteq d.edges          \* edges the owner's limitExtended hook takes
    /\ p.limits \subseteq Limits
    /\ \A l \in p.limits : \A a \in l.actions :
          \E e \in d.edges : e.from = l.from /\ e.action = a /\ e.to # l.from
    /\ \A l, m \in p.limits :
          l.name = m.name \/ (l.from = m.from /\ l.actions \cap m.actions # {}) => l = m

\* A row of wf_instances, and what wf_requests records: the command and its answer.
InstanceRows == [workflow : Workflows, state : Names, revision : 0..MaxRevision]
Snapshots == [id : Instances, state : Names, revision : 0..MaxRevision]
Statuses == [id : Instances, used : Nat, granted : Nat]
Commands ==
    [op : {"start"}, workflow : Workflows, dependsOn : SUBSET Instances]
      \cup [op : {"transition"}, instance : Instances, action : Names, expected : Nat]
      \cup [op : {"add_dependencies"}, instance : Instances, expected : Nat,
            dependsOn : SUBSET Instances, drop : SUBSET Instances]
      \cup [op : {"extend_limit"}, instance : Instances, limit : Names, additional : Nat]
Receipts == [command : Commands, answer : Snapshots \cup Statuses]

ASSUME DefinitionAssumption ==
    /\ \A w \in Workflows : WellFormed(Definition[w])
    /\ \A w \in Workflows : \A p \in Policies[w] : Registrable(Definition[w], p)
    /\ Reserved \subseteq Names
    /\ Additions \subseteq Nat
    /\ MaxRevision \in Nat

ASSUME NoneAssumption == None \notin Names \cup Providers \cup InstanceRows \cup Receipts

VARIABLES
    instances,      \* wf_instances: workflow, state and revision, or None
    history,        \* wf_history
    receipts,       \* wf_requests: the fingerprinted command and its recorded answer
    grants,         \* wf_limit_grants: a grant of n rounds is n records
    edges,          \* wf_dependencies; the owner is None for a declared edge
    escalations,    \* the workflow.escalated events
    admitted,       \* (history) the prerequisites each guarded transition rested on
    rules,          \* the registered policy of each version
    inherited       \* (history) what wf_history held when it was deployed

deployed == <<rules, inherited>>
vars == <<instances, history, receipts, grants, edges, escalations, admitted, deployed>>

\* limitExtended resumes work under a request ID derived from the extension's.
Resuming(k) == <<"resume", k>>
Keys == Requests \cup {Resuming(k) : k \in Requests}

\* A request is not the one derived from it.
ASSUME RequestAssumption == \A k \in Requests : Resuming(k) # k

Held == {i \in Instances : instances[i] # None}
Of(i) == Definition[instances[i].workflow]
Rules(i) == rules[instances[i].workflow]
Ended(i) == instances[i].state \in Of(i).terminal
Settled(i) == instances[i].state \in Of(i).success

-----------------------------------------------------------------------------
(* The dependency graph.                                                   *)

Successors(graph, i) == {e.target : e \in {f \in graph : f.source = i}}

Closed(graph, ids) == \A e \in graph : e.source \in ids => e.target \in ids

\* What is reached from the given instances: the recursive query of attachDependencies.
Reached(graph, given) ==
    {i \in Instances : \A ids \in SUBSET Instances :
                           given \subseteq ids /\ Closed(graph, ids) => i \in ids}

Prerequisites(i) == Successors(edges, i)

Attached(i, owner) == {e.target : e \in {f \in edges : f.source = i /\ f.owner = owner}}

EdgesTo(i, ids, owner) == {[source |-> i, target |-> t, owner |-> owner] : t \in ids}

\* mutant: only the edges of the same owner are searched
Mutant_MayAttach(i, ids, owner) ==
    /\ i \notin ids
    /\ \A t \in ids \ Attached(i, owner) : instances[t] # None /\ Of(t).success # {}
    /\ i \notin Reached({e \in edges : e.owner = owner}, ids \ Attached(i, owner))

\* attachDependencies admits the set: nothing in it is refused, none leads back.
MayAttach(i, ids, owner) ==
    /\ i \notin ids
    /\ \A t \in ids \ Attached(i, owner) : instances[t] # None /\ Of(t).success # {}
    /\ i \notin Reached(edges, ids \ Attached(i, owner))

-----------------------------------------------------------------------------
(* Limits: counted from the history, never kept.                           *)

Used(rows, i, l) ==
    Cardinality({h \in rows : h.instance = i /\ h.from = l.from /\ h.action \in l.actions})

Granted(given, i, l) == Cardinality({g \in given : g.instance = i /\ g.limit = l.name})

\* mutant: one round more than allowed
Mutant_Exhausted(rows, given, i, l) == Used(rows, i, l) > l.max + Granted(given, i, l)

Exhausted(rows, given, i, l) == Used(rows, i, l) >= l.max + Granted(given, i, l)

Caps(l, e) == l.from = e.from /\ e.action \in l.actions

-----------------------------------------------------------------------------
(* What every command does.                                                *)

\* mutant: a request is executed again
Mutant_Unanswered(k) == TRUE

\* replay(): nothing was recorded for this request yet.
Unanswered(k) == receipts[k] = None

\* enter(): the instance stands where the caller saw it.
AtRevision(i, expected) == instances[i].revision = expected

Snapshot(i, row) == [id |-> i, state |-> row.state, revision |-> row.revision]

Receipt(command, answer) == [command |-> command, answer |-> answer]

\* mutant: the row carries the revision the instance had before
Mutant_Row(i, row, k, action, from) ==
    [instance |-> i, revision |-> row.revision - 1, action |-> action,
     request |-> k, from |-> from, to |-> row.state]

\* record(): the instance's history row.
Row(i, row, k, action, from) ==
    [instance |-> i, revision |-> row.revision, action |-> action,
     request |-> k, from |-> from, to |-> row.state]

Init ==
    /\ instances = [i \in Instances |-> None]
    /\ history = {}
    /\ receipts = [k \in Keys |-> None]
    /\ grants = {}
    /\ edges = {}
    /\ escalations = {}
    /\ admitted = {}
    /\ rules \in [Workflows -> UNION {Policies[w] : w \in Workflows}]
    /\ \A w \in Workflows : rules[w] \in Policies[w]
    /\ inherited = [w \in Workflows |-> {}]

\* openBlocker(): an instance that has not ended pauses new work of this workflow.
Paused(w) == \E i \in Held : w \in Of(i).pauses /\ ~Ended(i)

Start(k, w, dependsOn) ==
    LET row == [workflow |-> w, state |-> Definition[w].initial, revision |-> 0]
        command == [op |-> "start", workflow |-> w, dependsOn |-> dependsOn]
    IN  \E i \in Instances :
            /\ Unanswered(k)
            /\ ~Paused(w)
            /\ instances[i] = None
            /\ \A t \in dependsOn : instances[t] # None /\ Of(t).success # {}
            /\ instances' = [instances EXCEPT ![i] = row]
            /\ edges' = edges \cup EdgesTo(i, dependsOn, None)
            /\ receipts' = [receipts EXCEPT ![k] = Receipt(command, Snapshot(i, row))]
            /\ history' = history \cup {Row(i, row, k, "start", None)}
            /\ UNCHANGED <<grants, escalations, admitted>>

\* mutant: the guard waits for prerequisites to end, however they end
Mutant_MayTake(i, e, given) ==
    /\ \A l \in Rules(i).limits : Caps(l, e) => ~Exhausted(history, given, i, l)
    /\ e \in Rules(i).guarded => \A t \in Prerequisites(i) : Ended(t)

\* The limit that caps the edge has a round left; a guarded edge finds its prerequisites
\* settled.  The owner's own rule may refuse more.
MayTake(i, e, given) ==
    /\ \A l \in Rules(i).limits : Caps(l, e) => ~Exhausted(history, given, i, l)
    /\ e \in Rules(i).guarded => \A t \in Prerequisites(i) : Settled(t)

\* mutant: only a first arrival at the cap is announced
Mutant_Arrivals(i, e, revision, rows, given) ==
    IF e.from = e.to THEN {}
    ELSE {[instance |-> i, revision |-> revision, limit |-> l.name] :
             l \in {m \in Rules(i).limits :
                        m.from = e.to /\ Used(rows, i, m) = m.max /\ Granted(given, i, m) = 0}}

\* The exhausted limits an arrival finds; a step that stays where it is is no arrival.
Arrivals(i, e, revision, rows, given) ==
    IF e.from = e.to THEN {}
    ELSE {[instance |-> i, revision |-> revision, limit |-> l.name] :
             l \in {m \in Rules(i).limits : m.from = e.to /\ Exhausted(rows, given, i, m)}}

\* The move itself, with its history row, under the request k.
Take(i, e, k, given) ==
    LET row == [instances[i] EXCEPT !.state = e.to, !.revision = @ + 1]
    IN  /\ instances[i].revision < MaxRevision
        /\ e \in Of(i).edges
        /\ e.from = instances[i].state
        /\ MayTake(i, e, given)
        /\ instances' = [instances EXCEPT ![i] = row]
        /\ history' = history \cup {Row(i, row, k, e.action, e.from)}
        /\ escalations' = escalations \cup Arrivals(i, e, row.revision, history', given)
        /\ admitted' = admitted \cup
               {[instance |-> i, revision |-> row.revision, prerequisite |-> t] :
                    t \in IF e \in Rules(i).guarded THEN Prerequisites(i) ELSE {}}

Transition(k, i, action, expected) ==
    LET command == [op |-> "transition", instance |-> i, action |-> action,
                    expected |-> expected]
    IN  /\ instances[i] # None
        /\ Unanswered(k)
        /\ AtRevision(i, expected)
        /\ \E e \in Of(i).edges \ Rules(i).resumes :
              e.action = action /\ Take(i, e, k, grants)
        /\ receipts' = [receipts EXCEPT ![k] = Receipt(command, Snapshot(i, instances'[i]))]
        /\ UNCHANGED <<grants, edges>>

\* An ID in both sets is only added.  Nothing to add or drop answers without a new revision.
AddDependencies(k, i, expected, dependsOn, drop) ==
    LET command == [op |-> "add_dependencies", instance |-> i, expected |-> expected,
                    dependsOn |-> dependsOn, drop |-> drop]
        added == dependsOn \ Attached(i, None)
        dropped == drop \cap Attached(i, None)
        row == [instances[i] EXCEPT !.revision = @ + 1]
        action == IF dropped # {} THEN "replan_dependencies" ELSE "add_dependencies"
        changed == added # {} \/ dropped # {}
    IN  /\ instances[i] # None
        /\ Unanswered(k)
        /\ AtRevision(i, expected)
        /\ ~Ended(i)
        /\ dependsOn \cap drop = {}
        /\ MayAttach(i, dependsOn, None)
        /\ edges' = (edges \cup EdgesTo(i, added, None)) \ EdgesTo(i, dropped, None)
        /\ IF changed
           THEN /\ instances[i].revision < MaxRevision
                /\ instances' = [instances EXCEPT ![i] = row]
                /\ history' = history \cup {Row(i, row, k, action, row.state)}
           ELSE UNCHANGED <<instances, history>>
        /\ receipts' = [receipts EXCEPT ![k] = Receipt(command, Snapshot(i, instances'[i]))]
        /\ UNCHANGED <<grants, escalations, admitted>>

\* The edges the owner's limitExtended hook takes from here: work suspended at this state.
Suspended(i) == {e \in Rules(i).resumes : e.from = instances[i].state}

\* The hook resumes work suspended here in the same transaction, under a receipt of its own;
\* with the rounds still used up its rule refuses, and nothing is extended at all.
Resume(k, i, e, given, answered) ==
    LET command == [op |-> "transition", instance |-> i, action |-> e.action,
                    expected |-> instances[i].revision]
    IN  /\ Unanswered(Resuming(k))
        /\ \A l \in Rules(i).limits : ~Exhausted(history, given, i, l)
        /\ Take(i, e, Resuming(k), given)
        /\ receipts' = [answered EXCEPT ![Resuming(k)] =
                            Receipt(command, Snapshot(i, instances'[i]))]

\* An extension adds rounds without changing the revision; additional 0 only resumes.
ExtendLimit(k, i, l, additional) ==
    LET command == [op |-> "extend_limit", instance |-> i, limit |-> l.name,
                    additional |-> additional]
        given == grants \cup {[request |-> k, instance |-> i, limit |-> l.name, round |-> n] :
                                  n \in 1..additional}
        answer == [id |-> i, used |-> Used(history, i, l), granted |-> Granted(given, i, l)]
        answered == [receipts EXCEPT ![k] = Receipt(command, answer)]
    IN  /\ instances[i] # None
        /\ l \in Rules(i).limits
        /\ Unanswered(k)
        /\ ~Ended(i)
        /\ additional = 0 => ~Exhausted(history, grants, i, l) /\ Suspended(i) # {}
        /\ grants' = given
        /\ \/ /\ Suspended(i) = {}
              /\ receipts' = answered
              /\ UNCHANGED <<instances, history, escalations, admitted>>
           \/ \E e \in Suspended(i) : Resume(k, i, e, given, answered)
        /\ UNCHANGED edges

\* A provider says what its own prerequisites of an instance are now; no revision moves.
ReplacePrerequisites(p, i, wanted) ==
    LET have == Attached(i, p)
    IN  /\ instances[i] # None
        /\ MayAttach(i, wanted \ have, p)
        /\ edges' = (edges \cup EdgesTo(i, wanted \ have, p)) \ EdgesTo(i, have \ wanted, p)
        /\ UNCHANGED <<instances, history, receipts, grants, escalations, admitted>>

\* A retry of an answered request reads its receipt and changes nothing.
Replay(k) == receipts[k] # None /\ UNCHANGED vars

\* A program is deployed with another policy for this version: the pinned definition must be
\* the same, and its instances stand where they stand.
Deploy(w) ==
    /\ \E p \in Policies[w] \ {rules[w]} : rules' = [rules EXCEPT ![w] = p]
    /\ inherited' = [inherited EXCEPT ![w] = history]
    /\ UNCHANGED <<instances, history, receipts, grants, edges, escalations, admitted>>

Actions == {e.action : e \in UNION {Definition[w].edges : w \in Workflows}}

Command(k) ==
    \/ \E w \in Workflows, dependsOn \in SUBSET Held : Start(k, w, dependsOn)
    \/ \E i \in Held, expected \in 0..MaxRevision :
          \/ \E action \in Actions : Transition(k, i, action, expected)
          \/ \E dependsOn, drop \in SUBSET Held : AddDependencies(k, i, expected, dependsOn, drop)
    \/ \E i \in Held : \E l \in Rules(i).limits, n \in Additions : ExtendLimit(k, i, l, n)

Next ==
    \/ /\ \/ \E k \in Requests : Command(k) \/ Replay(k)
          \/ \E p \in Providers, i \in Held, wanted \in SUBSET Held :
                 ReplacePrerequisites(p, i, wanted)
       /\ UNCHANGED deployed
    \/ \E w \in Workflows : Deploy(w)

Spec == Init /\ [][Next]_vars

-----------------------------------------------------------------------------
(* Properties.                                                             *)

\* The engine's tables keep their shape.
TypeOK ==
    /\ instances \in [Instances -> {None} \cup InstanceRows]
    /\ history \subseteq [instance : Instances, revision : 0..MaxRevision, action : Names,
                          request : Keys, from : {None} \cup Names, to : Names]
    /\ receipts \in [Keys -> {None} \cup Receipts]
    /\ grants \subseteq [request : Requests, instance : Instances, limit : Names, round : Nat]
    /\ edges \subseteq [source : Instances, target : Instances, owner : Providers \cup {None}]
    /\ escalations \subseteq [instance : Instances, revision : 0..MaxRevision, limit : Names]
    /\ admitted \subseteq [instance : Instances, revision : 0..MaxRevision,
                           prerequisite : Instances]
    /\ DOMAIN rules = Workflows /\ DOMAIN inherited = Workflows
    /\ \A w \in Workflows : rules[w] \in Policies[w] /\ inherited[w] \subseteq history

Rows(i) == {h \in history : h.instance = i}

Moves(w, h) ==
    \/ h.from = h.to /\ h.action \in {"add_dependencies", "replan_dependencies"}
    \/ \E e \in Definition[w].edges : e.from = h.from /\ e.action = h.action /\ e.to = h.to

\* The history has one row for each revision, a chain of the definition's own moves that
\* ends at the state the instance is in: no command's effect is lost, doubled or misplaced.
HistoryExplains ==
    \A i \in Instances :
        IF instances[i] = None THEN Rows(i) = {}
        ELSE /\ \A r \in 0..instances[i].revision : \E h \in Rows(i) : h.revision = r
             /\ \A g, h \in Rows(i) : g.revision = h.revision => g = h
             /\ \A h \in Rows(i) :
                   /\ h.revision <= instances[i].revision
                   /\ h.revision = 0 => h.from = None /\ h.to = Of(i).initial
                   /\ h.revision > 0 => Moves(instances[i].workflow, h)
                   /\ h.revision = instances[i].revision => h.to = instances[i].state
             /\ \A g, h \in Rows(i) : h.revision = g.revision + 1 => h.from = g.to

\* However often a request is retried, whatever other commands run in between: it was
\* executed at most once, at the revision its caller named, and its receipt says what it did.
AppliedOnce ==
    \A k \in Keys :
        /\ \A g, h \in history : g.request = k /\ h.request = k => g = h
        /\ \A h \in history :
              h.request = k =>
                  /\ receipts[k] # None
                  /\ receipts[k].answer = [id |-> h.instance, state |-> h.to, revision |-> h.revision]
                  /\ receipts[k].command.op # "start" =>
                         h.revision = receipts[k].command.expected + 1
        /\ \A g \in grants :
              g.request = k =>
                  /\ receipts[k] # None
                  /\ receipts[k].command.op = "extend_limit"
                  /\ g.round <= receipts[k].command.additional

\* The rounds taken before the limits that hold now were deployed.
UsedBefore(i, l) == Used(inherited[instances[i].workflow], i, l)

\* No instance takes a round beyond its limits and the extensions granted to it, whichever
\* edges, retries and resumes the rounds are taken by: one that has more than the limits
\* deployed now allow had them all when they were deployed, and has taken none since.
LimitsHold ==
    \A i \in Held : \A l \in Rules(i).limits :
        \/ Used(history, i, l) <= l.max + Granted(grants, i, l)
        \/ Used(history, i, l) = UsedBefore(i, l)

\* The instance has not moved since it came to where it stands by one of these rows.
StoodSince(i, rows) == \A h \in Rows(i) \ rows : h.from = h.to

\* Work that stands where its rounds are used up said so when it arrived there: since that
\* event it has not moved away, so a human was told about exactly this stop.  Only work that
\* stood there already when the limit was deployed may have been told nothing.
EscalationHeard ==
    \A i \in Held : \A l \in Rules(i).limits :
        l.from = instances[i].state /\ Exhausted(history, grants, i, l) =>
            \/ \E a \in escalations :
                   /\ a.instance = i /\ a.limit = l.name
                   /\ StoodSince(i, {h \in history : h.revision <= a.revision})
            \/ StoodSince(i, inherited[instances[i].workflow])

\* Declared and provided prerequisites together form no cycle, so no set of instances waits
\* on itself, whichever command or provider added which edge.
Acyclic == \A i \in Instances : i \notin Reached(edges, Prerequisites(i))

\* Work went on only past prerequisites that had succeeded, and they still stand succeeded:
\* what was built upon is never reopened, re-planned away or ended otherwise.
PrerequisitesStand == \A a \in admitted : instances[a.prerequisite] # None /\ Settled(a.prerequisite)
=============================================================================

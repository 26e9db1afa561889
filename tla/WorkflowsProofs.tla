--------------------------- MODULE WorkflowsProofs ---------------------------
(***************************************************************************)
(* Proofs about Workflows, for any number of instances, requests,          *)
(* definitions and providers: the dependency graph never has a cycle, the  *)
(* rounds stay within their limits and every stop at one is announced, what*)
(* work was built upon stands, and a request is applied once.              *)
(***************************************************************************)
EXTENDS Workflows, FiniteSetTheorems, TLAPS

-----------------------------------------------------------------------------
(* Reachability.  No induction over paths is needed: what is reached is the *)
(* least closed set around what was given.                                  *)

Graphs == SUBSET [source : Instances, target : Instances, owner : Providers \cup {None}]

NoCycle(graph) == \A i \in Instances : i \notin Reached(graph, Successors(graph, i))

\* What is reached holds what was given and is closed.
LEMMA ReachedClosed ==
    ASSUME NEW graph \in Graphs, NEW given \in SUBSET Instances
    PROVE  /\ Reached(graph, given) \in SUBSET Instances
           /\ given \subseteq Reached(graph, given)
           /\ Closed(graph, Reached(graph, given))
BY DEF Reached, Closed, Graphs

\* It lies in every closed set that holds what was given.
LEMMA ReachedLeast ==
    ASSUME NEW graph, NEW given, NEW ids \in SUBSET Instances,
           given \subseteq ids, Closed(graph, ids)
    PROVE  Reached(graph, given) \subseteq ids
BY DEF Reached

\* Dropping edges makes no cycle.
LEMMA FewerEdges ==
    ASSUME NEW graph \in Graphs, NEW fewer \in SUBSET graph, NoCycle(graph)
    PROVE  NoCycle(fewer)
<1> SUFFICES ASSUME NEW i \in Instances
             PROVE  i \notin Reached(fewer, Successors(fewer, i))
    BY DEF NoCycle
<1> DEFINE S == Reached(graph, Successors(graph, i))
<1>1. Successors(graph, i) \in SUBSET Instances BY DEF Successors, Graphs
<1>2. S \in SUBSET Instances /\ Successors(graph, i) \subseteq S /\ Closed(graph, S)
    BY <1>1, ReachedClosed
<1>3. Successors(fewer, i) \subseteq S BY <1>2 DEF Successors
<1>4. Closed(fewer, S) BY <1>2 DEF Closed
<1>5. Reached(fewer, Successors(fewer, i)) \subseteq S BY <1>2, <1>3, <1>4, ReachedLeast
<1> QED BY <1>5 DEF NoCycle

\* Edges from one instance to targets that do not lead back to it make no cycle.
LEMMA MoreEdges ==
    ASSUME NEW graph \in Graphs, NoCycle(graph),
           NEW i \in Instances, NEW targets \in SUBSET Instances,
           i \notin Reached(graph, targets),
           NEW owner \in Providers \cup {None}
    PROVE  NoCycle(graph \cup EdgesTo(i, targets, owner))
<1> DEFINE more == graph \cup EdgesTo(i, targets, owner)
           R == Reached(graph, targets)
<1> SUFFICES ASSUME NEW n \in Instances
             PROVE  n \notin Reached(more, Successors(more, n))
    BY DEF NoCycle
<1> DEFINE S == Reached(graph, Successors(graph, n))
<1>1. R \in SUBSET Instances /\ targets \subseteq R /\ Closed(graph, R) BY ReachedClosed
<1>2. Successors(graph, n) \in SUBSET Instances BY DEF Successors, Graphs
<1>3. S \in SUBSET Instances /\ Successors(graph, n) \subseteq S /\ Closed(graph, S)
    BY <1>2, ReachedClosed
<1>4. n \notin S BY DEF NoCycle
<1>5. \A e \in more : e \in graph \/ (e.source = i /\ e.target \in targets) BY DEF EdgesTo
<1> HIDE DEF more, R, S
<1>6. i \notin R BY DEF R
<1>7. CASE n \in R
  <2>1. Closed(more, S \cap R) BY <1>1, <1>3, <1>5, <1>6 DEF Closed
  <2>2. n # i BY <1>6, <1>7
  <2>3. Successors(more, n) \subseteq Successors(graph, n) BY <1>5, <2>2 DEF Successors
  <2>4. Successors(graph, n) \subseteq R BY <1>1, <1>7 DEF Successors, Closed
  <2>5. Reached(more, Successors(more, n)) \subseteq S \cap R
      BY <1>1, <1>3, <2>1, <2>3, <2>4, ReachedLeast
  <2> QED BY <1>4, <2>5 DEF more
<1>8. CASE n \notin R
  <2>1. Closed(more, S \cup R) BY <1>1, <1>3, <1>5 DEF Closed
  <2>2. Successors(more, n) \subseteq S \cup R BY <1>1, <1>3, <1>5 DEF Successors
  <2>3. Reached(more, Successors(more, n)) \subseteq S \cup R
      BY <1>1, <1>3, <2>1, <2>2, ReachedLeast
  <2> QED BY <1>4, <1>8, <2>3 DEF more
<1> QED BY <1>7, <1>8

-----------------------------------------------------------------------------
(* What one command does to the rows it writes.                            *)

HistoryRows == [instance : Instances, revision : 0..MaxRevision, action : Names,
                request : Keys, from : {None} \cup Names, to : Names]
GrantRows == [request : Requests, instance : Instances, limit : Names, round : Nat]
EscalationRows == [instance : Instances, revision : 0..MaxRevision, limit : Names]
AdmittedRows == [instance : Instances, revision : 0..MaxRevision, prerequisite : Instances]

\* Counting rows needs finitely many of them.
Finite == IsFiniteSet(history) /\ IsFiniteSet(grants)

\* The tables keep their shape; so does what is deployed.
TablesTyped ==
    /\ instances \in [Instances -> {None} \cup InstanceRows]
    /\ history \subseteq HistoryRows
    /\ receipts \in [Keys -> {None} \cup Receipts]
    /\ grants \subseteq GrantRows
    /\ edges \subseteq [source : Instances, target : Instances, owner : Providers \cup {None}]
    /\ escalations \subseteq EscalationRows
    /\ admitted \subseteq AdmittedRows

DeployedTyped ==
    /\ DOMAIN rules = Workflows /\ DOMAIN inherited = Workflows
    /\ \A w \in Workflows : rules[w] \in Policies[w] /\ inherited[w] \subseteq history

LEMMA TypeOKParts == TypeOK <=> TablesTyped /\ DeployedTyped
BY DEF TypeOK, TablesTyped, DeployedTyped, HistoryRows, GrantRows, EscalationRows, AdmittedRows

\* An instance that is there runs a workflow whose definition is well formed, under a policy
\* that fits it.
LEMMA HeldRow ==
    ASSUME TypeOK, NEW i \in Held
    PROVE  /\ i \in Instances
           /\ instances[i] \in InstanceRows
           /\ WellFormed(Of(i))
           /\ Registrable(Of(i), Rules(i))
           /\ Rules(i).limits \subseteq Limits
<1>1. i \in Instances /\ instances[i] \in InstanceRows BY DEF Held, TypeOK
<1>2. instances[i].workflow \in Workflows BY <1>1 DEF InstanceRows
<1>3. Rules(i) \in Policies[instances[i].workflow] BY <1>2 DEF Rules, TypeOK
<1>4. WellFormed(Of(i)) /\ Registrable(Of(i), Rules(i))
    BY <1>2, <1>3, DefinitionAssumption DEF Of
<1> QED BY <1>1, <1>4 DEF Registrable

\* A row written over another one.
LEMMA Written ==
    ASSUME TypeOK, NEW i \in Instances, NEW row \in InstanceRows,
           instances' = [instances EXCEPT ![i] = row]
    PROVE  /\ instances' \in [Instances -> {None} \cup InstanceRows]
           /\ instances'[i] = row
           /\ \A j \in Instances : j # i => instances'[j] = instances[j]
           /\ Snapshot(i, instances'[i]) \in Snapshots
<1>1. instances \in [Instances -> {None} \cup InstanceRows] BY DEF TypeOK
<1>2. instances'[i] = row BY <1>1
<1>3. Snapshot(i, row) \in Snapshots BY DEF Snapshot, Snapshots, InstanceRows
<1> QED BY <1>1, <1>2, <1>3

\* The row a move writes, and everything recorded with it.
LEMMA TakeWrites ==
    ASSUME TypeOK, NEW i \in Held, NEW e, NEW k \in Keys, NEW given, Take(i, e, k, given)
    PROVE  /\ e \in Edges
           /\ e \in Of(i).edges
           /\ instances[i].state = e.from
           /\ instances'[i] = [instances[i] EXCEPT !.state = e.to, !.revision = @ + 1]
           /\ instances'[i] \in InstanceRows
           /\ instances' = [instances EXCEPT ![i] = instances'[i]]
           /\ Row(i, instances'[i], k, e.action, e.from) \in HistoryRows
           /\ history' = history \cup {Row(i, instances'[i], k, e.action, e.from)}
           /\ escalations' \subseteq EscalationRows
<1> DEFINE row == [instances[i] EXCEPT !.state = e.to, !.revision = @ + 1]
<1>1. i \in Instances /\ instances[i] \in InstanceRows /\ WellFormed(Of(i)) BY HeldRow
<1>2. /\ instances[i].revision < MaxRevision
      /\ e \in Of(i).edges /\ e.from = instances[i].state
      /\ instances' = [instances EXCEPT ![i] = row]
      /\ history' = history \cup {Row(i, row, k, e.action, e.from)}
      /\ escalations' = escalations \cup Arrivals(i, e, row.revision, history', given)
    BY DEF Take
<1>3. e \in Edges /\ Rules(i).limits \subseteq Limits BY <1>1, <1>2, HeldRow DEF WellFormed
<1>4. row \in InstanceRows
  <2>1. instances[i].revision + 1 \in 0..MaxRevision
      BY <1>1, <1>2, DefinitionAssumption DEF InstanceRows
  <2>2. e.to \in Names BY <1>3 DEF Edges
  <2> QED BY <1>1, <2>1, <2>2 DEF InstanceRows
<1>5. instances'[i] = row BY <1>1, <1>2 DEF TypeOK
<1>6. Row(i, row, k, e.action, e.from) \in HistoryRows
    BY <1>1, <1>3, <1>4 DEF Row, HistoryRows, InstanceRows, Edges
<1>7. row.revision \in 0..MaxRevision BY <1>4 DEF InstanceRows
<1>8. Arrivals(i, e, row.revision, history', given) \subseteq EscalationRows
    BY <1>1, <1>3, <1>7 DEF Arrivals, EscalationRows, Limits
<1>9. escalations \subseteq EscalationRows BY DEF TypeOK, EscalationRows
<1> QED BY <1>2, <1>3, <1>4, <1>5, <1>6, <1>8, <1>9

-----------------------------------------------------------------------------
(* Types.                                                                   *)

\* A move records only prerequisites that are there.
LEMMA TakeAdmits ==
    ASSUME TypeOK, NEW i \in Held, NEW e, NEW k \in Keys, NEW given, Take(i, e, k, given)
    PROVE  admitted' \subseteq AdmittedRows
<1> DEFINE row == [instances[i] EXCEPT !.state = e.to, !.revision = @ + 1]
<1>1. admitted' = admitted \cup
               {[instance |-> i, revision |-> row.revision, prerequisite |-> t] :
                    t \in IF e \in Rules(i).guarded THEN Prerequisites(i) ELSE {}}
    BY DEF Take
<1>2. admitted \subseteq AdmittedRows BY DEF TypeOK, AdmittedRows
<1>3. Prerequisites(i) \subseteq Instances BY DEF Prerequisites, Successors, TypeOK
<1>4. i \in Instances /\ instances[i] \in InstanceRows BY HeldRow
<1>5. row.revision \in 0..MaxRevision
    BY <1>4, TakeWrites DEF InstanceRows
<1> HIDE DEF row
<1> QED BY <1>1, <1>2, <1>3, <1>4, <1>5 DEF AdmittedRows

\* A request records one receipt.
LEMMA ReceiptWritten ==
    ASSUME NEW old \in [Keys -> {None} \cup Receipts], NEW k \in Keys,
           NEW command \in Commands, NEW answer \in Snapshots \cup Statuses
    PROVE  [old EXCEPT ![k] = Receipt(command, answer)] \in [Keys -> {None} \cup Receipts]
BY DEF Receipt, Receipts

LEMMA StartTyped ==
    ASSUME TypeOK, Finite, NEW k \in Requests, NEW w \in Workflows,
           NEW dependsOn \in SUBSET Held, Start(k, w, dependsOn)
    PROVE  TablesTyped' /\ Finite'
<1> DEFINE row == [workflow |-> w, state |-> Definition[w].initial, revision |-> 0]
           command == [op |-> "start", workflow |-> w, dependsOn |-> dependsOn]
<1>1. PICK i \in Instances :
          /\ instances' = [instances EXCEPT ![i] = row]
          /\ edges' = edges \cup EdgesTo(i, dependsOn, None)
          /\ receipts' = [receipts EXCEPT ![k] = Receipt(command, Snapshot(i, row))]
          /\ history' = history \cup {Row(i, row, k, "start", None)}
          /\ UNCHANGED <<grants, escalations, admitted>>
    BY DEF Start
<1>2. k \in Keys /\ dependsOn \subseteq Instances BY DEF Keys, Held
<1>3. WellFormed(Definition[w]) BY DefinitionAssumption
<1>4. row \in InstanceRows BY <1>3, DefinitionAssumption DEF InstanceRows, WellFormed
<1>6. command \in Commands BY <1>2 DEF Commands
<1> HIDE DEF row, command
<1>5. Row(i, row, k, "start", None) \in HistoryRows
  <2>1. "start" \in Names BY DefinitionAssumption DEF Reserved
  <2>2. \A action \in Names : Row(i, row, k, action, None) \in HistoryRows
      BY <1>2, <1>4 DEF Row, HistoryRows, InstanceRows
  <2> QED BY <2>1, <2>2
<1>7. Snapshot(i, row) \in Snapshots BY <1>4 DEF Snapshot, Snapshots, InstanceRows
<1>8. instances' \in [Instances -> {None} \cup InstanceRows] BY <1>1, <1>4 DEF TypeOK
<1>9. receipts' \in [Keys -> {None} \cup Receipts]
    BY <1>1, <1>2, <1>6, <1>7, ReceiptWritten DEF TypeOK
<1>10. history' \subseteq HistoryRows BY <1>1, <1>5 DEF TypeOK, HistoryRows
<1>11. EdgesTo(i, dependsOn, None) \in Graphs BY <1>2 DEF EdgesTo, Graphs
<1>12. edges' \in Graphs BY <1>1, <1>11 DEF TypeOK, Graphs
<1>13. Finite' BY <1>1, FS_AddElement DEF Finite
<1> QED BY <1>1, <1>8, <1>9, <1>10, <1>12, <1>13
        DEF TypeOK, TablesTyped, Graphs, GrantRows, EscalationRows, AdmittedRows

LEMMA TransitionTyped ==
    ASSUME TypeOK, Finite, NEW k \in Requests, NEW i \in Held, NEW action \in Names,
           NEW expected \in 0..MaxRevision, Transition(k, i, action, expected)
    PROVE  TablesTyped' /\ Finite'
<1> DEFINE command == [op |-> "transition", instance |-> i, action |-> action,
                       expected |-> expected]
<1>1. PICK e \in Of(i).edges : Take(i, e, k, grants) BY DEF Transition
<1>2. /\ receipts' = [receipts EXCEPT ![k] = Receipt(command, Snapshot(i, instances'[i]))]
      /\ UNCHANGED <<grants, edges>>
    BY DEF Transition
<1>3. k \in Keys /\ i \in Instances BY DEF Keys, Held
<1>4. command \in Commands BY <1>3, DefinitionAssumption DEF Commands
<1> HIDE DEF command
<1>5. PICK row \in InstanceRows : instances' = [instances EXCEPT ![i] = row]
    BY <1>1, <1>3, TakeWrites
<1>6. /\ instances' \in [Instances -> {None} \cup InstanceRows]
      /\ Snapshot(i, instances'[i]) \in Snapshots
    BY <1>3, <1>5, Written
<1>7. receipts' \in [Keys -> {None} \cup Receipts]
    BY <1>2, <1>3, <1>4, <1>6, ReceiptWritten DEF TypeOK
<1>8. PICK h \in HistoryRows : history' = history \cup {h} BY <1>1, <1>3, TakeWrites
<1>9. history' \subseteq HistoryRows BY <1>8 DEF TypeOK, HistoryRows
<1>10. escalations' \subseteq EscalationRows BY <1>1, <1>3, TakeWrites
<1>11. admitted' \subseteq AdmittedRows BY <1>1, <1>3, TakeAdmits
<1>12. Finite' BY <1>2, <1>8, FS_AddElement DEF Finite
<1> QED BY <1>2, <1>6, <1>7, <1>9, <1>10, <1>11, <1>12
        DEF TypeOK, TablesTyped, GrantRows

LEMMA AddDependenciesTyped ==
    ASSUME TypeOK, Finite, NEW k \in Requests, NEW i \in Held, NEW expected \in 0..MaxRevision,
           NEW dependsOn \in SUBSET Held, NEW drop \in SUBSET Held,
           AddDependencies(k, i, expected, dependsOn, drop)
    PROVE  TablesTyped' /\ Finite'
<1> DEFINE command == [op |-> "add_dependencies", instance |-> i, expected |-> expected,
                       dependsOn |-> dependsOn, drop |-> drop]
           added == dependsOn \ Attached(i, None)
           dropped == drop \cap Attached(i, None)
           action == IF dropped # {} THEN "replan_dependencies" ELSE "add_dependencies"
           row == [instances[i] EXCEPT !.revision = @ + 1]
<1>1. /\ edges' = (edges \cup EdgesTo(i, added, None)) \ EdgesTo(i, dropped, None)
      /\ \/ /\ instances[i].revision < MaxRevision
            /\ instances' = [instances EXCEPT ![i] = row]
            /\ history' = history \cup {Row(i, row, k, action, row.state)}
         \/ UNCHANGED <<instances, history>>
      /\ receipts' = [receipts EXCEPT ![k] = Receipt(command, Snapshot(i, instances'[i]))]
      /\ UNCHANGED <<grants, escalations, admitted>>
    BY DEF AddDependencies
<1>2. k \in Keys /\ i \in Instances /\ instances[i] \in InstanceRows
    BY HeldRow DEF Keys
<1>3. dependsOn \subseteq Instances /\ drop \subseteq Instances BY DEF Held
<1>4. command \in Commands BY <1>2, <1>3, DefinitionAssumption DEF Commands
<1>5. action \in Names
  <2>1. "replan_dependencies" \in Names /\ "add_dependencies" \in Names
      BY DefinitionAssumption DEF Reserved
  <2> QED BY <2>1, Zenon
<1>6. EdgesTo(i, added, None) \in Graphs BY <1>2, <1>3 DEF EdgesTo, Graphs
<1>7. edges' \in Graphs BY <1>1, <1>6 DEF TypeOK, Graphs
<1>8. instances[i].revision < MaxRevision => row \in InstanceRows
  <2> SUFFICES ASSUME instances[i].revision < MaxRevision PROVE row \in InstanceRows OBVIOUS
  <2>1. instances[i].revision + 1 \in 0..MaxRevision
      BY <1>2, DefinitionAssumption DEF InstanceRows
  <2> QED BY <1>2, <2>1 DEF InstanceRows
<1> HIDE DEF row, command, action, added, dropped
<1>9. row \in InstanceRows => Row(i, row, k, action, row.state) \in HistoryRows
    BY <1>2, <1>5 DEF Row, HistoryRows, InstanceRows
<1>10. instances' \in [Instances -> {None} \cup InstanceRows] BY <1>1, <1>2, <1>8 DEF TypeOK
<1>11. instances'[i] \in InstanceRows BY <1>1, <1>2, <1>8 DEF TypeOK
<1>12. Snapshot(i, instances'[i]) \in Snapshots
    BY <1>2, <1>11 DEF Snapshot, Snapshots, InstanceRows
<1>13. receipts' \in [Keys -> {None} \cup Receipts]
    BY <1>1, <1>2, <1>4, <1>12, ReceiptWritten DEF TypeOK
<1>14. history' \subseteq HistoryRows BY <1>1, <1>8, <1>9 DEF TypeOK, HistoryRows
<1>15. Finite' BY <1>1, FS_AddElement DEF Finite
<1> QED BY <1>1, <1>7, <1>10, <1>13, <1>14, <1>15
        DEF TypeOK, TablesTyped, Graphs, GrantRows, EscalationRows, AdmittedRows

\* The grants of one extension, one record for each round.
GrantedBy(k, i, l, additional) ==
    {[request |-> k, instance |-> i, limit |-> l.name, round |-> n] : n \in 1..additional}

LEMMA GrantTyped ==
    ASSUME NEW k \in Requests, NEW i \in Instances, NEW l \in Limits, NEW additional \in Nat
    PROVE  /\ GrantedBy(k, i, l, additional) \subseteq GrantRows
           /\ IsFiniteSet(GrantedBy(k, i, l, additional))
<1>1. GrantedBy(k, i, l, additional) \subseteq GrantRows BY DEF GrantedBy, GrantRows, Limits
<1>2. IsFiniteSet(1..additional) BY FS_Interval
<1> DEFINE f == [n \in 1..additional |->
                   [request |-> k, instance |-> i, limit |-> l.name, round |-> n]]
<1>3. f \in Surjection(1..additional, GrantedBy(k, i, l, additional))
    BY DEF GrantedBy, Surjection
<1>4. IsFiniteSet(GrantedBy(k, i, l, additional)) BY <1>2, <1>3, FS_Surjection
<1> QED BY <1>1, <1>4

LEMMA CountsTyped ==
    ASSUME NEW i, NEW l, NEW rows, NEW given, IsFiniteSet(rows), IsFiniteSet(given)
    PROVE  Used(rows, i, l) \in Nat /\ Granted(given, i, l) \in Nat
<1>1. IsFiniteSet({h \in rows : h.instance = i /\ h.from = l.from /\ h.action \in l.actions})
    BY FS_Subset
<1>2. IsFiniteSet({g \in given : g.instance = i /\ g.limit = l.name}) BY FS_Subset
<1> QED BY <1>1, <1>2, FS_CardinalityType DEF Used, Granted

LEMMA ExtendLimitTyped ==
    ASSUME TypeOK, Finite, NEW k \in Requests, NEW i \in Held, NEW l \in Rules(i).limits,
           NEW additional \in Nat, ExtendLimit(k, i, l, additional)
    PROVE  TablesTyped' /\ Finite'
<1> DEFINE command == [op |-> "extend_limit", instance |-> i, limit |-> l.name,
                       additional |-> additional]
           given == grants \cup GrantedBy(k, i, l, additional)
           answer == [id |-> i, used |-> Used(history, i, l), granted |-> Granted(given, i, l)]
           answered == [receipts EXCEPT ![k] = Receipt(command, answer)]
<1>1. /\ grants' = given
      /\ \/ receipts' = answered /\ UNCHANGED <<instances, history, escalations, admitted>>
         \/ \E e \in Suspended(i) : Resume(k, i, e, given, answered)
      /\ UNCHANGED edges
    BY DEF ExtendLimit, GrantedBy
<1>2. k \in Keys /\ Resuming(k) \in Keys /\ i \in Instances BY DEF Keys, Held
<1>3. l \in Limits BY HeldRow
<1>4. GrantedBy(k, i, l, additional) \subseteq GrantRows
      /\ IsFiniteSet(GrantedBy(k, i, l, additional))
    BY <1>2, <1>3, GrantTyped
<1>5. given \subseteq GrantRows /\ IsFiniteSet(given)
    BY <1>4, FS_Union DEF TypeOK, GrantRows, Finite
<1>6. command \in Commands BY <1>2, <1>3 DEF Commands, Limits
<1> HIDE DEF command, given
<1>7. answer \in Statuses BY <1>2, <1>5, CountsTyped DEF Statuses, Finite
<1> HIDE DEF answer
<1>8. answered \in [Keys -> {None} \cup Receipts]
    BY <1>2, <1>6, <1>7, ReceiptWritten DEF TypeOK
<1> HIDE DEF answered
<1>9. CASE receipts' = answered /\ UNCHANGED <<instances, history, escalations, admitted>>
    BY <1>1, <1>5, <1>8, <1>9
       DEF TypeOK, TablesTyped, Finite, HistoryRows, EscalationRows, AdmittedRows
<1>10. CASE \E e \in Suspended(i) : Resume(k, i, e, given, answered)
  <2>1. PICK e \in Suspended(i) : Resume(k, i, e, given, answered) BY <1>10
  <2> DEFINE resuming == [op |-> "transition", instance |-> i, action |-> e.action,
                          expected |-> instances[i].revision]
  <2>2. /\ Take(i, e, Resuming(k), given)
        /\ receipts' = [answered EXCEPT ![Resuming(k)] =
                             Receipt(resuming, Snapshot(i, instances'[i]))]
      BY <2>1 DEF Resume
  <2>3. e \in Edges BY <1>2, <2>2, TakeWrites
  <2>4. resuming \in Commands
      BY <1>2, <2>3, HeldRow, DefinitionAssumption DEF Commands, Edges, InstanceRows
  <2> HIDE DEF resuming
  <2>5. PICK row \in InstanceRows : instances' = [instances EXCEPT ![i] = row]
      BY <1>2, <2>2, TakeWrites
  <2>6. /\ instances' \in [Instances -> {None} \cup InstanceRows]
        /\ Snapshot(i, instances'[i]) \in Snapshots
      BY <1>2, <2>5, Written
  <2>7. receipts' \in [Keys -> {None} \cup Receipts]
      BY <1>2, <1>8, <2>2, <2>4, <2>6, ReceiptWritten
  <2>8. PICK h \in HistoryRows : history' = history \cup {h} BY <1>2, <2>2, TakeWrites
  <2>9. history' \subseteq HistoryRows BY <2>8 DEF TypeOK, HistoryRows
  <2>10. escalations' \subseteq EscalationRows BY <1>2, <2>2, TakeWrites
  <2>11. admitted' \subseteq AdmittedRows BY <1>2, <2>2, TakeAdmits
  <2>12. Finite' BY <1>1, <1>5, <2>8, FS_AddElement DEF Finite
  <2> QED BY <1>1, <1>5, <2>6, <2>7, <2>9, <2>10, <2>11, <2>12
          DEF TypeOK, TablesTyped
<1> QED BY <1>1, <1>9, <1>10

LEMMA ReplacePrerequisitesTyped ==
    ASSUME TypeOK, Finite, NEW p \in Providers, NEW i \in Held, NEW wanted \in SUBSET Held,
           ReplacePrerequisites(p, i, wanted)
    PROVE  TablesTyped' /\ Finite'
<1> DEFINE added == wanted \ Attached(i, p)
           dropped == Attached(i, p) \ wanted
<1>1. /\ edges' = (edges \cup EdgesTo(i, added, p)) \ EdgesTo(i, dropped, p)
      /\ UNCHANGED <<instances, history, receipts, grants, escalations, admitted>>
    BY DEF ReplacePrerequisites
<1>2. i \in Instances /\ added \subseteq Instances BY DEF Held
<1>3. EdgesTo(i, added, p) \in Graphs BY <1>2 DEF EdgesTo, Graphs
<1> HIDE DEF added, dropped
<1>4. edges' \in Graphs BY <1>1, <1>3 DEF TypeOK, Graphs
<1> QED BY <1>1, <1>4
        DEF TypeOK, TablesTyped, Graphs, Finite, HistoryRows, GrantRows, EscalationRows, AdmittedRows

LEMMA ActionsAreNames == Actions \subseteq Names
BY DefinitionAssumption DEF Actions, WellFormed, Edges

LEMMA InitTyped == Init => TypeOK /\ Finite
<1> SUFFICES ASSUME Init PROVE TypeOK /\ Finite OBVIOUS
<1>1. Finite BY FS_EmptySet DEF Init, Finite
<1> QED BY <1>1 DEF Init, TypeOK

\* A step changes what is deployed only by deploying, and then it changes no table.
LEMMA StepDeploys == [Next]_vars => UNCHANGED deployed \/ \E w \in Workflows : Deploy(w)
BY DEF Next, vars

\* No step removes a row of the history.
LEMMA HistoryStays == [Next]_vars => history \subseteq history'
<1> SUFFICES ASSUME [Next]_vars PROVE history \subseteq history' OBVIOUS
<1>1. ASSUME NEW i, NEW e, NEW k, NEW given, Take(i, e, k, given)
      PROVE  history \subseteq history'
    BY <1>1 DEF Take
<1>2. ASSUME NEW k \in Requests, Command(k) PROVE history \subseteq history'
  <2>1. ASSUME NEW w, NEW ids, Start(k, w, ids) PROVE history \subseteq history'
      BY <2>1 DEF Start
  <2>2. ASSUME NEW i, NEW action, NEW expected, Transition(k, i, action, expected)
        PROVE  history \subseteq history'
      BY <1>1, <2>2 DEF Transition
  <2>3. ASSUME NEW i, NEW expected, NEW dependsOn, NEW drop,
               AddDependencies(k, i, expected, dependsOn, drop)
        PROVE  history \subseteq history'
      BY <2>3 DEF AddDependencies
  <2>4. ASSUME NEW i, NEW l, NEW n, ExtendLimit(k, i, l, n)
        PROVE  history \subseteq history'
      BY <1>1, <2>4 DEF ExtendLimit, Resume
  <2> QED BY <1>2, <2>1, <2>2, <2>3, <2>4 DEF Command
<1> QED BY <1>2 DEF Next, vars, Replay, ReplacePrerequisites, Deploy

LEMMA StepDeployedTyped == TypeOK /\ [Next]_vars => DeployedTyped'
<1> SUFFICES ASSUME TypeOK, [Next]_vars PROVE DeployedTyped' OBVIOUS
<1>1. history \subseteq history' BY HistoryStays
<1>2. DeployedTyped BY TypeOKParts
<1>3. CASE UNCHANGED deployed BY <1>1, <1>2, <1>3 DEF deployed, DeployedTyped
<1>4. ASSUME NEW w \in Workflows, Deploy(w) PROVE DeployedTyped'
  <2>1. PICK p \in Policies[w] : rules' = [rules EXCEPT ![w] = p] BY <1>4 DEF Deploy
  <2>2. inherited' = [inherited EXCEPT ![w] = history] BY <1>4 DEF Deploy
  <2> QED BY <1>1, <1>2, <2>1, <2>2 DEF DeployedTyped
<1> QED BY <1>3, <1>4, StepDeploys

LEMMA StepTablesTyped == TypeOK /\ Finite /\ [Next]_vars => TablesTyped' /\ Finite'
<1> SUFFICES ASSUME TypeOK, Finite, [Next]_vars PROVE TablesTyped' /\ Finite' OBVIOUS
<1>1. ASSUME UNCHANGED <<instances, history, receipts, grants, edges, escalations, admitted>>
      PROVE  TablesTyped' /\ Finite'
  <2>1. TablesTyped BY TypeOKParts
  <2> QED BY <1>1, <2>1 DEF TablesTyped, Finite
<1>2. ASSUME NEW k \in Requests, Command(k) PROVE TablesTyped' /\ Finite'
  <2>1. CASE \E w \in Workflows, dependsOn \in SUBSET Held : Start(k, w, dependsOn)
      BY <2>1, StartTyped
  <2>2. CASE \E i \in Held, expected \in 0..MaxRevision, action \in Actions :
                 Transition(k, i, action, expected)
      BY <2>2, ActionsAreNames, TransitionTyped
  <2>3. CASE \E i \in Held, expected \in 0..MaxRevision : \E dependsOn, drop \in SUBSET Held :
                 AddDependencies(k, i, expected, dependsOn, drop)
      BY <2>3, AddDependenciesTyped
  <2>4. CASE \E i \in Held : \E l \in Rules(i).limits, n \in Additions : ExtendLimit(k, i, l, n)
      BY <2>4, DefinitionAssumption, ExtendLimitTyped
  <2> QED BY <1>2, <2>1, <2>2, <2>3, <2>4 DEF Command
<1>3. ASSUME NEW k \in Requests, Replay(k) PROVE TablesTyped' /\ Finite'
    BY <1>1, <1>3 DEF Replay, vars
<1>4. ASSUME NEW p \in Providers, NEW i \in Held, NEW wanted \in SUBSET Held,
             ReplacePrerequisites(p, i, wanted)
      PROVE  TablesTyped' /\ Finite'
    BY <1>4, ReplacePrerequisitesTyped
<1>5. ASSUME NEW w \in Workflows, Deploy(w) PROVE TablesTyped' /\ Finite'
    BY <1>1, <1>5 DEF Deploy
<1> QED BY <1>1, <1>2, <1>3, <1>4, <1>5 DEF Next, vars

LEMMA StepTyped == TypeOK /\ Finite /\ [Next]_vars => TypeOK' /\ Finite'
<1> SUFFICES ASSUME TypeOK, Finite, [Next]_vars PROVE TypeOK' /\ Finite' OBVIOUS
<1>1. TablesTyped' /\ Finite' BY StepTablesTyped
<1>2. DeployedTyped' BY StepDeployedTyped
<1>3. TypeOK' <=> TablesTyped' /\ DeployedTyped'
    BY DEF TypeOK, TablesTyped, DeployedTyped, HistoryRows, GrantRows, EscalationRows, AdmittedRows
<1> QED BY <1>1, <1>2, <1>3

LEMMA AlwaysTyped == Spec => [](TypeOK /\ Finite)
BY InitTyped, StepTyped, PTL DEF Spec

\* The engine's tables keep their shape, whatever commands are sent.
THEOREM TypeCorrect == Spec => []TypeOK
BY AlwaysTyped, PTL

-----------------------------------------------------------------------------
(* The dependency graph.  A new instance can have no cycle through it only  *)
(* because nothing pointed at it before it was there: EdgesHeld.            *)

EdgesHeld == \A e \in edges : instances[e.source] # None /\ instances[e.target] # None

GraphInv == EdgesHeld /\ NoCycle(edges)

\* An instance that is there stays there, as the same workflow.
LEMMA StaysHeld ==
    ASSUME TypeOK, TypeOK', NEW i \in Instances, NEW row \in InstanceRows,
           instances' = [instances EXCEPT ![i] = row],
           NEW j \in Instances, instances[j] # None
    PROVE  instances'[j] # None
<1>1. row # None BY NoneAssumption
<1> QED BY <1>1 DEF TypeOK

LEMMA StartGraph ==
    ASSUME TypeOK, TypeOK', GraphInv, NEW k \in Requests, NEW w \in Workflows,
           NEW dependsOn \in SUBSET Held, Start(k, w, dependsOn)
    PROVE  GraphInv'
<1> DEFINE row == [workflow |-> w, state |-> Definition[w].initial, revision |-> 0]
<1>1. PICK i \in Instances :
          /\ instances[i] = None
          /\ instances' = [instances EXCEPT ![i] = row]
          /\ edges' = edges \cup EdgesTo(i, dependsOn, None)
    BY DEF Start
<1>2. row \in InstanceRows
    BY DefinitionAssumption DEF InstanceRows, WellFormed
<1> HIDE DEF row
<1>3. dependsOn \in SUBSET Instances /\ edges \in Graphs BY DEF Held, TypeOK, Graphs
<1>4. Closed(edges, Held) BY <1>3 DEF GraphInv, EdgesHeld, Closed, Held, Graphs
<1>5. Reached(edges, dependsOn) \subseteq Held BY <1>4, ReachedLeast DEF Held
<1>6. i \notin Reached(edges, dependsOn) BY <1>1, <1>5 DEF Held
<1>7. NoCycle(edges') BY <1>1, <1>3, <1>6, MoreEdges DEF GraphInv
<1>8. instances'[i] # None BY <1>1, <1>2, NoneAssumption DEF TypeOK
<1>9. \A j \in Held : instances'[j] # None BY <1>1, <1>2, StaysHeld DEF Held
<1>10. EdgesHeld'
  <2> SUFFICES ASSUME NEW e \in edges'
               PROVE  instances'[e.source] # None /\ instances'[e.target] # None
      BY DEF EdgesHeld
  <2>1. CASE e \in edges BY <1>3, <1>9, <2>1 DEF GraphInv, EdgesHeld, Held, Graphs
  <2>2. CASE e \in EdgesTo(i, dependsOn, None) BY <1>8, <1>9, <2>2 DEF EdgesTo
  <2> QED BY <1>1, <2>1, <2>2
<1> QED BY <1>7, <1>10 DEF GraphInv

\* A step that writes one instance's row and leaves the graph.
LEMMA SameGraph ==
    ASSUME TypeOK, TypeOK', GraphInv, edges' = edges,
           \/ instances' = instances
           \/ \E i \in Instances, row \in InstanceRows : instances' = [instances EXCEPT ![i] = row]
    PROVE  GraphInv'
<1>1. \A j \in Instances : instances[j] # None => instances'[j] # None BY StaysHeld
<1>2. edges \in Graphs BY DEF TypeOK, Graphs
<1> QED BY <1>1, <1>2 DEF GraphInv, EdgesHeld, Graphs

\* A step that adds what MayAttach admits, and drops what it likes.
LEMMA AttachGraph ==
    ASSUME TypeOK, TypeOK', GraphInv, NEW i \in Held, NEW ids \in SUBSET Held,
           NEW owner \in Providers \cup {None}, MayAttach(i, ids, owner), NEW dropped,
           edges' = (edges \cup EdgesTo(i, ids \ Attached(i, owner), owner)) \ dropped,
           \A j \in Instances : instances[j] # None => instances'[j] # None
    PROVE  GraphInv'
<1> DEFINE added == ids \ Attached(i, owner)
           more == edges \cup EdgesTo(i, added, owner)
<1>1. added \in SUBSET Instances /\ edges \in Graphs /\ i \in Instances
    BY DEF Held, TypeOK, Graphs
<1>2. i \notin Reached(edges, added) BY DEF MayAttach
<1>3. NoCycle(more) BY <1>1, <1>2, MoreEdges DEF GraphInv
<1>4. more \in Graphs BY <1>1 DEF EdgesTo, Graphs
<1>5. edges' \in SUBSET more OBVIOUS
<1>6. NoCycle(edges') BY <1>3, <1>4, <1>5, FewerEdges
<1>7. \A e \in more : e.source \in Held /\ e.target \in Held
  <2> TAKE e \in more
  <2>1. CASE e \in edges BY <1>1, <2>1 DEF GraphInv, EdgesHeld, Held, Graphs
  <2>2. CASE e \in EdgesTo(i, added, owner) BY <2>2 DEF EdgesTo
  <2> QED BY <2>1, <2>2
<1> HIDE DEF more
<1>8. EdgesHeld' BY <1>5, <1>7 DEF EdgesHeld, Held
<1> QED BY <1>6, <1>8 DEF GraphInv

\* Every action but Start leaves the rows of instances as they are, or writes one over.
WritesRow == \/ instances' = instances
             \/ \E i \in Instances, row \in InstanceRows : instances' = [instances EXCEPT ![i] = row]

LEMMA TransitionWrites ==
    ASSUME TypeOK, NEW k \in Requests, NEW i \in Held, NEW action, NEW expected,
           Transition(k, i, action, expected)
    PROVE  WritesRow
<1>1. PICK e \in Of(i).edges : Take(i, e, k, grants) BY DEF Transition
<1>2. k \in Keys /\ i \in Instances BY DEF Keys, Held
<1> QED BY <1>1, <1>2, TakeWrites DEF WritesRow

LEMMA AddDependenciesWrites ==
    ASSUME TypeOK, NEW k, NEW i \in Held, NEW expected, NEW dependsOn, NEW drop,
           AddDependencies(k, i, expected, dependsOn, drop)
    PROVE  WritesRow
<1> DEFINE row == [instances[i] EXCEPT !.revision = @ + 1]
<1>1. \/ instances[i].revision < MaxRevision /\ instances' = [instances EXCEPT ![i] = row]
      \/ UNCHANGED instances
    BY DEF AddDependencies
<1>2. i \in Instances /\ instances[i] \in InstanceRows BY HeldRow
<1>3. ASSUME instances[i].revision < MaxRevision PROVE row \in InstanceRows
  <2>1. instances[i].revision + 1 \in 0..MaxRevision
      BY <1>2, <1>3, DefinitionAssumption DEF InstanceRows
  <2> QED BY <1>2, <2>1 DEF InstanceRows
<1> HIDE DEF row
<1> QED BY <1>1, <1>2, <1>3 DEF WritesRow

LEMMA ExtendLimitWrites ==
    ASSUME TypeOK, NEW k \in Requests, NEW i \in Held, NEW l, NEW additional,
           ExtendLimit(k, i, l, additional)
    PROVE  WritesRow
<1>1. \/ UNCHANGED instances
      \/ \E e, given : Take(i, e, Resuming(k), given)
    BY DEF ExtendLimit, Resume
<1>2. Resuming(k) \in Keys /\ i \in Instances BY DEF Keys, Held
<1> QED BY <1>1, <1>2, TakeWrites DEF WritesRow

LEMMA StepGraph == TypeOK /\ TypeOK' /\ GraphInv /\ [Next]_vars => GraphInv'
<1> SUFFICES ASSUME TypeOK, TypeOK', GraphInv, [Next]_vars PROVE GraphInv' OBVIOUS
<1>1. ASSUME UNCHANGED <<instances, edges>> PROVE GraphInv' BY <1>1, SameGraph
<1>2. ASSUME NEW k \in Requests, Command(k) PROVE GraphInv'
  <2>1. CASE \E w \in Workflows, dependsOn \in SUBSET Held : Start(k, w, dependsOn)
      BY <2>1, StartGraph
  <2>2. CASE \E i \in Held, expected \in 0..MaxRevision, action \in Actions :
                 Transition(k, i, action, expected)
    <3>1. PICK i \in Held, expected \in 0..MaxRevision, action \in Actions :
              Transition(k, i, action, expected)
        BY <2>2
    <3>2. edges' = edges BY <3>1 DEF Transition
    <3>3. WritesRow BY <3>1, TransitionWrites
    <3> QED BY <3>2, <3>3, SameGraph DEF WritesRow
  <2>3. CASE \E i \in Held, expected \in 0..MaxRevision : \E dependsOn, drop \in SUBSET Held :
                 AddDependencies(k, i, expected, dependsOn, drop)
    <3>1. PICK i \in Held, expected \in 0..MaxRevision, dependsOn \in SUBSET Held,
               drop \in SUBSET Held : AddDependencies(k, i, expected, dependsOn, drop)
        BY <2>3
    <3>2. PICK dropped : /\ MayAttach(i, dependsOn, None)
                         /\ edges' = (edges \cup EdgesTo(i, dependsOn \ Attached(i, None), None))
                                        \ dropped
        BY <3>1 DEF AddDependencies
    <3>3. WritesRow BY <3>1, AddDependenciesWrites
    <3>4. \A j \in Instances : instances[j] # None => instances'[j] # None
        BY <3>3, StaysHeld DEF WritesRow
    <3> QED BY <3>2, <3>4, AttachGraph
  <2>4. CASE \E i \in Held : \E l \in Rules(i).limits, n \in Additions : ExtendLimit(k, i, l, n)
    <3>0. PICK i \in Held : \E l, n : ExtendLimit(k, i, l, n) BY <2>4
    <3>1. PICK l, n : ExtendLimit(k, i, l, n) BY <3>0
    <3>2. edges' = edges BY <3>1 DEF ExtendLimit
    <3>3. WritesRow BY <3>1, ExtendLimitWrites
    <3> QED BY <3>2, <3>3, SameGraph DEF WritesRow
  <2> QED BY <1>2, <2>1, <2>2, <2>3, <2>4 DEF Command
<1>3. ASSUME NEW k \in Requests, Replay(k) PROVE GraphInv' BY <1>1, <1>3 DEF Replay, vars
<1>4. ASSUME NEW p \in Providers, NEW i \in Held, NEW wanted \in SUBSET Held,
             ReplacePrerequisites(p, i, wanted)
      PROVE  GraphInv'
  <2> DEFINE ids == wanted \ Attached(i, p)
  <2>1. PICK dropped : /\ MayAttach(i, ids, p)
                       /\ edges' = (edges \cup EdgesTo(i, ids, p)) \ dropped
                       /\ instances' = instances
      BY <1>4 DEF ReplacePrerequisites
  <2>2. ids \ Attached(i, p) = ids OBVIOUS
  <2>3. ids \in SUBSET Held OBVIOUS
  <2> HIDE DEF ids
  <2> QED BY <2>1, <2>2, <2>3, AttachGraph
<1>5. ASSUME NEW w \in Workflows, Deploy(w) PROVE GraphInv' BY <1>1, <1>5 DEF Deploy
<1> QED BY <1>1, <1>2, <1>3, <1>4, <1>5 DEF Next, vars

LEMMA InitGraph == Init => GraphInv
<1> SUFFICES ASSUME Init PROVE GraphInv OBVIOUS
<1>1. edges = {} BY DEF Init
<1>2. \A i \in Instances : Reached(edges, Successors(edges, i)) \subseteq {}
  <2> TAKE i \in Instances
  <2>1. Successors(edges, i) \subseteq {} BY <1>1 DEF Successors
  <2>2. Closed(edges, {}) BY <1>1 DEF Closed
  <2> QED BY <2>1, <2>2, ReachedLeast
<1> QED BY <1>1, <1>2 DEF GraphInv, EdgesHeld, NoCycle

\* No set of instances ever waits on itself, however many callers and providers add edges.
THEOREM NoDeadlock == Spec => []Acyclic
<1>1. GraphInv => Acyclic BY DEF GraphInv, NoCycle, Acyclic, Prerequisites
<1> QED BY <1>1, AlwaysTyped, InitGraph, StepGraph, PTL DEF Spec

-----------------------------------------------------------------------------
(* The history.  Every command that writes a row of an instance writes the  *)
(* history row of its next revision; nothing else writes either.            *)

\* The rows of an instance that has not been there, and of one that runs w at a state.
NoRows(rows, i) == \A h \in rows : h.instance # i

Chain(rows, i, now) ==
    /\ \A r \in 0..now.revision : \E h \in rows : h.instance = i /\ h.revision = r
    /\ \A g, h \in rows : g.instance = i /\ h.instance = i /\ g.revision = h.revision => g = h
    /\ \A h \in rows : h.instance = i =>
          /\ h.revision <= now.revision
          /\ h.revision = 0 => h.from = None /\ h.to = Definition[now.workflow].initial
          /\ h.revision > 0 => Moves(now.workflow, h)
          /\ h.revision = now.revision => h.to = now.state
    /\ \A g, h \in rows : g.instance = i /\ h.instance = i /\ h.revision = g.revision + 1 =>
          h.from = g.to

ChainInv == \A i \in Instances :
    /\ instances[i] = None => NoRows(history, i)
    /\ instances[i] # None => Chain(history, i, instances[i])

LEMMA ChainExplains == ASSUME TypeOK, ChainInv PROVE HistoryExplains
<1> SUFFICES ASSUME NEW i \in Instances
             PROVE  IF instances[i] = None THEN Rows(i) = {}
                    ELSE /\ \A r \in 0..instances[i].revision : \E h \in Rows(i) : h.revision = r
                         /\ \A g, h \in Rows(i) : g.revision = h.revision => g = h
                         /\ \A h \in Rows(i) :
                               /\ h.revision <= instances[i].revision
                               /\ h.revision = 0 => h.from = None /\ h.to = Of(i).initial
                               /\ h.revision > 0 => Moves(instances[i].workflow, h)
                               /\ h.revision = instances[i].revision => h.to = instances[i].state
                         /\ \A g, h \in Rows(i) : h.revision = g.revision + 1 => h.from = g.to
    BY DEF HistoryExplains
<1>1. CASE instances[i] = None
  <2>1. Rows(i) = {} BY <1>1 DEF ChainInv, NoRows, Rows
  <2> QED BY <1>1, <2>1
<1>2. CASE instances[i] # None
  <2>1. Chain(history, i, instances[i]) BY <1>2 DEF ChainInv
  <2> QED BY <1>2, <2>1 DEF Chain, Rows, Of
<1> QED BY <1>1, <1>2

\* One more row of another instance changes nothing.
LEMMA ChainOfAnother ==
    ASSUME NEW rows, NEW i, NEW h, h.instance # i, NEW now
    PROVE  /\ NoRows(rows, i) => NoRows(rows \cup {h}, i)
           /\ Chain(rows, i, now) => Chain(rows \cup {h}, i, now)
BY DEF NoRows, Chain

\* The row of the first revision.
LEMMA ChainStarts ==
    ASSUME NEW rows, NEW i, NoRows(rows, i), NEW row \in InstanceRows, row.revision = 0,
           row.state = Definition[row.workflow].initial,
           NEW h \in HistoryRows, h.instance = i, h.revision = 0, h.from = None, h.to = row.state
    PROVE  Chain(rows \cup {h}, i, row)
<1>1. \A g \in rows \cup {h} : g.instance = i => g = h BY DEF NoRows
<1>2. row.revision = 0 /\ 0..row.revision = {0} OBVIOUS
<1> QED BY <1>1, <1>2 DEF Chain

\* The row of the next revision.
LEMMA ChainGrows ==
    ASSUME NEW rows \in SUBSET HistoryRows, NEW i, NEW was \in InstanceRows, NEW row \in InstanceRows,
           Chain(rows, i, was), row.workflow = was.workflow, row.revision = was.revision + 1,
           NEW h \in HistoryRows, h.instance = i, h.revision = row.revision, h.from = was.state,
           h.to = row.state, Moves(row.workflow, h)
    PROVE  Chain(rows \cup {h}, i, row)
<1>1. was.revision \in Nat /\ row.revision \in Nat /\ \A g \in rows : g.revision \in Nat
    BY DefinitionAssumption DEF InstanceRows, HistoryRows
<1>2. \A g \in rows : g.instance = i => g.revision <= was.revision BY DEF Chain
<1>3. \A r \in 0..row.revision : \E g \in rows \cup {h} : g.instance = i /\ g.revision = r
  <2> TAKE r \in 0..row.revision
  <2>1. CASE r = row.revision BY <2>1
  <2>2. CASE r # row.revision
    <3>1. r \in 0..was.revision BY <1>1, <2>2
    <3> QED BY <3>1 DEF Chain
  <2> QED BY <2>1, <2>2
<1>4. \A f, g \in rows \cup {h} :
          f.instance = i /\ g.instance = i /\ f.revision = g.revision => f = g
    BY <1>1, <1>2 DEF Chain
<1>5. \A g \in rows : g.instance = i =>
          /\ g.revision <= row.revision /\ g.revision # row.revision
          /\ g.revision = 0 => g.from = None /\ g.to = Definition[row.workflow].initial
          /\ g.revision > 0 => Moves(row.workflow, g)
    BY <1>1, <1>2 DEF Chain
<1>6. \A f, g \in rows \cup {h} :
          f.instance = i /\ g.instance = i /\ g.revision = f.revision + 1 => g.from = f.to
  <2> SUFFICES ASSUME NEW f \in rows \cup {h}, NEW g \in rows \cup {h}, f.instance = i,
                      g.instance = i, g.revision = f.revision + 1
               PROVE  g.from = f.to
      OBVIOUS
  <2>1. f # h BY <1>1, <1>2
  <2>2. CASE g = h
    <3>1. f.revision = was.revision BY <1>1, <2>1, <2>2
    <3> QED BY <2>1, <2>2, <3>1 DEF Chain
  <2>3. CASE g # h BY <2>1, <2>3 DEF Chain
  <2> QED BY <2>2, <2>3
<1>7. row.revision > 0 BY <1>1
<1> QED BY <1>1, <1>3, <1>4, <1>5, <1>6, <1>7 DEF Chain

\* The next revision of an instance, with its history row.
NextRevision(i, row, h) ==
    /\ row \in InstanceRows /\ h \in HistoryRows
    /\ instances' = [instances EXCEPT ![i] = row]
    /\ history' = history \cup {h}
    /\ row.workflow = instances[i].workflow
    /\ row.revision = instances[i].revision + 1
    /\ h.instance = i /\ h.revision = row.revision
    /\ h.from = instances[i].state /\ h.to = row.state
    /\ Moves(row.workflow, h)

\* What the steps may do to the rows: the first revision, the next one, or nothing.
Revises ==
    \/ UNCHANGED <<instances, history>>
    \/ \E i \in Held : \E row, h : NextRevision(i, row, h)

LEMMA TakeRevises ==
    ASSUME TypeOK, NEW i \in Held, NEW e, NEW k \in Keys, NEW given, Take(i, e, k, given)
    PROVE  \E row, h : /\ NextRevision(i, row, h)
                       /\ h = Row(i, row, k, e.action, e.from)
                       /\ row.state = e.to
<1> DEFINE row == instances'[i]
           h == Row(i, row, k, e.action, e.from)
<1>1. /\ e \in Edges /\ e \in Of(i).edges /\ instances[i].state = e.from
      /\ instances'[i] = [instances[i] EXCEPT !.state = e.to, !.revision = @ + 1]
      /\ row \in InstanceRows
      /\ instances' = [instances EXCEPT ![i] = row]
      /\ h \in HistoryRows /\ history' = history \cup {h}
    BY TakeWrites
<1>2. instances[i] \in InstanceRows BY HeldRow
<1>3. /\ row.workflow = instances[i].workflow
      /\ row.revision = instances[i].revision + 1
      /\ row.state = e.to
    BY <1>1, <1>2 DEF InstanceRows
<1>4. /\ h.instance = i /\ h.revision = row.revision /\ h.from = e.from
      /\ h.action = e.action /\ h.to = row.state
    BY DEF Row
<1>5. Moves(row.workflow, h) BY <1>1, <1>3, <1>4 DEF Moves, Of
<1> HIDE DEF row
<1> QED BY <1>1, <1>3, <1>4, <1>5 DEF NextRevision

LEMMA AddDependenciesRevises ==
    ASSUME TypeOK, NEW k \in Requests, NEW i \in Held, NEW expected, NEW dependsOn, NEW drop,
           AddDependencies(k, i, expected, dependsOn, drop)
    PROVE  \/ UNCHANGED <<instances, history>>
           \/ \E row, h : /\ NextRevision(i, row, h)
                          /\ h.action \in {"add_dependencies", "replan_dependencies"}
<1> DEFINE row == [instances[i] EXCEPT !.revision = @ + 1]
           dropped == drop \cap Attached(i, None)
           action == IF dropped # {} THEN "replan_dependencies" ELSE "add_dependencies"
           h == Row(i, row, k, action, row.state)
<1>1. \/ UNCHANGED <<instances, history>>
      \/ /\ instances[i].revision < MaxRevision
         /\ instances' = [instances EXCEPT ![i] = row]
         /\ history' = history \cup {h}
    BY DEF AddDependencies
<1>2. i \in Instances /\ k \in Keys /\ instances[i] \in InstanceRows BY HeldRow DEF Keys
<1>3. SUFFICES ASSUME instances[i].revision < MaxRevision,
                      instances' = [instances EXCEPT ![i] = row],
                      history' = history \cup {h}
               PROVE  /\ NextRevision(i, row, h)
                      /\ h.action \in {"add_dependencies", "replan_dependencies"}
    BY <1>1
<1>4. action \in {"add_dependencies", "replan_dependencies"} BY Zenon
<1>5. action \in Names BY <1>4, DefinitionAssumption DEF Reserved
<1>6. instances[i].revision + 1 \in 0..MaxRevision
    BY <1>2, <1>3, DefinitionAssumption DEF InstanceRows
<1>7. /\ row \in InstanceRows
      /\ row.workflow = instances[i].workflow /\ row.state = instances[i].state
      /\ row.revision = instances[i].revision + 1
    BY <1>2, <1>6 DEF InstanceRows
<1> HIDE DEF action, row
<1>8. /\ h.instance = i /\ h.revision = row.revision /\ h.from = row.state
      /\ h.action = action /\ h.to = row.state
    BY DEF Row
<1>9. h \in HistoryRows BY <1>2, <1>5, <1>7 DEF Row, HistoryRows, InstanceRows
<1>10. Moves(row.workflow, h) BY <1>4, <1>8 DEF Moves
<1> HIDE DEF h
<1> QED BY <1>3, <1>4, <1>7, <1>8, <1>9, <1>10 DEF NextRevision

LEMMA RevisesChain ==
    ASSUME TypeOK, ChainInv, Revises
    PROVE  ChainInv'
<1>1. CASE UNCHANGED <<instances, history>> BY <1>1 DEF ChainInv
<1>2. ASSUME NEW i \in Held, NEW row, NEW h, NextRevision(i, row, h) PROVE ChainInv'
  <2>1. /\ row \in InstanceRows /\ h \in HistoryRows
        /\ instances' = [instances EXCEPT ![i] = row]
        /\ history' = history \cup {h}
        /\ row.workflow = instances[i].workflow
        /\ row.revision = instances[i].revision + 1
        /\ h.instance = i /\ h.revision = row.revision
        /\ h.from = instances[i].state /\ h.to = row.state
        /\ Moves(row.workflow, h)
      BY <1>2 DEF NextRevision
  <2>2. i \in Instances /\ instances[i] \in InstanceRows /\ instances[i] # None
      BY HeldRow DEF Held
  <2>3. history \in SUBSET HistoryRows BY DEF TypeOK, HistoryRows
  <2>4. Chain(history, i, instances[i]) BY <2>2 DEF ChainInv
  <2>5. Chain(history', i, row) BY <2>1, <2>2, <2>3, <2>4, ChainGrows
  <2>6. row # None BY <2>1, NoneAssumption
  <2>7. instances'[i] = row /\ \A j \in Instances : j # i => instances'[j] = instances[j]
      BY <2>1, <2>2 DEF TypeOK
  <2>8. \A j \in Instances : j # i =>
            /\ instances'[j] = None => NoRows(history', j)
            /\ instances'[j] # None => Chain(history', j, instances'[j])
      BY <2>1, <2>7, ChainOfAnother DEF ChainInv
  <2> QED BY <2>5, <2>6, <2>7, <2>8 DEF ChainInv
<1> QED BY <1>1, <1>2 DEF Revises

LEMMA StartChain ==
    ASSUME TypeOK, ChainInv, NEW k \in Requests, NEW w \in Workflows, NEW dependsOn,
           Start(k, w, dependsOn)
    PROVE  ChainInv'
<1> DEFINE row == [workflow |-> w, state |-> Definition[w].initial, revision |-> 0]
<1>1. PICK i \in Instances :
          /\ instances[i] = None
          /\ instances' = [instances EXCEPT ![i] = row]
          /\ history' = history \cup {Row(i, row, k, "start", None)}
    BY DEF Start
<1> DEFINE h == Row(i, row, k, "start", None)
<1>2. /\ row \in InstanceRows /\ row.revision = 0
      /\ row.state = Definition[row.workflow].initial
    BY DefinitionAssumption DEF InstanceRows, WellFormed
<1> HIDE DEF row
<1>3. "start" \in Names /\ k \in Keys BY DefinitionAssumption DEF Reserved, Keys
<1>4. /\ h \in HistoryRows /\ h.instance = i /\ h.revision = 0 /\ h.from = None
      /\ h.to = row.state
  <2>1. \A action \in Names : Row(i, row, k, action, None) \in HistoryRows
      BY <1>2, <1>3 DEF Row, HistoryRows, InstanceRows
  <2> QED BY <1>2, <1>3, <2>1 DEF Row
<1> HIDE DEF h
<1>5. NoRows(history, i) BY <1>1 DEF ChainInv
<1>6. Chain(history \cup {h}, i, row) BY <1>2, <1>4, <1>5, ChainStarts
<1>7. history' = history \cup {h} BY <1>1 DEF h
<1>8. row # None BY <1>2, NoneAssumption
<1>9. instances'[i] = row /\ \A j \in Instances : j # i => instances'[j] = instances[j]
    BY <1>1 DEF TypeOK
<1>10. \A j \in Instances : j # i =>
          /\ instances'[j] = None => NoRows(history', j)
          /\ instances'[j] # None => Chain(history', j, instances'[j])
    BY <1>4, <1>7, <1>9, ChainOfAnother DEF ChainInv
<1> QED BY <1>6, <1>7, <1>8, <1>9, <1>10 DEF ChainInv

-----------------------------------------------------------------------------
(* Every step is one of four kinds, as far as rows, history and grants go.  *)

Starts == \E k \in Requests, w \in Workflows, dependsOn \in SUBSET Held : Start(k, w, dependsOn)
Takes == \E i \in Held, k \in Keys : \E e, given :
             Take(i, e, k, given) /\ grants' = given /\ grants \subseteq given
Plans == \E k \in Requests, i \in Held : \E expected, dependsOn, drop :
             AddDependencies(k, i, expected, dependsOn, drop)
Keeps == grants \subseteq grants' /\ UNCHANGED <<instances, history, admitted>>

LEMMA StepKinds == TypeOK /\ [Next]_vars => Starts \/ Takes \/ Plans \/ Keeps
<1> SUFFICES ASSUME TypeOK, [Next]_vars PROVE Starts \/ Takes \/ Plans \/ Keeps OBVIOUS
<1>1. CASE UNCHANGED vars BY <1>1 DEF vars, Keeps
<1>2. ASSUME NEW k \in Requests, Command(k) PROVE Starts \/ Takes \/ Plans \/ Keeps
  <2>1. k \in Keys /\ Resuming(k) \in Keys BY DEF Keys
  <2>2. CASE \E w \in Workflows, dependsOn \in SUBSET Held : Start(k, w, dependsOn)
      BY <2>2 DEF Starts
  <2>3. CASE \E i \in Held, expected \in 0..MaxRevision, action \in Actions :
                 Transition(k, i, action, expected)
    <3>0. PICK i \in Held : \E e : Take(i, e, k, grants) /\ grants' = grants
        BY <2>3 DEF Transition
    <3>1. PICK e : Take(i, e, k, grants) /\ grants' = grants BY <3>0
    <3> QED BY <2>1, <3>1 DEF Takes
  <2>4. CASE \E i \in Held, expected \in 0..MaxRevision : \E dependsOn, drop \in SUBSET Held :
                 AddDependencies(k, i, expected, dependsOn, drop)
      BY <2>4 DEF Plans
  <2>5. CASE \E i \in Held : \E l \in Rules(i).limits, n \in Additions : ExtendLimit(k, i, l, n)
    <3>0. PICK i \in Held : \E l, n : ExtendLimit(k, i, l, n) BY <2>5
    <3>1. PICK l, n : ExtendLimit(k, i, l, n) BY <3>0
    <3>2. grants \subseteq grants' BY <3>1 DEF ExtendLimit
    <3>3. \/ UNCHANGED <<instances, history, admitted>>
          \/ \E e, given : Take(i, e, Resuming(k), given) /\ grants' = given
        BY <3>1 DEF ExtendLimit, Resume
    <3> QED BY <2>1, <3>2, <3>3 DEF Takes, Keeps
  <2> QED BY <1>2, <2>2, <2>3, <2>4, <2>5 DEF Command
<1>3. ASSUME NEW k \in Requests, Replay(k) PROVE Starts \/ Takes \/ Plans \/ Keeps
    BY <1>1, <1>3 DEF Replay
<1>4. ASSUME NEW p \in Providers, NEW i \in Held, NEW wanted \in SUBSET Held,
             ReplacePrerequisites(p, i, wanted)
      PROVE  Keeps
    BY <1>4 DEF ReplacePrerequisites, Keeps
<1>5. ASSUME NEW w \in Workflows, Deploy(w) PROVE Keeps BY <1>5 DEF Deploy, Keeps
<1> QED BY <1>1, <1>2, <1>3, <1>4, <1>5 DEF Next

LEMMA StepChain == TypeOK /\ ChainInv /\ [Next]_vars => ChainInv'
<1> SUFFICES ASSUME TypeOK, ChainInv, [Next]_vars PROVE ChainInv' OBVIOUS
<1>1. CASE Starts BY <1>1, StartChain DEF Starts
<1>2. CASE Takes BY <1>2, TakeRevises, RevisesChain DEF Takes, Revises
<1>3. CASE Plans
  <2>0. PICK k \in Requests, i \in Held :
            \E expected, dependsOn, drop : AddDependencies(k, i, expected, dependsOn, drop)
      BY <1>3 DEF Plans
  <2>1. PICK expected, dependsOn, drop : AddDependencies(k, i, expected, dependsOn, drop)
      BY <2>0
  <2>2. Revises BY <2>1, AddDependenciesRevises DEF Revises
  <2> QED BY <2>2, RevisesChain
<1>4. CASE Keeps BY <1>4, RevisesChain DEF Keeps, Revises
<1> QED BY <1>1, <1>2, <1>3, <1>4, StepKinds

LEMMA AlwaysChained == Spec => [](TypeOK /\ ChainInv)
<1>1. Init => ChainInv BY DEF Init, ChainInv, NoRows
<1> QED BY <1>1, AlwaysTyped, StepChain, PTL DEF Spec

\* The history tells every instance's whole way, revision by revision: no command's effect is
\* lost, doubled or misplaced.
THEOREM HistoryIsWhole == Spec => []HistoryExplains
BY AlwaysChained, ChainExplains, PTL

-----------------------------------------------------------------------------
(* What work rested on.                                                     *)

\* A step never moves an instance that has succeeded: its state has no edges.
Stands == \A j \in Instances : instances[j] # None /\ Settled(j) =>
              instances'[j] # None /\ Settled(j)'

LEMMA RevisesStands ==
    ASSUME TypeOK, NEW i \in Held, NEW row, NEW h, NextRevision(i, row, h),
           Settled(i) => row.state = instances[i].state
    PROVE  Stands
<1> SUFFICES ASSUME NEW j \in Instances, instances[j] # None, Settled(j)
             PROVE  instances'[j] # None /\ Settled(j)'
    BY DEF Stands
<1>1. /\ row \in InstanceRows
      /\ instances' = [instances EXCEPT ![i] = row]
      /\ row.workflow = instances[i].workflow
    BY DEF NextRevision
<1>2. row # None BY <1>1, NoneAssumption
<1>3. i \in Instances BY DEF Held
<1>4. instances'[i] = row /\ (j # i => instances'[j] = instances[j])
    BY <1>1, <1>3 DEF TypeOK
<1> QED BY <1>1, <1>2, <1>4 DEF Settled, Of

LEMMA StepStands == TypeOK /\ [Next]_vars => Stands
<1> SUFFICES ASSUME TypeOK, [Next]_vars PROVE Stands OBVIOUS
<1>1. CASE Starts
  <2>0. PICK i \in Instances :
            instances[i] = None /\ \E row : instances' = [instances EXCEPT ![i] = row]
      BY <1>1 DEF Starts, Start
  <2>1. PICK row : instances[i] = None /\ instances' = [instances EXCEPT ![i] = row] BY <2>0
  <2>2. \A j \in Instances : instances[j] # None => instances'[j] = instances[j]
      BY <2>1 DEF TypeOK
  <2> QED BY <2>2 DEF Stands, Settled, Of
<1>2. CASE Takes
  <2>0. PICK i \in Held, k \in Keys : \E e, given : Take(i, e, k, given) BY <1>2 DEF Takes
  <2>1. PICK e, given : Take(i, e, k, given) BY <2>0
  <2>2. PICK row, h : NextRevision(i, row, h) BY <2>1, TakeRevises
  <2>3. e \in Of(i).edges /\ instances[i].state = e.from /\ WellFormed(Of(i))
      BY <2>1, TakeWrites, HeldRow
  <2>4. ~Settled(i) BY <2>3 DEF WellFormed, Settled
  <2> QED BY <2>2, <2>4, RevisesStands
<1>3. CASE Plans
  <2>0. PICK k \in Requests, i \in Held :
            \E expected, dependsOn, drop : AddDependencies(k, i, expected, dependsOn, drop)
      BY <1>3 DEF Plans
  <2>1. PICK expected, dependsOn, drop : AddDependencies(k, i, expected, dependsOn, drop)
      BY <2>0
  <2>2. ~Ended(i) BY <2>1 DEF AddDependencies
  <2>3. ~Settled(i) BY <2>2, HeldRow DEF WellFormed, Settled, Ended
  <2>4. CASE UNCHANGED <<instances, history>> BY <2>4 DEF Stands, Settled, Of
  <2>5. CASE \E row, h : NextRevision(i, row, h) BY <2>3, <2>5, RevisesStands
  <2> QED BY <2>1, <2>4, <2>5, AddDependenciesRevises
<1>4. CASE Keeps BY <1>4 DEF Keeps, Stands, Settled, Of
<1> QED BY <1>1, <1>2, <1>3, <1>4, StepKinds

LEMMA StepPrerequisites ==
    TypeOK /\ GraphInv /\ PrerequisitesStand /\ [Next]_vars => PrerequisitesStand'
<1> SUFFICES ASSUME TypeOK, GraphInv, PrerequisitesStand, [Next]_vars
             PROVE  PrerequisitesStand'
    OBVIOUS
<1>1. Stands BY StepStands
<1>2. \A a \in admitted : a.prerequisite \in Instances BY DEF TypeOK
<1>3. CASE admitted' = admitted BY <1>1, <1>2, <1>3 DEF PrerequisitesStand, Stands
<1>4. CASE Takes
  <2>0. PICK i \in Held, k \in Keys : \E e, given : Take(i, e, k, given) BY <1>4 DEF Takes
  <2>1. PICK e, given : Take(i, e, k, given) BY <2>0
  <2> DEFINE row == [instances[i] EXCEPT !.state = e.to, !.revision = @ + 1]
             rests == {[instance |-> i, revision |-> row.revision, prerequisite |-> t] :
                          t \in IF e \in Rules(i).guarded THEN Prerequisites(i) ELSE {}}
  <2>5. admitted' = admitted \cup rests BY <2>1 DEF Take
  <2> HIDE DEF row
  <2>6. \A a \in rests : e \in Rules(i).guarded /\ a.prerequisite \in Prerequisites(i) OBVIOUS
  <2> HIDE DEF rests
  <2>2. \A a \in admitted' :
            a \in admitted \/ (e \in Rules(i).guarded /\ a.prerequisite \in Prerequisites(i))
      BY <2>5, <2>6
  <2>3. e \in Rules(i).guarded => \A t \in Prerequisites(i) : Settled(t)
      BY <2>1 DEF Take, MayTake
  <2>4. \A t \in Prerequisites(i) : t \in Instances /\ instances[t] # None
      BY DEF Prerequisites, Successors, GraphInv, EdgesHeld, TypeOK
  <2> QED BY <1>1, <1>2, <2>2, <2>3, <2>4 DEF PrerequisitesStand, Stands
<1>5. Starts => admitted' = admitted BY DEF Starts, Start
<1>6. Plans => admitted' = admitted BY DEF Plans, AddDependencies
<1>7. Keeps => admitted' = admitted BY DEF Keeps
<1> QED BY <1>3, <1>4, <1>5, <1>6, <1>7, StepKinds

\* Whatever work went on past has succeeded, and still stands so.
THEOREM WorkRestsOnSuccess == Spec => []PrerequisitesStand
<1>1. Init => PrerequisitesStand BY DEF Init, PrerequisitesStand
<1> QED BY <1>1, AlwaysTyped, InitGraph, StepGraph, StepPrerequisites, PTL DEF Spec

-----------------------------------------------------------------------------
(* Limits.  Rounds are counted from the history, so the count grows by one  *)
(* exactly when a capped edge is taken, and that is refused at the cap.     *)

Counts(h, i, l) == h.instance = i /\ h.from = l.from /\ h.action \in l.actions

LEMMA MaxTyped ==
    ASSUME TypeOK, NEW i \in Held, NEW l \in Rules(i).limits
    PROVE  l.max \in Nat
<1>1. l \in Limits BY HeldRow
<1> QED BY <1>1 DEF Limits

LEMMA UsedGrows ==
    ASSUME NEW rows, IsFiniteSet(rows), NEW h, NEW i, NEW l
    PROVE  /\ Used(rows \cup {h}, i, l) <= Used(rows, i, l) + 1
           /\ ~Counts(h, i, l) => Used(rows \cup {h}, i, l) = Used(rows, i, l)
<1> DEFINE counted == {g \in rows : Counts(g, i, l)}
<1>1. IsFiniteSet(counted) BY FS_Subset
<1>2. Cardinality(counted) \in Nat BY <1>1, FS_CardinalityType
<1>3. Used(rows, i, l) = Cardinality(counted) BY DEF Used, Counts
<1>4. CASE Counts(h, i, l)
  <2>1. {g \in rows \cup {h} : Counts(g, i, l)} = counted \cup {h} BY <1>4
  <2>2. Used(rows \cup {h}, i, l) = Cardinality(counted \cup {h}) BY <2>1 DEF Used, Counts
  <2> HIDE DEF counted
  <2>3. \/ Cardinality(counted \cup {h}) = Cardinality(counted)
        \/ Cardinality(counted \cup {h}) = Cardinality(counted) + 1
      BY <1>1, FS_AddElement
  <2> QED BY <1>2, <1>3, <1>4, <2>2, <2>3
<1>5. CASE ~Counts(h, i, l)
  <2>1. {g \in rows \cup {h} : Counts(g, i, l)} = counted BY <1>5
  <2>2. Used(rows \cup {h}, i, l) = Cardinality(counted) BY <2>1 DEF Used, Counts
  <2> QED BY <1>2, <1>3, <2>2
<1> QED BY <1>4, <1>5

LEMMA GrantedGrows ==
    ASSUME NEW given, NEW more, IsFiniteSet(more), given \subseteq more, NEW i, NEW l
    PROVE  Granted(given, i, l) <= Granted(more, i, l)
<1> DEFINE small == {g \in given : g.instance = i /\ g.limit = l.name}
           large == {g \in more : g.instance = i /\ g.limit = l.name}
<1>1. small \subseteq large OBVIOUS
<1>2. IsFiniteSet(large) BY FS_Subset
<1> HIDE DEF small, large
<1>3. Cardinality(small) <= Cardinality(large) BY <1>1, <1>2, FS_Subset
<1> QED BY <1>3 DEF Granted, small, large

Within(i, l) ==
    \/ Used(history, i, l) <= l.max + Granted(grants, i, l)
    \/ Used(history, i, l) = UsedBefore(i, l)

LimitInv == \A i \in Instances : instances[i] # None => \A l \in Rules(i).limits : Within(i, l)

\* A command finds and leaves the rules of an instance that was there.
LEMMA SameRules ==
    ASSUME UNCHANGED deployed, NEW i, instances'[i].workflow = instances[i].workflow
    PROVE  /\ Rules(i)' = Rules(i)
           /\ inherited'[instances'[i].workflow] = inherited[instances[i].workflow]
           /\ \A l : UsedBefore(i, l)' = UsedBefore(i, l)
BY DEF deployed, Rules, UsedBefore

LEMMA RevisesLimits ==
    ASSUME TypeOK, Finite, Finite', LimitInv, NEW i \in Held, NEW row, NEW h,
           NextRevision(i, row, h), UNCHANGED deployed, grants \subseteq grants',
           \A l \in Rules(i).limits :
               Counts(h, i, l) => Used(history, i, l) < l.max + Granted(grants', i, l)
    PROVE  LimitInv'
<1>1. /\ row \in InstanceRows
      /\ instances' = [instances EXCEPT ![i] = row]
      /\ history' = history \cup {h}
      /\ row.workflow = instances[i].workflow
      /\ h.instance = i
    BY DEF NextRevision
<1>2. i \in Instances /\ instances[i] # None BY DEF Held
<1> SUFFICES ASSUME NEW j \in Instances, instances'[j] # None, NEW l \in Rules(j)'.limits
             PROVE  Within(j, l)'
    BY DEF LimitInv
<1>3. instances[j] # None /\ instances'[j].workflow = instances[j].workflow
    BY <1>1, <1>2 DEF TypeOK
<1>4. l \in Rules(j).limits /\ UsedBefore(j, l)' = UsedBefore(j, l) BY <1>3, SameRules
<1>5. l.max \in Nat BY <1>3, <1>4, MaxTyped DEF Held
<1>6. Within(j, l) BY <1>3, <1>4 DEF LimitInv
<1>7. /\ Used(history, j, l) \in Nat /\ Used(history', j, l) \in Nat
      /\ Granted(grants, j, l) \in Nat /\ Granted(grants', j, l) \in Nat
    BY CountsTyped DEF Finite
<1>8. Granted(grants, j, l) <= Granted(grants', j, l) BY GrantedGrows DEF Finite
<1>9. /\ Used(history', j, l) <= Used(history, j, l) + 1
      /\ ~Counts(h, j, l) => Used(history', j, l) = Used(history, j, l)
    BY <1>1, UsedGrows DEF Finite
<1>10. CASE Counts(h, j, l)
  <2>1. j = i BY <1>1, <1>10 DEF Counts
  <2>2. Used(history, i, l) < l.max + Granted(grants', i, l) BY <1>4, <1>10, <2>1
  <2>3. Used(history', j, l) <= l.max + Granted(grants', j, l)
      BY <1>5, <1>7, <1>9, <2>1, <2>2
  <2> QED BY <2>3 DEF Within
<1>11. CASE ~Counts(h, j, l) BY <1>4, <1>5, <1>6, <1>7, <1>8, <1>9, <1>11 DEF Within
<1> QED BY <1>10, <1>11

LEMMA StartLimits ==
    ASSUME TypeOK, Finite, ChainInv, LimitInv, Starts, UNCHANGED deployed
    PROVE  LimitInv'
<1>0. PICK k \in Requests, w \in Workflows, dependsOn \in SUBSET Held : Start(k, w, dependsOn)
    BY DEF Starts
<1> DEFINE row == [workflow |-> w, state |-> Definition[w].initial, revision |-> 0]
<1>1. PICK i \in Instances :
          /\ instances[i] = None
          /\ instances' = [instances EXCEPT ![i] = row]
          /\ history' = history \cup {Row(i, row, k, "start", None)}
          /\ grants' = grants
    BY <1>0 DEF Start
<1> DEFINE h == Row(i, row, k, "start", None)
<1>2. h.instance = i /\ h.from = None BY DEF Row
<1>3. row \in InstanceRows BY DefinitionAssumption DEF InstanceRows, WellFormed
<1>4. history' = history \cup {h} BY <1>1
<1> HIDE DEF h, row
<1> SUFFICES ASSUME NEW j \in Instances, instances'[j] # None, NEW l \in Rules(j)'.limits
             PROVE  Within(j, l)'
    BY DEF LimitInv
<1>5. instances'[j] \in InstanceRows BY <1>1, <1>3 DEF TypeOK
<1>6. l \in Limits
  <2>1. Rules(j)' \in Policies[instances'[j].workflow]
      BY <1>5 DEF Rules, deployed, TypeOK, InstanceRows
  <2> QED BY <1>5, <2>1, DefinitionAssumption DEF InstanceRows, Registrable
<1>7. ~Counts(h, j, l) BY <1>2, <1>6, NoneAssumption DEF Counts, Limits
<1>8. Used(history', j, l) = Used(history, j, l) BY <1>4, <1>7, UsedGrows DEF Finite
<1>9. Granted(grants', j, l) = Granted(grants, j, l) BY <1>1
<1>10. CASE j # i
  <2>1. instances'[j] = instances[j] BY <1>1, <1>10 DEF TypeOK
  <2>2. Rules(j)' = Rules(j) /\ UsedBefore(j, l)' = UsedBefore(j, l) BY <2>1, SameRules
  <2>3. instances[j] # None BY <2>1
  <2> QED BY <1>8, <1>9, <2>2, <2>3 DEF LimitInv, Within
<1>11. CASE j = i
  <2>1. NoRows(history, j) BY <1>1, <1>11 DEF ChainInv
  <2>2. {g \in history : g.instance = j /\ g.from = l.from /\ g.action \in l.actions} = {}
      BY <2>1 DEF NoRows
  <2>3. Used(history, j, l) = 0 BY <2>2, FS_EmptySet DEF Used
  <2>4. Granted(grants, j, l) \in Nat BY CountsTyped DEF Finite
  <2>5. l.max \in Nat BY <1>6 DEF Limits
  <2> QED BY <1>8, <1>9, <2>3, <2>4, <2>5 DEF Within
<1> QED BY <1>10, <1>11

\* A deployed limit finds every round there is.
LEMMA DeployLimits ==
    ASSUME TypeOK, LimitInv, NEW w \in Workflows, Deploy(w)
    PROVE  LimitInv'
<1>1. /\ \E p : rules' = [rules EXCEPT ![w] = p]
      /\ inherited' = [inherited EXCEPT ![w] = history]
      /\ UNCHANGED <<instances, history, grants>>
    BY DEF Deploy
<1> SUFFICES ASSUME NEW j \in Instances, instances[j] # None, NEW l \in Rules(j)'.limits
             PROVE  Within(j, l)'
    BY <1>1 DEF LimitInv
<1>2. instances[j].workflow \in Workflows BY DEF TypeOK, InstanceRows
<1>3. CASE instances[j].workflow = w
  <2>1. inherited'[instances'[j].workflow] = history BY <1>1, <1>2, <1>3 DEF TypeOK
  <2> QED BY <1>1, <2>1 DEF Within, UsedBefore
<1>4. CASE instances[j].workflow # w
  <2>1. /\ rules'[instances'[j].workflow] = rules[instances[j].workflow]
        /\ inherited'[instances'[j].workflow] = inherited[instances[j].workflow]
      BY <1>1, <1>2, <1>4 DEF TypeOK
  <2>2. l \in Rules(j).limits BY <2>1 DEF Rules
  <2>3. Within(j, l) BY <2>2 DEF LimitInv
  <2> QED BY <1>1, <2>1, <2>3 DEF Within, UsedBefore
<1> QED BY <1>3, <1>4

LEMMA StepLimits ==
    TypeOK /\ Finite /\ TypeOK' /\ Finite' /\ ChainInv /\ LimitInv /\ [Next]_vars => LimitInv'
<1> SUFFICES ASSUME TypeOK, Finite, TypeOK', Finite', ChainInv, LimitInv, [Next]_vars
             PROVE  LimitInv'
    OBVIOUS
<1>0. CASE \E w \in Workflows : Deploy(w) BY <1>0, DeployLimits
<1> SUFFICES ASSUME UNCHANGED deployed PROVE LimitInv' BY <1>0, StepDeploys
<1>1. CASE Starts BY <1>1, StartLimits
<1>2. CASE Takes
  <2>0. PICK i \in Held, k \in Keys : \E e, given :
            Take(i, e, k, given) /\ grants' = given /\ grants \subseteq given
      BY <1>2 DEF Takes
  <2>1. PICK e, given : Take(i, e, k, given) /\ grants' = given /\ grants \subseteq given BY <2>0
  <2>2. PICK row, h : NextRevision(i, row, h) /\ h = Row(i, row, k, e.action, e.from)
      BY <2>1, TakeRevises
  <2>3. \A l \in Rules(i).limits : Caps(l, e) => ~Exhausted(history, given, i, l)
      BY <2>1 DEF Take, MayTake
  <2>4. \A l \in Rules(i).limits : Counts(h, i, l) => Caps(l, e) BY <2>2 DEF Counts, Caps, Row
  <2>5. \A l \in Rules(i).limits : l.max \in Nat BY MaxTyped
  <2>6. \A l : Used(history, i, l) \in Nat /\ Granted(given, i, l) \in Nat
      BY <2>1, CountsTyped DEF Finite
  <2>7. \A l \in Rules(i).limits :
            Counts(h, i, l) => Used(history, i, l) < l.max + Granted(given, i, l)
      BY <2>3, <2>4, <2>5, <2>6 DEF Exhausted
  <2> QED BY <2>1, <2>2, <2>7, RevisesLimits
<1>3. CASE Plans
  <2>0. PICK k \in Requests, i \in Held :
            \E expected, dependsOn, drop : AddDependencies(k, i, expected, dependsOn, drop)
      BY <1>3 DEF Plans
  <2>1. PICK expected, dependsOn, drop : AddDependencies(k, i, expected, dependsOn, drop)
      BY <2>0
  <2>2. grants' = grants BY <2>1 DEF AddDependencies
  <2>3. CASE UNCHANGED <<instances, history>>
      BY <2>2, <2>3 DEF LimitInv, Within, Rules, UsedBefore, deployed
  <2>4. CASE \E row, h : /\ NextRevision(i, row, h)
                         /\ h.action \in {"add_dependencies", "replan_dependencies"}
    <3>1. PICK row, h : /\ NextRevision(i, row, h)
                        /\ h.action \in {"add_dependencies", "replan_dependencies"}
        BY <2>4
    <3>2. \A l \in Rules(i).limits : h.action \notin l.actions
        BY <3>1, HeldRow DEF WellFormed, Registrable, Reserved
    <3> QED BY <2>2, <3>1, <3>2, RevisesLimits DEF Counts
  <2> QED BY <2>1, <2>3, <2>4, AddDependenciesRevises
<1>4. CASE Keeps
  <2> SUFFICES ASSUME NEW j \in Instances, instances[j] # None, NEW l \in Rules(j).limits
               PROVE  \/ Used(history, j, l) <= l.max + Granted(grants', j, l)
                      \/ Used(history, j, l) = UsedBefore(j, l)
      BY <1>4 DEF LimitInv, Within, Keeps, Rules, UsedBefore, deployed
  <2>1. Granted(grants, j, l) <= Granted(grants', j, l) BY <1>4, GrantedGrows DEF Keeps, Finite
  <2>2. /\ Used(history, j, l) \in Nat
        /\ Granted(grants, j, l) \in Nat /\ Granted(grants', j, l) \in Nat
      BY CountsTyped DEF Finite
  <2>3. l.max \in Nat BY MaxTyped DEF Held
  <2>4. Within(j, l) BY DEF LimitInv
  <2> QED BY <2>1, <2>2, <2>3, <2>4 DEF Within
<1> QED BY <1>1, <1>2, <1>3, <1>4, StepKinds

\* No instance takes more rounds than the limits deployed now and its extensions allow: one
\* that has more had them when they were deployed (useRound of packages/workflows).
THEOREM LimitsKept == Spec => []LimitsHold
<1>1. Init => LimitInv BY DEF Init, LimitInv
<1>2. LimitInv => LimitsHold BY DEF LimitInv, Within, LimitsHold, Held
<1> QED BY <1>1, <1>2, AlwaysTyped, AlwaysChained, StepLimits, PTL DEF Spec

-----------------------------------------------------------------------------
(* Requests.  What a request left behind is its receipt's: a request that   *)
(* was not answered has left nothing, so its first row or grant is its only *)
(* one.                                                                     *)

Applied(k) ==
    /\ \A g, h \in history : g.request = k /\ h.request = k => g = h
    /\ \A h \in history :
          h.request = k =>
              /\ receipts[k] # None
              /\ receipts[k].answer = [id |-> h.instance, state |-> h.to, revision |-> h.revision]
              /\ receipts[k].command.op # "start" =>
                     h.revision = receipts[k].command.expected + 1
    /\ \A g \in grants :
          g.request = k =>
              /\ receipts[k] # None
              /\ receipts[k].command.op = "extend_limit"
              /\ g.round <= receipts[k].command.additional

\* The answer that says what a row says.
Told(h) == [id |-> h.instance, state |-> h.to, revision |-> h.revision]

\* A request that was not answered has left nothing.
LEMMA NothingLeft ==
    ASSUME NEW k \in Keys, Applied(k), Unanswered(k)
    PROVE  /\ \A h \in history : h.request # k
           /\ \A g \in grants : g.request # k
BY DEF Applied, Unanswered

\* A request nothing is written under.
LEMMA AnotherRequest ==
    ASSUME NEW k, Applied(k), receipts'[k] = receipts[k],
           \A h \in history' : h.request = k => h \in history,
           \A g \in grants' : g.request = k => g \in grants
    PROVE  Applied(k)'
BY DEF Applied

\* The request of one row, answered with what the row says.
LEMMA OneRow ==
    ASSUME NEW k \in Keys, NEW h, NEW command,
           \A g \in history' : g.request = k => g = h,
           \A g \in grants' : g.request # k,
           receipts'[k] = Receipt(command, Told(h)),
           receipts'[k] # None,
           command.op # "start" => h.revision = command.expected + 1
    PROVE  Applied(k)'
BY DEF Applied, Receipt, Told

\* A request answered without a row.
LEMMA NoRow ==
    ASSUME NEW k \in Keys, \A h \in history' : h.request # k,
           receipts'[k] # None,
           \A g \in grants' : g.request = k =>
               /\ receipts'[k].command.op = "extend_limit"
               /\ g.round <= receipts'[k].command.additional
    PROVE  Applied(k)'
BY DEF Applied

\* The row of a move is what its receipt answers.
LEMMA RowAnswered ==
    ASSUME NEW i, NEW row, NEW k, NEW action, NEW from
    PROVE  LET h == Row(i, row, k, action, from)
           IN  /\ h.request = k /\ h.revision = row.revision
               /\ Snapshot(i, row) = Told(h)
BY DEF Row, Snapshot, Told

\* A receipt is there once it is written.
LEMMA ReceiptThere ==
    ASSUME NEW command \in Commands, NEW answer \in Snapshots \cup Statuses
    PROVE  Receipt(command, answer) # None
<1>1. Receipt(command, answer) \in Receipts BY DEF Receipt, Receipts
<1> QED BY <1>1, NoneAssumption

LEMMA SnapshotTyped ==
    ASSUME NEW i \in Instances, NEW row \in InstanceRows
    PROVE  Snapshot(i, row) \in Snapshots
BY DEF Snapshot, Snapshots, InstanceRows

LEMMA StartApplied ==
    ASSUME TypeOK, TypeOK', \A j \in Keys : Applied(j), NEW k \in Requests, NEW w \in Workflows,
           NEW dependsOn \in SUBSET Held, Start(k, w, dependsOn)
    PROVE  \A j \in Keys : Applied(j)'
<1> DEFINE row == [workflow |-> w, state |-> Definition[w].initial, revision |-> 0]
           command == [op |-> "start", workflow |-> w, dependsOn |-> dependsOn]
<1>1. PICK i \in Instances :
          /\ Unanswered(k)
          /\ receipts' = [receipts EXCEPT ![k] = Receipt(command, Snapshot(i, row))]
          /\ history' = history \cup {Row(i, row, k, "start", None)}
          /\ grants' = grants
    BY DEF Start
<1> DEFINE h == Row(i, row, k, "start", None)
<1>2. k \in Keys BY DEF Keys
<1>3. command.op = "start" /\ command \in Commands BY DEF Commands, Held
<1>4. row \in InstanceRows BY DefinitionAssumption DEF InstanceRows, WellFormed
<1> HIDE DEF row, command
<1>5. h.request = k /\ Snapshot(i, row) = Told(h)
    BY RowAnswered
<1> HIDE DEF h
<1>6. history' = history \cup {h} BY <1>1 DEF h
<1>7. /\ receipts'[k] = Receipt(command, Told(h))
      /\ \A j \in Keys : j # k => receipts'[j] = receipts[j]
    BY <1>1, <1>2, <1>5 DEF TypeOK
<1>8. (\A g \in history : g.request # k) /\ (\A g \in grants : g.request # k)
    BY <1>1, <1>2, NothingLeft
<1>9. receipts'[k] # None BY <1>3, <1>5, <1>7, <1>4, SnapshotTyped, ReceiptThere
<1>10. Applied(k)' BY <1>1, <1>2, <1>3, <1>6, <1>7, <1>8, <1>9, OneRow
<1>11. \A j \in Keys : j # k => Applied(j)' BY <1>1, <1>5, <1>6, <1>7, AnotherRequest
<1> QED BY <1>10, <1>11

LEMMA TransitionApplied ==
    ASSUME TypeOK, TypeOK', \A j \in Keys : Applied(j), NEW k \in Requests, NEW i \in Held,
           NEW action \in Names, NEW expected \in 0..MaxRevision, Transition(k, i, action, expected)
    PROVE  \A j \in Keys : Applied(j)'
<1> DEFINE command == [op |-> "transition", instance |-> i, action |-> action,
                       expected |-> expected]
<1>1. PICK e \in Of(i).edges : Take(i, e, k, grants) BY DEF Transition
<1>2. /\ Unanswered(k)
      /\ instances[i].revision = expected
      /\ receipts' = [receipts EXCEPT ![k] = Receipt(command, Snapshot(i, instances'[i]))]
      /\ grants' = grants
    BY DEF Transition, AtRevision
<1>3. k \in Keys /\ i \in Instances BY DEF Keys, Held
<1>4. command.expected = expected /\ command \in Commands
    BY <1>3, DefinitionAssumption DEF Commands
<1> HIDE DEF command
<1>5. PICK row, h : NextRevision(i, row, h) /\ h = Row(i, row, k, e.action, e.from)
    BY <1>1, <1>3, TakeRevises
<1>6. /\ instances'[i] = row
      /\ row \in InstanceRows
      /\ history' = history \cup {h}
      /\ h.revision = expected + 1
    BY <1>2, <1>3, <1>5 DEF NextRevision, TypeOK
<1>7. h.request = k /\ Snapshot(i, row) = Told(h)
    BY <1>5, RowAnswered
<1>8. /\ receipts'[k] = Receipt(command, Told(h))
      /\ \A j \in Keys : j # k => receipts'[j] = receipts[j]
    BY <1>2, <1>3, <1>6, <1>7 DEF TypeOK
<1>9. (\A g \in history : g.request # k) /\ (\A g \in grants : g.request # k)
    BY <1>2, <1>3, NothingLeft
<1>10. receipts'[k] # None BY <1>3, <1>4, <1>6, <1>7, <1>8, SnapshotTyped, ReceiptThere
<1>11. Applied(k)' BY <1>2, <1>3, <1>4, <1>6, <1>8, <1>9, <1>10, OneRow
<1>12. \A j \in Keys : j # k => Applied(j)' BY <1>2, <1>6, <1>7, <1>8, AnotherRequest
<1> QED BY <1>11, <1>12

LEMMA AddDependenciesApplied ==
    ASSUME TypeOK, TypeOK', \A j \in Keys : Applied(j), NEW k \in Requests, NEW i \in Held,
           NEW expected \in 0..MaxRevision, NEW dependsOn \in SUBSET Held, NEW drop \in SUBSET Held,
           AddDependencies(k, i, expected, dependsOn, drop)
    PROVE  \A j \in Keys : Applied(j)'
<1> DEFINE command == [op |-> "add_dependencies", instance |-> i, expected |-> expected,
                       dependsOn |-> dependsOn, drop |-> drop]
           dropped == drop \cap Attached(i, None)
           action == IF dropped # {} THEN "replan_dependencies" ELSE "add_dependencies"
           row == [instances[i] EXCEPT !.revision = @ + 1]
           h == Row(i, row, k, action, row.state)
<1>1. /\ Unanswered(k)
      /\ instances[i].revision = expected
      /\ \/ UNCHANGED <<instances, history>>
         \/ /\ instances' = [instances EXCEPT ![i] = row]
            /\ history' = history \cup {h}
      /\ receipts' = [receipts EXCEPT ![k] = Receipt(command, Snapshot(i, instances'[i]))]
      /\ grants' = grants
    BY DEF AddDependencies, AtRevision
<1>2. k \in Keys /\ i \in Instances /\ instances[i] \in InstanceRows BY HeldRow DEF Keys
<1>3. command.expected = expected /\ command \in Commands
    BY <1>2, DefinitionAssumption DEF Commands, Held
<1>4. instances'[i] \in InstanceRows
  <2>1. CASE UNCHANGED <<instances, history>> BY <1>2, <2>1
  <2>2. CASE \E next, g : NextRevision(i, next, g) BY <1>2, <2>2 DEF NextRevision, TypeOK
  <2> QED BY <2>1, <2>2, AddDependenciesRevises
<1>5. row.revision = expected + 1 BY <1>1, <1>2 DEF InstanceRows
<1> HIDE DEF command, action, row
<1>6. /\ h.request = k /\ h.revision = row.revision
      /\ Snapshot(i, row) = Told(h)
    BY RowAnswered
<1> HIDE DEF h
<1>7. /\ receipts'[k] = Receipt(command, Snapshot(i, instances'[i]))
      /\ \A j \in Keys : j # k => receipts'[j] = receipts[j]
    BY <1>1, <1>2 DEF TypeOK
<1>8. (\A g \in history : g.request # k) /\ (\A g \in grants : g.request # k)
    BY <1>1, <1>2, NothingLeft
<1>9. receipts'[k] # None BY <1>2, <1>3, <1>7, <1>4, SnapshotTyped, ReceiptThere
<1>10. \A j \in Keys : j # k => Applied(j)' BY <1>1, <1>6, <1>7, AnotherRequest
<1>11. CASE UNCHANGED <<instances, history>>
  <2>1. Applied(k)' BY <1>1, <1>2, <1>8, <1>9, <1>11, NoRow
  <2> QED BY <1>10, <2>1
<1>12. CASE instances' = [instances EXCEPT ![i] = row] /\ history' = history \cup {h}
  <2>1. instances'[i] = row BY <1>2, <1>12 DEF TypeOK
  <2>2. receipts'[k] = Receipt(command, Told(h))
      BY <1>6, <1>7, <2>1
  <2>3. h.revision = command.expected + 1 BY <1>3, <1>5, <1>6
  <2>4. (\A g \in history' : g.request = k => g = h) /\ \A g \in grants' : g.request # k
      BY <1>1, <1>8, <1>12
  <2>5. Applied(k)' BY <1>2, <1>9, <2>2, <2>3, <2>4, OneRow
  <2> QED BY <1>10, <2>5
<1> QED BY <1>1, <1>11, <1>12

LEMMA ExtendLimitApplied ==
    ASSUME TypeOK, TypeOK', Finite, Finite', \A j \in Keys : Applied(j), NEW k \in Requests,
           NEW i \in Held, NEW l \in Rules(i).limits, NEW additional \in Nat,
           ExtendLimit(k, i, l, additional)
    PROVE  \A j \in Keys : Applied(j)'
<1> DEFINE command == [op |-> "extend_limit", instance |-> i, limit |-> l.name,
                       additional |-> additional]
           given == grants \cup GrantedBy(k, i, l, additional)
           answer == [id |-> i, used |-> Used(history, i, l), granted |-> Granted(given, i, l)]
           answered == [receipts EXCEPT ![k] = Receipt(command, answer)]
<1>1. /\ Unanswered(k)
      /\ grants' = given
      /\ \/ receipts' = answered /\ UNCHANGED <<instances, history, escalations, admitted>>
         \/ \E e \in Suspended(i) : Resume(k, i, e, given, answered)
    BY DEF ExtendLimit, GrantedBy
<1>2. k \in Keys /\ Resuming(k) \in Keys /\ Resuming(k) # k BY RequestAssumption DEF Keys
<1>3. command.op = "extend_limit" /\ command.additional = additional OBVIOUS
<1>4. i \in Instances /\ l \in Limits BY HeldRow
<1>5. command \in Commands BY <1>4 DEF Commands, Limits
<1>6. \A g \in GrantedBy(k, i, l, additional) : g.request = k /\ g.round <= additional
    BY DEF GrantedBy
<1> HIDE DEF command
<1>7. /\ \A g \in grants' : g \in grants \/ (g.request = k /\ g.round <= additional)
      /\ \A g \in grants' : g.request # k => g \in grants
    BY <1>1, <1>6
<1> HIDE DEF given
<1>8. answer \in Statuses BY <1>1, <1>4, CountsTyped DEF Statuses, Finite
<1> HIDE DEF answer
<1>9. /\ answered[k] = Receipt(command, answer)
      /\ \A j \in Keys : j # k => answered[j] = receipts[j]
      /\ answered \in [Keys -> {receipts[j] : j \in Keys} \cup {Receipt(command, answer)}]
    BY <1>2 DEF TypeOK
<1> HIDE DEF answered
<1>10. (\A g \in history : g.request # k) /\ (\A g \in grants : g.request # k)
    BY <1>1, <1>2, NothingLeft
<1>11. ASSUME receipts'[k] = Receipt(command, answer), \A h \in history' : h.request # k
      PROVE  Applied(k)'
  <2>1. receipts'[k] # None BY <1>11, <1>5, <1>8, ReceiptThere
  <2>2. /\ receipts'[k].command.op = "extend_limit"
        /\ receipts'[k].command.additional = additional
      BY <1>3, <1>11 DEF Receipt
  <2> QED BY <1>2, <1>7, <1>10, <1>11, <2>1, <2>2, NoRow
<1>12. CASE receipts' = answered /\ UNCHANGED <<instances, history, escalations, admitted>>
  <2>1. Applied(k)' BY <1>9, <1>10, <1>11, <1>12
  <2>2. \A j \in Keys : j # k => Applied(j)' BY <1>7, <1>9, <1>12, AnotherRequest
  <2> QED BY <2>1, <2>2
<1>13. CASE \E e \in Suspended(i) : Resume(k, i, e, given, answered)
  <2>1. PICK e \in Suspended(i) : Resume(k, i, e, given, answered) BY <1>13
  <2> DEFINE resuming == [op |-> "transition", instance |-> i, action |-> e.action,
                          expected |-> instances[i].revision]
             r == Resuming(k)
  <2>2. /\ Unanswered(r)
        /\ Take(i, e, r, given)
        /\ receipts' = [answered EXCEPT ![r] = Receipt(resuming, Snapshot(i, instances'[i]))]
      BY <2>1 DEF Resume
  <2>3. resuming.expected = instances[i].revision OBVIOUS
  <2>4. i \in Instances BY DEF Held
  <2>5. r \in Keys /\ r # k BY <1>2
  <2> HIDE DEF r
  <2>6. resuming \in Commands
    <3>1. e \in Edges BY <2>2, <2>5, TakeWrites
    <3> QED BY <2>4, <3>1, HeldRow, DefinitionAssumption DEF Commands, Edges, InstanceRows
  <2> HIDE DEF resuming
  <2>7. PICK row, h : NextRevision(i, row, h) /\ h = Row(i, row, r, e.action, e.from)
      BY <2>2, <2>5, TakeRevises
  <2>8. /\ instances'[i] = row
        /\ row \in InstanceRows
        /\ history' = history \cup {h}
        /\ h.revision = resuming.expected + 1
      BY <2>3, <2>4, <2>7 DEF NextRevision, TypeOK
  <2>9. h.request = r /\ Snapshot(i, row) = Told(h)
      BY <2>7, RowAnswered
  <2>10. /\ receipts'[r] = Receipt(resuming, Told(h))
        /\ receipts'[k] = Receipt(command, answer)
        /\ \A j \in Keys : j # k /\ j # r => receipts'[j] = receipts[j]
      BY <1>2, <1>9, <2>2, <2>5, <2>8, <2>9
  <2>11. (\A g \in history : g.request # r) /\ (\A g \in grants : g.request # r)
      BY <2>2, <2>5, NothingLeft
  <2>12. receipts'[r] # None BY <2>4, <2>8, <2>9, <2>10, <2>6, SnapshotTyped, ReceiptThere
  <2>13. \A g \in grants' : g.request # r BY <1>7, <2>5, <2>11
  <2>14. \A g \in history' : g.request = r => g = h BY <2>8, <2>11
  <2>15. Applied(r)' BY <2>5, <2>8, <2>10, <2>12, <2>13, <2>14, OneRow
  <2>16. Applied(k)' BY <1>10, <1>11, <2>5, <2>8, <2>9, <2>10
  <2>17. \A j \in Keys : j # k /\ j # r => Applied(j)' BY <1>7, <2>8, <2>9, <2>10, AnotherRequest
  <2> QED BY <2>15, <2>16, <2>17
<1> QED BY <1>1, <1>12, <1>13

LEMMA StepApplied ==
    TypeOK /\ TypeOK' /\ Finite /\ Finite' /\ AppliedOnce /\ [Next]_vars => AppliedOnce'
<1> SUFFICES ASSUME TypeOK, TypeOK', Finite, Finite', \A j \in Keys : Applied(j), [Next]_vars
             PROVE  \A j \in Keys : Applied(j)'
    BY DEF AppliedOnce, Applied
<1>1. ASSUME UNCHANGED <<history, receipts, grants>> PROVE \A j \in Keys : Applied(j)'
    BY <1>1 DEF Applied
<1>2. ASSUME NEW k \in Requests, Command(k) PROVE \A j \in Keys : Applied(j)'
  <2>1. CASE \E w \in Workflows, dependsOn \in SUBSET Held : Start(k, w, dependsOn)
      BY <2>1, StartApplied
  <2>2. CASE \E i \in Held, expected \in 0..MaxRevision, action \in Actions :
                 Transition(k, i, action, expected)
      BY <2>2, ActionsAreNames, TransitionApplied
  <2>3. CASE \E i \in Held, expected \in 0..MaxRevision : \E dependsOn, drop \in SUBSET Held :
                 AddDependencies(k, i, expected, dependsOn, drop)
      BY <2>3, AddDependenciesApplied
  <2>4. CASE \E i \in Held : \E l \in Rules(i).limits, n \in Additions : ExtendLimit(k, i, l, n)
      BY <2>4, DefinitionAssumption, ExtendLimitApplied
  <2> QED BY <1>2, <2>1, <2>2, <2>3, <2>4 DEF Command
<1>3. ASSUME NEW k \in Requests, Replay(k) PROVE \A j \in Keys : Applied(j)'
    BY <1>1, <1>3 DEF Replay, vars
<1>4. ASSUME NEW p \in Providers, NEW i \in Held, NEW wanted \in SUBSET Held,
             ReplacePrerequisites(p, i, wanted)
      PROVE  \A j \in Keys : Applied(j)'
    BY <1>1, <1>4 DEF ReplacePrerequisites
<1>5. ASSUME NEW w \in Workflows, Deploy(w) PROVE \A j \in Keys : Applied(j)'
    BY <1>1, <1>5 DEF Deploy
<1> QED BY <1>1, <1>2, <1>3, <1>4, <1>5 DEF Next, vars

\* However often a request is retried, it took effect at most once, at the revision its
\* caller named, and its receipt says what it did.
THEOREM RequestsApplyOnce == Spec => []AppliedOnce
<1>1. Init => AppliedOnce BY DEF Init, AppliedOnce
<1> QED BY <1>1, AlwaysTyped, StepApplied, PTL DEF Spec

-----------------------------------------------------------------------------
(* Escalations.  Work arrives at a cap with a move, and the arrival's event *)
(* has the revision of that move: no later row of the history can be one    *)
(* that moves it, unless it stands somewhere else now.                      *)

Heard(i, l) ==
    \/ \E a \in escalations :
          /\ a.instance = i /\ a.limit = l.name
          /\ StoodSince(i, {h \in history : h.revision <= a.revision})
    \/ StoodSince(i, inherited[instances[i].workflow])

HeardInv == \A i \in Instances : instances[i] # None =>
    \A l \in Rules(i).limits :
        l.from = instances[i].state /\ Exhausted(history, grants, i, l) => Heard(i, l)

\* More rounds granted, or rounds used elsewhere, exhaust no limit.
LEMMA ExhaustedBefore ==
    ASSUME TypeOK, Finite, Finite', NEW i \in Held, NEW l \in Rules(i).limits,
           Used(history', i, l) = Used(history, i, l), grants \subseteq grants',
           Exhausted(history', grants', i, l)
    PROVE  Exhausted(history, grants, i, l)
<1>1. Granted(grants, i, l) <= Granted(grants', i, l) BY GrantedGrows DEF Finite
<1>2. /\ Used(history, i, l) \in Nat
      /\ Granted(grants, i, l) \in Nat /\ Granted(grants', i, l) \in Nat
    BY CountsTyped DEF Finite
<1>3. l.max \in Nat BY MaxTyped
<1> QED BY <1>1, <1>2, <1>3 DEF Exhausted

\* What was announced stays announced while no row moves the work.
LEMMA StillHeard ==
    ASSUME NEW i, NEW l, Heard(i, l), escalations \subseteq escalations',
           UNCHANGED deployed, instances'[i].workflow = instances[i].workflow,
           \A h \in history' : h.instance = i => h \in history \/ h.from = h.to
    PROVE  Heard(i, l)'
<1>1. inherited'[instances'[i].workflow] = inherited[instances[i].workflow] BY SameRules
<1>2. CASE StoodSince(i, inherited[instances[i].workflow])
    BY <1>1, <1>2 DEF Heard, StoodSince, Rows
<1>3. ASSUME NEW a \in escalations, a.instance = i, a.limit = l.name,
             StoodSince(i, {h \in history : h.revision <= a.revision})
      PROVE  Heard(i, l)'
    BY <1>3 DEF Heard, StoodSince, Rows
<1> QED BY <1>2, <1>3 DEF Heard

LEMMA AnnouncementsStay == [Next]_vars => escalations \subseteq escalations'
<1> SUFFICES ASSUME [Next]_vars PROVE escalations \subseteq escalations' OBVIOUS
<1>1. ASSUME NEW i, NEW e, NEW k, NEW given, Take(i, e, k, given)
      PROVE  escalations \subseteq escalations'
    BY <1>1 DEF Take
<1>2. ASSUME NEW k \in Requests, Command(k) PROVE escalations \subseteq escalations'
  <2>1. ASSUME NEW w, NEW ids, Start(k, w, ids) PROVE escalations \subseteq escalations'
      BY <2>1 DEF Start
  <2>2. ASSUME NEW i, NEW action, NEW expected, Transition(k, i, action, expected)
        PROVE  escalations \subseteq escalations'
      BY <1>1, <2>2 DEF Transition
  <2>3. ASSUME NEW i, NEW expected, NEW dependsOn, NEW drop,
               AddDependencies(k, i, expected, dependsOn, drop)
        PROVE  escalations \subseteq escalations'
      BY <2>3 DEF AddDependencies
  <2>4. ASSUME NEW i, NEW l, NEW n, ExtendLimit(k, i, l, n)
        PROVE  escalations \subseteq escalations'
      BY <1>1, <2>4 DEF ExtendLimit, Resume
  <2> QED BY <1>2, <2>1, <2>2, <2>3, <2>4 DEF Command
<1> QED BY <1>2 DEF Next, vars, Replay, ReplacePrerequisites, Deploy

\* The next revision of one instance: the others are as they were, and so is the one that
\* stays where it is by a row no limit counts.
LEMMA RevisesHeard ==
    ASSUME TypeOK, Finite, Finite', HeardInv, NEW i \in Held, NEW row, NEW h,
           NextRevision(i, row, h), UNCHANGED deployed, grants \subseteq grants',
           escalations \subseteq escalations',
           \A l \in Rules(i).limits :
               l.from = row.state /\ Exhausted(history', grants', i, l) =>
                   \/ Heard(i, l)'
                   \/ h.from = h.to /\ ~Counts(h, i, l)
    PROVE  HeardInv'
<1>1. /\ row \in InstanceRows
      /\ instances' = [instances EXCEPT ![i] = row]
      /\ history' = history \cup {h}
      /\ row.workflow = instances[i].workflow
      /\ h.instance = i /\ h.from = instances[i].state /\ h.to = row.state
    BY DEF NextRevision
<1>2. i \in Instances /\ instances[i] # None BY DEF Held
<1> SUFFICES ASSUME NEW j \in Instances, instances'[j] # None, NEW l \in Rules(j)'.limits,
                    l.from = instances'[j].state, Exhausted(history', grants', j, l)
             PROVE  Heard(j, l)'
    BY DEF HeardInv
<1>3. /\ instances[j] # None /\ instances'[j].workflow = instances[j].workflow
      /\ j = i => instances'[j] = row
      /\ j # i => instances'[j] = instances[j]
    BY <1>1, <1>2 DEF TypeOK
<1>4. l \in Rules(j).limits /\ j \in Held BY <1>3, SameRules DEF Held
<1>5. ~Counts(h, j, l) => Used(history', j, l) = Used(history, j, l)
    BY <1>1, UsedGrows DEF Finite
<1>6. ~Counts(h, j, l) => Exhausted(history, grants, j, l) BY <1>4, <1>5, ExhaustedBefore
<1>7. CASE j # i
  <2>1. ~Counts(h, j, l) BY <1>1, <1>7 DEF Counts
  <2>2. Heard(j, l) BY <1>3, <1>4, <1>6, <1>7, <2>1 DEF HeardInv
  <2> QED BY <1>1, <1>3, <1>7, <2>2, StillHeard
<1>8. CASE j = i /\ h.from = h.to /\ ~Counts(h, i, l)
  <2>1. Heard(i, l) BY <1>1, <1>3, <1>4, <1>6, <1>8 DEF HeardInv
  <2> QED BY <1>1, <1>3, <1>8, <2>1, StillHeard
<1> QED BY <1>3, <1>4, <1>7, <1>8

\* A limit's actions leave the state it counts from.
LEMMA CappedLeaves ==
    ASSUME TypeOK, NEW i \in Held, NEW l \in Rules(i).limits, NEW e \in Of(i).edges, Caps(l, e)
    PROVE  e.from # e.to
<1>1. WellFormed(Of(i)) /\ Registrable(Of(i), Rules(i)) BY HeldRow
<1>2. PICK f \in Of(i).edges : f.from = l.from /\ f.action = e.action /\ f.to # l.from
    BY <1>1 DEF Registrable, Caps
<1>3. f = e BY <1>1, <1>2 DEF WellFormed, Caps
<1> QED BY <1>2, <1>3

LEMMA TakeHeard ==
    ASSUME TypeOK, Finite, Finite', ChainInv', HeardInv, UNCHANGED deployed,
           escalations \subseteq escalations',
           NEW i \in Held, NEW k \in Keys, NEW e, NEW given,
           Take(i, e, k, given), grants' = given, grants \subseteq given
    PROVE  HeardInv'
<1>1. PICK row, h : /\ NextRevision(i, row, h)
                    /\ h = Row(i, row, k, e.action, e.from) /\ row.state = e.to
    BY TakeRevises
<1>2. /\ h.instance = i /\ h.action = e.action /\ h.from = e.from /\ h.to = e.to
      /\ row.revision = instances[i].revision + 1
    BY <1>1 DEF Row, NextRevision
<1>3. /\ i \in Instances /\ instances'[i] = row /\ row # None
    BY <1>1, NoneAssumption DEF NextRevision, TypeOK, Held
<1>4. e \in Of(i).edges BY DEF Take
<1> SUFFICES ASSUME NEW l \in Rules(i).limits, l.from = row.state,
                    Exhausted(history', grants', i, l)
             PROVE  \/ Heard(i, l)'
                    \/ h.from = h.to /\ ~Counts(h, i, l)
    BY <1>1, RevisesHeard
<1>5. CASE e.from = e.to
  <2>1. ~Caps(l, e) BY <1>4, <1>5, CappedLeaves
  <2> QED BY <1>2, <1>5, <2>1 DEF Counts, Caps
<1>6. CASE e.from # e.to
  <2> DEFINE a == [instance |-> i, revision |-> row.revision, limit |-> l.name]
  <2>1. a \in Arrivals(i, e, row.revision, history', given) BY <1>1, <1>6 DEF Arrivals
  <2>2. escalations' = escalations \cup
            Arrivals(i, e, instances[i].revision + 1, history', given)
    <3>1. [instances[i] EXCEPT !.state = e.to, !.revision = @ + 1].revision
              = instances[i].revision + 1
        BY HeldRow DEF InstanceRows
    <3> QED BY <3>1 DEF Take
  <2>3. a \in escalations' BY <1>2, <2>1, <2>2
  <2>4. Chain(history', i, row) BY <1>3 DEF ChainInv
  <2>5. \A g \in history' : g.instance = i => g.revision <= row.revision BY <2>4 DEF Chain
  <2>6. StoodSince(i, {g \in history : g.revision <= a.revision})'
      BY <2>5 DEF StoodSince, Rows
  <2> QED BY <2>3, <2>6 DEF Heard
<1> QED BY <1>5, <1>6

LEMMA StartHeard ==
    ASSUME TypeOK, Finite, Finite', ChainInv, HeardInv, Starts, UNCHANGED deployed
    PROVE  HeardInv'
<1>0. PICK k \in Requests, w \in Workflows, dependsOn \in SUBSET Held : Start(k, w, dependsOn)
    BY DEF Starts
<1> DEFINE row == [workflow |-> w, state |-> Definition[w].initial, revision |-> 0]
<1>1. PICK i \in Instances :
          /\ instances[i] = None
          /\ instances' = [instances EXCEPT ![i] = row]
          /\ history' = history \cup {Row(i, row, k, "start", None)}
          /\ UNCHANGED <<grants, escalations>>
    BY <1>0 DEF Start
<1> DEFINE h == Row(i, row, k, "start", None)
<1>2. h.instance = i /\ h.from = None BY DEF Row
<1>3. row \in InstanceRows BY DefinitionAssumption DEF InstanceRows, WellFormed
<1>4. history' = history \cup {h} BY <1>1
<1> HIDE DEF h, row
<1> SUFFICES ASSUME NEW j \in Instances, instances'[j] # None, NEW l \in Rules(j)'.limits,
                    l.from = instances'[j].state, Exhausted(history', grants', j, l)
             PROVE  Heard(j, l)'
    BY DEF HeardInv
<1>5. instances'[j] \in InstanceRows BY <1>1, <1>3 DEF TypeOK
<1>6. l \in Limits
  <2>1. Rules(j)' \in Policies[instances'[j].workflow]
      BY <1>5 DEF Rules, deployed, TypeOK, InstanceRows
  <2> QED BY <1>5, <2>1, DefinitionAssumption DEF InstanceRows, Registrable
<1>7. ~Counts(h, j, l) BY <1>2, <1>6, NoneAssumption DEF Counts, Limits
<1>8. Used(history', j, l) = Used(history, j, l) BY <1>4, <1>7, UsedGrows DEF Finite
<1>9. CASE j # i
  <2>1. instances'[j] = instances[j] BY <1>1, <1>9 DEF TypeOK
  <2>2. Exhausted(history, grants, j, l) BY <1>1, <1>8 DEF Exhausted
  <2>3. Rules(j)' = Rules(j) BY <2>1, SameRules
  <2>4. Heard(j, l) BY <2>1, <2>2, <2>3 DEF HeardInv
  <2> QED BY <1>1, <1>2, <1>4, <1>9, <2>1, <2>4, StillHeard
<1>10. CASE j = i
  <2>1. NoRows(history, j) BY <1>1, <1>10 DEF ChainInv
  <2>2. {g \in history : g.instance = j /\ g.from = l.from /\ g.action \in l.actions} = {}
      BY <2>1 DEF NoRows
  <2>3. Used(history, j, l) = 0 BY <2>2, FS_EmptySet DEF Used
  <2>4. Granted(grants', j, l) \in Nat BY CountsTyped DEF Finite
  <2>5. l.max \in Nat /\ l.max > 0 BY <1>6 DEF Limits
  <2> QED BY <1>8, <2>3, <2>4, <2>5 DEF Exhausted
<1> QED BY <1>9, <1>10

\* Work that stands where its rounds are used up by a deployed limit stood there before.
LEMMA DeployHeard ==
    ASSUME TypeOK, HeardInv, NEW w \in Workflows, Deploy(w)
    PROVE  HeardInv'
<1>1. /\ \E p : rules' = [rules EXCEPT ![w] = p]
      /\ inherited' = [inherited EXCEPT ![w] = history]
      /\ UNCHANGED <<instances, history, grants, escalations>>
    BY DEF Deploy
<1> SUFFICES ASSUME NEW j \in Instances, instances[j] # None, NEW l \in Rules(j)'.limits,
                    l.from = instances[j].state, Exhausted(history, grants, j, l)
             PROVE  Heard(j, l)'
    BY <1>1 DEF HeardInv
<1>2. instances[j].workflow \in Workflows BY DEF TypeOK, InstanceRows
<1>3. CASE instances[j].workflow = w
  <2>1. inherited'[instances'[j].workflow] = history BY <1>1, <1>2, <1>3 DEF TypeOK
  <2>2. StoodSince(j, inherited[instances[j].workflow])' BY <1>1, <2>1 DEF StoodSince, Rows
  <2> QED BY <2>2 DEF Heard
<1>4. CASE instances[j].workflow # w
  <2>1. /\ rules'[instances'[j].workflow] = rules[instances[j].workflow]
        /\ inherited'[instances'[j].workflow] = inherited[instances[j].workflow]
      BY <1>1, <1>2, <1>4 DEF TypeOK
  <2>2. l \in Rules(j).limits BY <2>1 DEF Rules
  <2>3. Heard(j, l) BY <2>2 DEF HeardInv
  <2> QED BY <1>1, <2>1, <2>3 DEF Heard, StoodSince, Rows
<1> QED BY <1>3, <1>4

LEMMA StepHeard ==
    TypeOK /\ Finite /\ Finite' /\ ChainInv /\ ChainInv' /\ HeardInv /\ [Next]_vars => HeardInv'
<1> SUFFICES ASSUME TypeOK, Finite, Finite', ChainInv, ChainInv', HeardInv, [Next]_vars
             PROVE  HeardInv'
    OBVIOUS
<1>0. escalations \subseteq escalations' BY AnnouncementsStay
<1>6. CASE \E w \in Workflows : Deploy(w) BY <1>6, DeployHeard
<1> SUFFICES ASSUME UNCHANGED deployed PROVE HeardInv' BY <1>6, StepDeploys
<1>1. CASE Starts BY <1>1, StartHeard
<1>2. CASE Takes
  <2>0. PICK i \in Held, k \in Keys : \E e, given :
            Take(i, e, k, given) /\ grants' = given /\ grants \subseteq given
      BY <1>2 DEF Takes
  <2>1. PICK e, given : Take(i, e, k, given) /\ grants' = given /\ grants \subseteq given BY <2>0
  <2> QED BY <1>0, <2>1, TakeHeard
<1>3. ASSUME UNCHANGED <<instances, history>>, grants \subseteq grants' PROVE HeardInv'
  <2> SUFFICES ASSUME NEW j \in Instances, instances[j] # None, NEW l \in Rules(j).limits,
                      l.from = instances[j].state, Exhausted(history', grants', j, l)
               PROVE  Heard(j, l)'
      BY <1>3 DEF HeardInv, Rules, deployed
  <2>1. Exhausted(history, grants, j, l) BY <1>3, ExhaustedBefore DEF Held
  <2>2. Heard(j, l) BY <2>1 DEF HeardInv
  <2> QED BY <1>0, <1>3, <2>2, StillHeard
<1>4. CASE Plans
  <2>0. PICK k \in Requests, i \in Held :
            \E expected, dependsOn, drop : AddDependencies(k, i, expected, dependsOn, drop)
      BY <1>4 DEF Plans
  <2>1. PICK expected, dependsOn, drop : AddDependencies(k, i, expected, dependsOn, drop)
      BY <2>0
  <2>2. grants' = grants BY <2>1 DEF AddDependencies
  <2>3. CASE UNCHANGED <<instances, history>> BY <1>3, <2>2, <2>3
  <2>4. CASE \E row, h : /\ NextRevision(i, row, h)
                         /\ h.action \in {"add_dependencies", "replan_dependencies"}
    <3>1. PICK row, h : /\ NextRevision(i, row, h)
                        /\ h.action \in {"add_dependencies", "replan_dependencies"}
        BY <2>4
    <3>2. WellFormed(Of(i)) /\ Registrable(Of(i), Rules(i)) BY HeldRow
    <3>3. \A l \in Rules(i).limits : h.action \notin l.actions
        BY <3>1, <3>2 DEF WellFormed, Registrable, Reserved
    <3>4. Moves(instances[i].workflow, h) BY <3>1 DEF NextRevision
    <3>5. h.from = h.to BY <3>1, <3>2, <3>4 DEF Moves, Of, WellFormed, Reserved
    <3> QED BY <1>0, <2>2, <3>1, <3>3, <3>5, RevisesHeard DEF Counts
  <2> QED BY <2>1, <2>3, <2>4, AddDependenciesRevises
<1>5. CASE Keeps BY <1>3, <1>5 DEF Keeps
<1> QED BY <1>1, <1>2, <1>4, <1>5, StepKinds

\* Work that stands where its rounds are used up said so when it arrived there, and has not
\* moved since; or it has stood there since before the limit was deployed (enter of
\* packages/workflows).
THEOREM StopsAreHeard == Spec => []EscalationHeard
<1>1. Init => HeardInv BY DEF Init, HeardInv
<1>2. HeardInv => EscalationHeard BY DEF HeardInv, EscalationHeard, Heard, Held
<1> QED BY <1>1, <1>2, AlwaysTyped, AlwaysChained, StepHeard, PTL DEF Spec

-----------------------------------------------------------------------------
(* Waiting.  The graph has no cycle and the instances that are there are    *)
(* finitely many, each having a row of its first revision in the history,   *)
(* so of any of them one reaches the least and waits for none of the others.*)

\* Of any instances some one waits for none of them.
NoStandstill == \A ids \in SUBSET Held : ids # {} => \E i \in ids : Prerequisites(i) \cap ids = {}

\* Every instance that is there left a row in the history.
LEMMA HeldIsFinite ==
    ASSUME TypeOK, Finite, ChainInv
    PROVE  IsFiniteSet(Held)
<1> DEFINE f == [h \in history |-> h.instance]
           image == {f[h] : h \in history}
<1>1. IsFiniteSet(history) BY DEF Finite
<1>2. f \in [history -> image] OBVIOUS
<1>3. IsFiniteSet(image)
  <2>1. f \in Surjection(history, image) BY <1>2 DEF Surjection
  <2> QED BY <1>1, <2>1, FS_Surjection
<1>4. Held \subseteq image
  <2>1. SUFFICES ASSUME NEW i \in Held PROVE i \in image OBVIOUS
  <2>2. i \in Instances /\ instances[i] # None /\ instances[i] \in InstanceRows
      BY HeldRow DEF Held
  <2>3. Chain(history, i, instances[i]) BY <2>2 DEF ChainInv
  <2>4. 0 \in 0..instances[i].revision BY <2>2, DefinitionAssumption DEF InstanceRows
  <2>5. PICK h \in history : h.instance = i BY <2>3, <2>4 DEF Chain
  <2> QED BY <2>5
<1> QED BY <1>3, <1>4, FS_Subset

\* What a prerequisite reaches, whoever waits for it reaches too, and itself besides.
LEMMA PrerequisiteReachesLess ==
    ASSUME TypeOK, NoCycle(edges), NEW i \in Instances, NEW j \in Prerequisites(i)
    PROVE  /\ j \in Instances
           /\ Reached(edges, Prerequisites(j)) \subseteq Reached(edges, Prerequisites(i))
           /\ j \in Reached(edges, Prerequisites(i))
           /\ j \notin Reached(edges, Prerequisites(j))
<1>1. edges \in Graphs BY DEF TypeOK, Graphs
<1>2. \A k : Prerequisites(k) \in SUBSET Instances BY DEF Prerequisites, Successors, TypeOK
<1> DEFINE far == Reached(edges, Prerequisites(i))
<1>3. far \in SUBSET Instances /\ Prerequisites(i) \subseteq far /\ Closed(edges, far)
    BY <1>1, <1>2, ReachedClosed
<1> HIDE DEF far
<1>4. j \in Instances /\ j \in far BY <1>2, <1>3
<1>5. Prerequisites(j) \subseteq far
    BY <1>3, <1>4 DEF Prerequisites, Successors, Closed
<1>6. Reached(edges, Prerequisites(j)) \subseteq far BY <1>3, <1>5, ReachedLeast
<1>7. j \notin Reached(edges, Prerequisites(j)) BY <1>4 DEF NoCycle, Prerequisites
<1> QED BY <1>4, <1>6, <1>7 DEF far

LEMMA OneWaitsForNone ==
    ASSUME TypeOK, Finite, ChainInv, GraphInv
    PROVE  NoStandstill
<1> SUFFICES ASSUME NEW ids \in SUBSET Held, ids # {},
                    \A i \in ids : Prerequisites(i) \cap ids # {}
             PROVE  FALSE
    BY DEF NoStandstill
<1> DEFINE Far(i) == Reached(edges, Prerequisites(i)) \cap ids
           fars == {Far(i) : i \in ids}
<1>1. IsFiniteSet(ids) BY HeldIsFinite, FS_Subset
<1>2. \A i \in ids : IsFiniteSet(Far(i)) BY <1>1, FS_Subset
<1>3. fars \subseteq FiniteSubsetsOf(ids) /\ fars # {} BY <1>2 DEF FiniteSubsetsOf
<1>4. IsWellFoundedOn(StrictSubsetOrdering(ids), FiniteSubsetsOf(ids))
    BY FS_StrictSubsetOrderingWellFounded
<1>5. PICK least \in fars : \A other \in fars : <<other, least>> \notin StrictSubsetOrdering(ids)
  <2> HIDE DEF fars
  <2> QED BY <1>3, <1>4, WFMin
<1>6. PICK i \in ids : least = Far(i) BY <1>5
<1>7. PICK j \in ids : j \in Prerequisites(i) OBVIOUS
<1>8. i \in Instances /\ NoCycle(edges) BY DEF Held, GraphInv
<1>9. /\ Reached(edges, Prerequisites(j)) \subseteq Reached(edges, Prerequisites(i))
      /\ j \in Reached(edges, Prerequisites(i))
      /\ j \notin Reached(edges, Prerequisites(j))
    BY <1>7, <1>8, PrerequisiteReachesLess
<1>10. Far(j) \subseteq Far(i) /\ Far(j) # Far(i) BY <1>9
<1>11. <<Far(j), Far(i)>> \in StrictSubsetOrdering(ids) BY <1>10 DEF StrictSubsetOrdering
<1> QED BY <1>5, <1>6, <1>11

\* However many callers and providers add, drop and replace dependencies, of any instances some
\* one waits for none of them: work that waits on work never waits in a circle
\* (attachDependencies of packages/workflows).
THEOREM SomeWorkIsNext == Spec => []NoStandstill
BY AlwaysTyped, AlwaysChained, InitGraph, StepGraph, OneWaitsForNone, PTL DEF Spec

-----------------------------------------------------------------------------
(* What no step takes back.                                                 *)

Was(was, now) ==
    /\ now # None
    /\ now.workflow = was.workflow
    /\ now.revision >= was.revision
    /\ now.revision = was.revision \/ was.state \in Definition[was.workflow].terminal => now = was

\* What was recorded stays: rows, grants, announcements and what work rested on; an answered
\* request keeps its answer; an instance keeps its workflow, changes only under a new
\* revision, and not at all once it has ended.
NothingTakenBack ==
    [][/\ history \subseteq history' /\ grants \subseteq grants'
       /\ escalations \subseteq escalations' /\ admitted \subseteq admitted'
       /\ \A k \in Keys : receipts[k] # None => receipts'[k] = receipts[k]
       /\ \A i \in Held : Was(instances[i], instances'[i])]_vars

LEMMA ReceiptsStay ==
    ASSUME TypeOK, [Next]_vars, NEW j \in Keys, receipts[j] # None
    PROVE  receipts'[j] = receipts[j]
<1>1. CASE receipts' = receipts BY <1>1
<1>2. ASSUME NEW k \in Keys, receipts[k] = None, NEW r, receipts' = [receipts EXCEPT ![k] = r]
      PROVE  receipts'[j] = receipts[j]
    BY <1>2 DEF TypeOK
<1>3. ASSUME NEW k \in Requests, Command(k) PROVE receipts'[j] = receipts[j]
  <2>1. k \in Keys /\ Resuming(k) \in Keys BY DEF Keys
  <2>2. ASSUME NEW w, NEW ids, Start(k, w, ids) PROVE receipts'[j] = receipts[j]
    <3>1. receipts[k] = None /\ \E r : receipts' = [receipts EXCEPT ![k] = r]
        BY <2>2 DEF Start, Unanswered
    <3> QED BY <1>2, <2>1, <3>1
  <2>3. ASSUME NEW i, NEW action, NEW expected, Transition(k, i, action, expected)
        PROVE  receipts'[j] = receipts[j]
    <3>1. receipts[k] = None /\ \E r : receipts' = [receipts EXCEPT ![k] = r]
        BY <2>3 DEF Transition, Unanswered
    <3> QED BY <1>2, <2>1, <3>1
  <2>4. ASSUME NEW i, NEW expected, NEW dependsOn, NEW drop,
               AddDependencies(k, i, expected, dependsOn, drop)
        PROVE  receipts'[j] = receipts[j]
    <3>1. receipts[k] = None /\ \E r : receipts' = [receipts EXCEPT ![k] = r]
        BY <2>4 DEF AddDependencies, Unanswered
    <3> QED BY <1>2, <2>1, <3>1
  <2>5. ASSUME NEW i, NEW l, NEW n, ExtendLimit(k, i, l, n) PROVE receipts'[j] = receipts[j]
    <3>1. receipts[k] = None /\ \E a : LET answered == [receipts EXCEPT ![k] = a]
              IN  \/ receipts' = answered
                  \/ /\ receipts[Resuming(k)] = None
                     /\ \E r : receipts' = [answered EXCEPT ![Resuming(k)] = r]
        BY <2>5 DEF ExtendLimit, Resume, Unanswered
    <3>2. j # k BY <3>1
    <3> QED BY <2>1, <3>1, <3>2 DEF TypeOK
  <2> QED BY <1>3, <2>2, <2>3, <2>4, <2>5 DEF Command
<1> QED BY <1>1, <1>3 DEF Next, vars, Replay, ReplacePrerequisites, Deploy

\* The next revision is another one, of an instance that has not ended.
LEMMA RevisesWas ==
    ASSUME TypeOK, NEW i \in Held, NEW row, NEW h, NextRevision(i, row, h), ~Ended(i)
    PROVE  history \subseteq history' /\ \A j \in Held : Was(instances[j], instances'[j])
<1>1. /\ row \in InstanceRows
      /\ instances' = [instances EXCEPT ![i] = row]
      /\ row.workflow = instances[i].workflow
      /\ row.revision = instances[i].revision + 1
      /\ history' = history \cup {h}
    BY DEF NextRevision
<1>2. row # None BY <1>1, NoneAssumption
<1>3. i \in Instances /\ instances[i] \in InstanceRows BY HeldRow
<1>4. instances'[i] = row /\ \A j \in Held : j # i => instances'[j] = instances[j]
    BY <1>1, <1>3 DEF TypeOK, Held
<1>5. \A j \in Held : instances[j] # None /\ instances[j].revision \in Nat
    BY DefinitionAssumption DEF Held, TypeOK, InstanceRows
<1>6. Was(instances[i], row) BY <1>1, <1>2, <1>5 DEF Was, Ended, Of
<1>7. \A j \in Held : j # i => Was(instances[j], instances'[j]) BY <1>4, <1>5 DEF Was
<1> QED BY <1>1, <1>4, <1>6, <1>7

\* Nothing a command recorded is changed or removed by any later one.
THEOREM RecordsStand == Spec => NothingTakenBack
<1> DEFINE Kept == history \subseteq history' /\ \A i \in Held : Was(instances[i], instances'[i])
           Rest == grants \subseteq grants' /\ admitted \subseteq admitted'
           Step == /\ history \subseteq history' /\ grants \subseteq grants'
                   /\ escalations \subseteq escalations' /\ admitted \subseteq admitted'
                   /\ \A k \in Keys : receipts[k] # None => receipts'[k] = receipts[k]
                   /\ \A i \in Held : Was(instances[i], instances'[i])
<1>1. ASSUME TypeOK, [Next]_vars PROVE Step
  <2>0. \A j \in Held : instances[j] # None /\ instances[j].revision \in Nat
      BY <1>1, DefinitionAssumption DEF Held, TypeOK, InstanceRows
  <2>1. ASSUME UNCHANGED <<instances, history>> PROVE Kept BY <2>0, <2>1 DEF Was
  <2>2. ASSUME Starts PROVE Kept /\ Rest
    <3>0. PICK k \in Requests, w \in Workflows, dependsOn \in SUBSET Held : Start(k, w, dependsOn)
        BY <2>2 DEF Starts
    <3>1. PICK i \in Instances : instances[i] = None /\ \E row : instances' = [instances EXCEPT ![i] = row]
        BY <3>0 DEF Start
    <3>2. \A j \in Held : instances'[j] = instances[j] BY <1>1, <3>1 DEF TypeOK, Held
    <3> QED BY <2>0, <3>0, <3>2 DEF Start, Was
  <2>3. ASSUME Takes PROVE Kept /\ Rest
    <3>0. PICK i \in Held, k \in Keys : \E e, given : Take(i, e, k, given) /\ grants' = given
                                                        /\ grants \subseteq given
        BY <2>3 DEF Takes
    <3>1. PICK e, given : Take(i, e, k, given) /\ grants \subseteq grants' BY <3>0
    <3>2. PICK row, h : NextRevision(i, row, h) BY <1>1, <3>1, TakeRevises
    <3>3. e \in Of(i).edges /\ instances[i].state = e.from /\ WellFormed(Of(i))
        BY <1>1, <3>1, TakeWrites, HeldRow
    <3>4. ~Ended(i) BY <3>3 DEF WellFormed, Ended
    <3>5. Kept BY <1>1, <3>2, <3>4, RevisesWas
    <3>6. admitted \subseteq admitted' BY <3>1 DEF Take
    <3> QED BY <3>1, <3>5, <3>6
  <2>4. ASSUME Plans PROVE Kept /\ Rest
    <3>0. PICK k \in Requests, i \in Held :
              \E expected, dependsOn, drop : AddDependencies(k, i, expected, dependsOn, drop)
        BY <2>4 DEF Plans
    <3>1. PICK expected, dependsOn, drop : AddDependencies(k, i, expected, dependsOn, drop)
        BY <3>0
    <3>2. ~Ended(i) /\ UNCHANGED <<grants, admitted>> BY <3>1 DEF AddDependencies
    <3>3. Kept BY <1>1, <2>1, <3>1, <3>2, AddDependenciesRevises, RevisesWas
    <3> QED BY <3>2, <3>3
  <2>5. ASSUME Keeps PROVE Kept /\ Rest BY <2>1, <2>5 DEF Keeps
  <2>6. Kept /\ Rest BY <1>1, <2>2, <2>3, <2>4, <2>5, StepKinds
  <2> QED BY <1>1, <2>6, AnnouncementsStay, ReceiptsStay
<1>2. TypeOK /\ [Next]_vars => [Step]_vars BY <1>1
<1> QED BY <1>2, TypeCorrect, PTL DEF Spec, NothingTakenBack
=============================================================================

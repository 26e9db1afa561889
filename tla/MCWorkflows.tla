----------------------------- MODULE MCWorkflows -----------------------------
(* Small instances of Workflows: the pinned graphs of packages/tasks, with a *)
(* smaller number of rounds, which a deployment may change, and a wave that  *)
(* pauses new tasks.                                                         *)
EXTENDS Workflows, TLC

CONSTANTS r1, r2, r3, r4, r5, r6, r7

Symmetric == Permutations(Instances)

\* Request IDs are interchangeable: each command takes the next unused one.
InOrder ==
    LET ids == <<r1, r2, r3, r4, r5, r6, r7>>
    IN  \A m, n \in DOMAIN ids :
            m < n /\ {ids[m], ids[n]} \subseteq Requests /\ receipts'[ids[n]] # None =>
                receipts'[ids[m]] # None

\* The instances of a workflow of W.
Running(W) == {i \in Instances : instances[i] # None /\ instances[i].workflow \in W}

\* Two families of states in one run: the rounds of a task or a service task, which is alone, and
\* plans of steps and waves, of at most five commands, up to revision 3.
Rounds == {"task", "service"}
Plans == {"step", "wave"}

OneFamily ==
    /\ Running(Rounds) # {} => Cardinality(Running(Workflows)) = 1
    /\ Running(Plans) # {} =>
        /\ receipts[r6] = None
        /\ \A i \in Running(Plans) : instances[i].revision <= 3

\* One deployment, while there is work to find standing.
OneDeployment ==
    rules' # rules => history # {} /\ \A w \in Workflows : inherited[w] = {}

\* Which steps a run takes.
StaysApart == InOrder /\ OneFamily' /\ OneDeployment

\* The definitions of plans cap no edge: what may happen next rests on this alone.  Nor does
\* it rest on the policy of a task while a service task runs alone.
Standing ==
    IF Running(Plans) = {}
    THEN <<instances, history, receipts, grants, edges, escalations, admitted,
           {<<w, rules[w], inherited[w]>> :
               w \in IF Held = {} THEN Workflows ELSE {instances[i].workflow : i \in Held}}>>
    ELSE <<instances, edges, admitted, {k \in Keys : receipts[k] # None}>>

Edge(from, action, to) == [from |-> from, action |-> action, to |-> to]

TaskEdges ==
    {Edge("in_progress", "submit_delivery", "in_review"),
     Edge("in_review", "reissue_review", "in_review"),
     Edge("in_review", "accept", "done"),
     Edge("in_review", "revise", "in_progress"),
     Edge("in_progress", "mark_failed", "failed")}

Task == [initial |-> "in_progress", edges |-> TaskEdges, terminal |-> {"done", "failed"},
         success |-> {"done"}, pauses |-> {}]

ServiceResume == Edge("suspended", "resume", "in_progress")

Service == [initial |-> "in_progress",
            edges |-> {Edge("in_progress", "submit_delivery", "in_review"),
                       Edge("in_review", "accept", "done"),
                       Edge("in_review", "revise", "in_progress"),
                       Edge("in_progress", "mark_failed", "suspended"),
                       Edge("in_review", "revise_suspended", "suspended"),
                       ServiceResume},
            terminal |-> {"done"}, success |-> {"done"}, pauses |-> {}]

Wave == [initial |-> "open", edges |-> {Edge("open", "close", "closed")}, terminal |-> {"closed"},
         success |-> {}, pauses |-> {"step"}]

\* A step of a plan: what the waiting on others needs of a task.
Step == [initial |-> "in_progress",
         edges |-> {Edge("in_progress", "submit_delivery", "in_review"),
                    Edge("in_review", "accept", "done"),
                    Edge("in_progress", "mark_failed", "failed")},
         terminal |-> {"done", "failed"}, success |-> {"done"}, pauses |-> {}]

Named == Reserved \cup
    {"in_progress", "in_review", "suspended", "done", "failed", "open", "closed",
     "submit_delivery", "reissue_review", "accept", "revise", "revise_suspended", "mark_failed",
     "resume", "close", "review_rounds"}

Registered == [task |-> Task, service |-> Service, wave |-> Wave, step |-> Step]

Guarded == {Edge("in_progress", "submit_delivery", "in_review")}

\* The policy of a task that allows so many rounds, and of a service task.
TaskPolicy(max) ==
    [guarded |-> Guarded, resumes |-> {},
     limits |-> {[name |-> "review_rounds", from |-> "in_review", actions |-> {"revise"},
                  max |-> max]}]

ServicePolicy(max) ==
    [guarded |-> Guarded, resumes |-> {ServiceResume},
     limits |-> {[name |-> "review_rounds", from |-> "in_progress",
                  actions |-> {"submit_delivery", "mark_failed"}, max |-> max]}]

Deployable ==
    [task |-> {TaskPolicy(1), TaskPolicy(2)}, service |-> {ServicePolicy(1)},
     wave |-> {[guarded |-> {}, resumes |-> {}, limits |-> {}]},
     step |-> {[guarded |-> Guarded, resumes |-> {}, limits |-> {}]}]
=============================================================================

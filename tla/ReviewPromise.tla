---------------------------- MODULE ReviewPromise ----------------------------
(***************************************************************************)
(* What Merv promises of the judgement of one task: each delivery is       *)
(* judged at most once, by somebody who had no hand in it and who never    *)
(* lost the right to judge while holding it.  Work is accepted only by the *)
(* judge a lease placed before the delivered code, or by an owner who says *)
(* so.  WorkLeases implements it.                                          *)
(***************************************************************************)
CONSTANTS
    Judges,             \* everybody who may judge
    Nobody              \* no judge

VARIABLES
    stage,              \* working, waiting, claimed, passed, rejected or ended
    judge,              \* who holds the delivery, or Nobody
    means,              \* how the judge holds it: lease, hand, owner, or none
    fit,                \* the judge may still judge
    barred              \* those who had a hand in the delivery

claim == <<judge, means, fit>>
vars == <<stage, claim, barred>>

Free == judge = Nobody /\ means = "none" /\ fit = FALSE

Init == stage = "working" /\ Free /\ barred = {}

Deliver ==
    /\ stage = "working" /\ stage' = "waiting"
    /\ barred' \in SUBSET Judges
    /\ UNCHANGED claim

\* Whoever takes it up starts fit, whatever became of a claim of theirs before.
Claim ==
    /\ stage = "waiting" /\ stage' = "claimed"
    /\ means' \in {"lease", "hand", "owner"}
    /\ judge' \in Judges
    /\ judge' \in barred => means' = "owner"
    /\ fit' = TRUE
    /\ UNCHANGED barred

\* What a judge lost does not return.
Lose ==
    /\ stage = "claimed"
    /\ fit' = FALSE
    /\ UNCHANGED <<stage, judge, means, barred>>

GiveBack ==
    /\ stage = "claimed" /\ stage' = "waiting"
    /\ Free'
    /\ UNCHANGED barred

Judge ==
    /\ stage = "claimed" /\ fit
    /\ stage' \in {"working", "rejected", "passed"}
    /\ stage' = "passed" => means # "hand"
    /\ Free'
    /\ barred' = {}

\* The task is given up, whatever judgement it waits for.
Withdraw ==
    /\ stage \in {"working", "waiting", "claimed"} /\ stage' = "ended"
    /\ Free'
    /\ barred' = {}

Next == Deliver \/ Claim \/ Lose \/ GiveBack \/ Judge \/ Withdraw

Spec == Init /\ [][Next]_vars
=============================================================================

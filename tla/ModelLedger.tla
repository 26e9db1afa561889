------------------------------ MODULE ModelLedger ------------------------------
(***************************************************************************)
(* Fleet's model relay and its token ledgers (packages/fleet,              *)
(* codex-relay.ts, model-ledger.ts, model-relay.ts): a session on a rented *)
(* machine calls the model through Main.  A call takes its session's lane, *)
(* is charged with the most it may cost to its person's day and to its     *)
(* grant's own budget in one transaction, goes out, and is settled later   *)
(* by a callback of its own, on the day it was charged to.  A refusal at   *)
(* the day's ceiling is kept for the person and for the visit.             *)
(*                                                                         *)
(* Calls are numbered as they come.  What a call may cost is an estimate;  *)
(* the provider may ask for more.  What it asks for (bill) is chosen when  *)
(* the call goes out and known to the relay only once it is reported.      *)
(* Whether a grant is live is asked again and again and left open: a call  *)
(* may be refused or cut off at any moment.                                *)
(***************************************************************************)
EXTENDS Integers, FiniteSets

CONSTANTS
    Grants,         \* sessions of rented machines, each with its grant of the model
    Persons,
    PersonOf,       \* whose day a grant's calls count toward
    BudgetOf,       \* a grant's own tokenBudget, or None
    Fallback,       \* dailyTokensPerPerson of the deployment
    Limits,         \* the daily limits people and the administrator may set
    MaxEstimate,    \* bound: tokens a call is charged before it goes out
    Excess,         \* bound: tokens by which an estimate may be too low
    MaxRequests,    \* maxRequestsPerGrant
    MaxCalls,       \* bound: calls
    MaxDays,        \* bound: UTC days
    MaxChanges,     \* bound: changes of a limit
    None

ASSUME LedgerAssumption ==
    /\ PersonOf \in [Grants -> Persons] /\ BudgetOf \in [Grants -> Nat \cup {None}]
    /\ Fallback \in Nat /\ Limits \subseteq Nat /\ MaxRequests \in Nat
    /\ MaxEstimate \in Nat /\ Excess \in Nat
    /\ MaxCalls \in Nat /\ MaxDays \in Nat \ {0} /\ MaxChanges \in Nat
    /\ None \notin Nat \cup Grants

Calls == 1..MaxCalls
Days == 1..MaxDays
Top == MaxEstimate + Excess

VARIABLES
    today,          \* the UTC day
    caps, own,      \* fleet_model_caps, fleet_model_limits
    changes,        \* how many changes of a limit there were
    usage,          \* fleet_model_usage, by person and day
    grantTokens,    \* fleet_grant_tokens
    blockers,       \* fleet_model_blockers: the largest refusal of a person and day, 0 for none
    faults,         \* fleet_relay_faults of a grant: "fault", or "spent" for a refusal
    lanes, made,    \* the relay's memory: lanes taken, requests counted of each grant
    call,           \* each call: its locals, and what is still due of it
    ceiling,        \* history: the limit a person's day was last charged under
    standing,       \* history: where the refusal of a call must still be said
    sends           \* history: calls of a grant that went out since the relay started

ledgers == <<usage, grantTokens, ceiling>>
said == <<blockers, faults, standing>>
settings == <<caps, own, changes>>
memory == <<lanes, made, sends>>
vars == <<ledgers, said, settings, memory, today, call>>

NewCall == [at |-> "unused", grant |-> None, day |-> 0, most |-> 0, seen |-> 0,
            bill |-> 0, kept |-> 0, due |-> None, note |-> FALSE]

Init ==
    /\ today = 1
    /\ caps = [p \in Persons |-> None] /\ own = [p \in Persons |-> None] /\ changes = 0
    /\ usage = [r \in Persons \X Days |-> 0]
    /\ grantTokens = [g \in Grants |-> 0]
    /\ blockers = [r \in Persons \X Days |-> 0]
    /\ faults = [g \in Grants |-> None]
    /\ lanes = {} /\ made = [g \in Grants |-> 0]
    /\ call = [c \in Calls |-> NewCall]
    /\ ceiling = [r \in Persons \X Days |-> 0]
    /\ standing = [c \in Calls |-> {}]
    /\ sends = [g \in Grants |-> 0]

Larger(a, b) == IF a >= b THEN a ELSE b
Smaller(a, b) == IF a <= b THEN a ELSE b

GrantOf(c) == call[c].grant
RowOf(c) == <<PersonOf[GrantOf(c)], call[c].day>>
HasBudget(g) == BudgetOf[g] # None

-----------------------------------------------------------------------------
(* Limits and ledgers.                                                     *)

\* The administrator's cap, else the deployment's; a person's own limit only lowers it.
CapOf(p) == IF caps[p] # None THEN caps[p] ELSE Fallback
Limit(p) == IF own[p] # None THEN Smaller(own[p], CapOf(p)) ELSE CapOf(p)

\* tokenLedger.settle: corrects a total, never below zero.
Corrected(tokens, delta) == Larger(0, tokens + delta)

Funded(c) == usage[RowOf(c)] + call[c].most <= Limit(RowOf(c)[1])

InBudget(c) ==
    HasBudget(GrantOf(c)) => grantTokens[GrantOf(c)] + call[c].most <= BudgetOf[GrantOf(c)]

\* What the charge of a call adds to both ledgers, in one transaction.
Charge(c) ==
    /\ usage' = [usage EXCEPT ![RowOf(c)] = @ + call[c].most]
    /\ grantTokens' = IF HasBudget(GrantOf(c))
                      THEN [grantTokens EXCEPT ![GrantOf(c)] = @ + call[c].most]
                      ELSE grantTokens
    /\ ceiling' = [ceiling EXCEPT ![RowOf(c)] = Limit(RowOf(c)[1])]

\* A change of a limit lifts today's refusal of the person.
Lifted(p) ==
    /\ changes < MaxChanges /\ changes' = changes + 1
    /\ blockers' = [blockers EXCEPT ![<<p, today>>] = 0]
    /\ standing' = [c \in Calls |-> IF standing[c] # {} /\ RowOf(c) = <<p, today>>
                                    THEN standing[c] \ {"day"} ELSE standing[c]]
    /\ UNCHANGED <<ledgers, memory, today, call, faults>>

SetTokenCap(p, tokens) ==
    /\ caps' = [caps EXCEPT ![p] = tokens]
    /\ Lifted(p)
    /\ UNCHANGED own

SetDailyTokens(p, tokens) ==
    /\ tokens <= CapOf(p)
    /\ own' = [own EXCEPT ![p] = tokens]
    /\ Lifted(p)
    /\ UNCHANGED caps

-----------------------------------------------------------------------------
(* A call of the relay, up to its charge.                                  *)

\* mutant: a call that ends with its answer keeps the lane
Mutant_Freed(c) == IF call[c].at = "reported" THEN lanes ELSE lanes \ {GrantOf(c)}

\* The lanes after the call's finally.
Freed(c) == lanes \ {GrantOf(c)}

\* The end of a call: what it is to be settled to, if anything, and whether its failure is to
\* be noted as the relay's, both by callbacks that run later.
Leave(c, due, note) ==
    /\ call' = [call EXCEPT ![c] = [@ EXCEPT !.at = "ended", !.due = due, !.note = note]]
    /\ lanes' = Freed(c)
    /\ UNCHANGED <<made, sends>>

\* mutant: the lane is not looked at
Mutant_MayEnter(g) == TRUE

MayEnter(g) == g \notin lanes

\* A call turned away before this took no lane, gives none back and is no step.
Admit(c, g) ==
    /\ call[c].at = "unused" /\ \A b \in 1..(c - 1) : call[b].at # "unused"
    /\ MayEnter(g)
    /\ call' = [call EXCEPT ![c] = [@ EXCEPT !.at = "admitted", !.grant = g]]
    /\ lanes' = lanes \cup {g}
    /\ UNCHANGED <<ledgers, said, settings, made, sends, today>>

\* The request was read: its count is looked up, its most estimated and its day taken, all
\* before the transaction that charges it has the writer lock.
Prepare(c, most) ==
    /\ call[c].at = "admitted" /\ made[GrantOf(c)] < MaxRequests
    /\ call' = [call EXCEPT ![c] = [@ EXCEPT !.at = "reserving", !.day = today,
                                             !.most = most, !.seen = made[GrantOf(c)]]]
    /\ UNCHANGED <<ledgers, said, settings, memory, today>>

TooMany(c) ==
    /\ call[c].at = "admitted" /\ made[GrantOf(c)] >= MaxRequests
    /\ Leave(c, None, TRUE)
    /\ UNCHANGED <<ledgers, said, settings, today>>

\* The day cannot fund the call.  If the answer of the transaction is lost, the failure is
\* taken for the relay's.
RefuseDay(c, note) ==
    /\ call[c].at = "reserving" /\ ~Funded(c)
    /\ blockers' = [blockers EXCEPT ![RowOf(c)] = Larger(@, call[c].most)]
    /\ faults' = [faults EXCEPT ![GrantOf(c)] = "spent"]
    /\ standing' = [standing EXCEPT ![c] = {"day", "visit"}]
    /\ Leave(c, None, note)
    /\ UNCHANGED <<ledgers, settings, today>>

\* The grant's budget cannot: the charge to the day is returned in the same transaction.
RefuseBudget(c, note) ==
    /\ call[c].at = "reserving" /\ Funded(c) /\ ~InBudget(c)
    /\ usage' = [usage EXCEPT ![RowOf(c)] = Corrected(@ + call[c].most, -call[c].most)]
    /\ Leave(c, None, note)
    /\ UNCHANGED <<grantTokens, ceiling, said, settings, today>>

Reserve(c) ==
    /\ call[c].at = "reserving" /\ Funded(c) /\ InBudget(c)
    /\ Charge(c)
    /\ call' = [call EXCEPT ![c] = [@ EXCEPT !.at = "charged", !.kept = call[c].most]]
    /\ UNCHANGED <<said, settings, memory, today>>

\* The charge was committed and its answer lost: the relay takes the call for uncharged.
AnswerLost(c, note) ==
    /\ call[c].at = "reserving" /\ Funded(c) /\ InBudget(c)
    /\ Charge(c)
    /\ call' = [call EXCEPT ![c] = [@ EXCEPT !.at = "ended", !.note = note, !.kept = call[c].most]]
    /\ lanes' = Freed(c)
    /\ UNCHANGED <<made, sends, said, settings, today>>

ReserveFails(c, note) ==
    /\ call[c].at = "reserving"
    /\ Leave(c, None, note)
    /\ UNCHANGED <<ledgers, said, settings, today>>

-----------------------------------------------------------------------------
(* A charged call.                                                         *)

\* Counted as read before the charge.
Count(c) ==
    /\ call[c].at = "charged"
    /\ call' = [call EXCEPT ![c].at = "counted"]
    /\ made' = [made EXCEPT ![GrantOf(c)] = call[c].seen + 1]
    /\ UNCHANGED <<ledgers, said, settings, lanes, sends, today>>

\* The last authority read passed: the call goes out, and the provider will ask for bill.
Send(c, bill) ==
    /\ call[c].at = "counted"
    /\ bill <= call[c].most + Excess
    /\ call' = [call EXCEPT ![c] = [@ EXCEPT !.at = "sent", !.bill = bill]]
    /\ sends' = [sends EXCEPT ![GrantOf(c)] = @ + 1]
    /\ UNCHANGED <<ledgers, said, settings, lanes, made, today>>

\* The provider answered with an error status, or streamed a failure without usage: it asks
\* for nothing, and the charge is to be returned.
FailUnbilled(c, note) ==
    /\ call[c].at = "sent"
    /\ call' = [call EXCEPT ![c] = [@ EXCEPT !.at = "ended", !.bill = 0, !.due = 0, !.note = note]]
    /\ lanes' = Freed(c)
    /\ UNCHANGED <<made, sends, ledgers, said, settings, today>>

\* The terminal frame and its usage; the rest of the stream is still to be written.
Report(c) ==
    /\ call[c].at = "sent"
    /\ call' = [call EXCEPT ![c] = [@ EXCEPT !.at = "reported", !.due = call[c].bill]]
    /\ UNCHANGED <<ledgers, said, settings, memory, today>>

\* mutant: a call cut off before its answer is returned too
Mutant_DueAtStop(c) ==
    IF call[c].at \in {"charged", "counted", "sent"} THEN 0 ELSE call[c].due

\* One cut off before it goes out is returned; one that went out keeps its charge, or what it reported.
DueAtStop(c) == IF call[c].at \in {"charged", "counted"} THEN 0 ELSE call[c].due

\* The stream ends, the client hangs up, the time is over, the authority withdraws: at any
\* moment but inside the reservation, which is awaited.
Stop(c, note) ==
    /\ call[c].at \notin {"unused", "reserving", "ended"}
    /\ Leave(c, DueAtStop(c), note)
    /\ UNCHANGED <<ledgers, said, settings, today>>

-----------------------------------------------------------------------------
(* The callbacks, which run after whatever else.                           *)

\* mutant: settles the day on which it runs
Mutant_SettledRow(c) == <<RowOf(c)[1], today>>

\* Even past midnight, the day the call was charged to.
SettledRow(c) == RowOf(c)

Settle(c) ==
    /\ call[c].due # None
    /\ LET delta == call[c].due - call[c].most
       IN /\ usage' = [usage EXCEPT ![SettledRow(c)] = Corrected(@, delta)]
          /\ grantTokens' = IF HasBudget(GrantOf(c))
                            THEN [grantTokens EXCEPT ![GrantOf(c)] = Corrected(@, delta)]
                            ELSE grantTokens
    /\ call' = [call EXCEPT ![c] = [@ EXCEPT !.due = None, !.kept = call[c].due]]
    /\ UNCHANGED <<ceiling, said, settings, memory, today>>

\* mutant: the visit's latest fault, whatever it was
Mutant_Noted(old) == "fault"

\* A later fault of the visit does not replace what is said of a refusal.
Noted(old) == IF old = "spent" THEN old ELSE "fault"

NoteFault(c) ==
    /\ call[c].note
    /\ faults' = [faults EXCEPT ![GrantOf(c)] = Noted(@)]
    /\ call' = [call EXCEPT ![c].note = FALSE]
    /\ UNCHANGED <<ledgers, blockers, standing, settings, memory, today>>

\* A callback that fails is logged and not tried again.
CallbackFails(c) ==
    /\ \/ call[c].due # None /\ call' = [call EXCEPT ![c].due = None]
       \/ call[c].note /\ call' = [call EXCEPT ![c].note = FALSE]
    /\ UNCHANGED <<ledgers, said, settings, memory, today>>

-----------------------------------------------------------------------------
(* What goes on around the calls.                                          *)

Midnight ==
    /\ today < MaxDays /\ today' = today + 1
    /\ UNCHANGED <<ledgers, said, settings, memory, call>>

\* The calls in flight and the callbacks that have not run die with the process.
Lost(c) ==
    IF call[c].at = "unused" THEN call[c]
    ELSE [call[c] EXCEPT !.at = "ended", !.due = None, !.note = FALSE]

\* Main starts again, and lets go the faults that are past their window.
Restart(past) ==
    /\ call' = [c \in Calls |-> Lost(c)]
    /\ lanes' = {} /\ made' = [g \in Grants |-> 0] /\ sends' = [g \in Grants |-> 0]
    /\ faults' = [g \in Grants |-> IF g \in past THEN None ELSE faults[g]]
    /\ standing' = [c \in Calls |-> IF GrantOf(c) \in past THEN standing[c] \ {"visit"}
                                    ELSE standing[c]]
    /\ UNCHANGED <<ledgers, blockers, settings, today>>

-----------------------------------------------------------------------------

Reserving(c) ==
    \/ Reserve(c)
    \/ \E note \in BOOLEAN :
        RefuseDay(c, note) \/ RefuseBudget(c, note) \/ AnswerLost(c, note) \/ ReserveFails(c, note)

Next ==
    \/ \E c \in Calls :
        \/ \E g \in Grants : Admit(c, g)
        \/ TooMany(c)
        \/ \E most \in 1..MaxEstimate : Prepare(c, most)
        \/ Reserving(c)
        \/ Count(c)
        \/ \E bill \in 0..Top : Send(c, bill)
        \/ Report(c)
        \/ \E note \in BOOLEAN : FailUnbilled(c, note) \/ Stop(c, note)
        \/ Settle(c) \/ NoteFault(c) \/ CallbackFails(c)
    \/ \E p \in Persons :
        \/ \E tokens \in Limits \cup {None} : SetTokenCap(p, tokens)
        \/ \E tokens \in Limits : SetDailyTokens(p, tokens)
    \/ Midnight
    \/ \E past \in SUBSET Grants : Restart(past)

Spec == Init /\ [][Next]_vars

\* The transaction of a reservation ends, and the total timeout of a call ends it if nothing else does.
FairSpec ==
    /\ Spec
    /\ \A c \in Calls : WF_vars(Reserving(c)) /\ WF_vars(\E note \in BOOLEAN : Stop(c, note))

-----------------------------------------------------------------------------
(* Properties.                                                             *)

\* Of each call, what the ledgers hold of it; what it costs, up to its estimate.
Kept == [c \in Calls |-> call[c].kept]
Cost == [c \in Calls |-> Smaller(call[c].bill, call[c].most)]

\* The sum of amount[c] over the calls of S, counted token by token.
Tokens(S, amount) == Cardinality({t \in S \X (1..Top) : t[2] <= amount[t[1]]})

ChargedTo(p, d) == {c \in Calls : GrantOf(c) # None /\ RowOf(c) = <<p, d>>}
CallsOf(g) == {c \in Calls : GrantOf(c) = g}

\* Types of the variables.
CallRecords ==
    [at : {"unused", "admitted", "reserving", "charged", "counted", "sent", "reported", "ended"},
     grant : Grants \cup {None}, day : 0..MaxDays, most : 0..MaxEstimate, seen : 0..MaxRequests,
     bill : 0..Top, kept : 0..Top, due : (0..Top) \cup {None}, note : BOOLEAN]

TypeOK ==
    /\ today \in Days
    /\ caps \in [Persons -> Nat \cup {None}] /\ own \in [Persons -> Nat \cup {None}]
    /\ changes \in Nat
    /\ usage \in [Persons \X Days -> Nat] /\ grantTokens \in [Grants -> Nat]
    /\ blockers \in [Persons \X Days -> Nat]
    /\ faults \in [Grants -> {None, "fault", "spent"}]
    /\ lanes \subseteq Grants /\ made \in [Grants -> Nat]
    /\ call \in [Calls -> CallRecords]
    /\ ceiling \in [Persons \X Days -> Nat]
    /\ standing \in [Calls -> SUBSET {"day", "visit"}]
    /\ sends \in [Grants -> Nat]

\* Both ledgers always hold, of each call, its charge, or what it was settled to, on the day it
\* was charged and on its grant, whatever midnight, restart or lost callback came between.
Accounted ==
    /\ \A p \in Persons, d \in Days : usage[<<p, d>>] = Tokens(ChargedTo(p, d), Kept)
    /\ \A g \in Grants : HasBudget(g) => grantTokens[g] = Tokens(CallsOf(g), Kept)

\* What the provider asks for a person's calls of a day, each counted up to its estimate, is
\* within the limit the day was last charged under, and a grant's calls are within its budget:
\* no refund, no call in flight and no call cut off makes room for more than there is.
NeverOverspent ==
    /\ \A p \in Persons, d \in Days : Tokens(ChargedTo(p, d), Cost) <= ceiling[<<p, d>>]
    /\ \A g \in Grants : HasBudget(g) => Tokens(CallsOf(g), Cost) <= BudgetOf[g]

\* A refusal holds its person's day until a limit is changed, though refunds free tokens, and
\* is said of its visit until it is let go, though other faults of the visit are noted late; and
\* a day is held only by a refusal.
RefusalStands ==
    /\ \A c \in Calls :
        /\ "day" \in standing[c] => blockers[RowOf(c)] >= call[c].most
        /\ "visit" \in standing[c] => faults[GrantOf(c)] = "spent"
    /\ \A r \in Persons \X Days :
        blockers[r] > 0 => \E c \in Calls : "day" \in standing[c] /\ RowOf(c) = r

\* A call that was admitted and has not ended.
Admitted(c) == call[c].at \notin {"unused", "ended"}

\* A grant has one call in flight, and so the count that is read before a charge and written after
\* it misses none: no more calls go out than are allowed.
CallsBounded ==
    /\ \A b, c \in Calls : Admitted(b) /\ Admitted(c) /\ GrantOf(b) = GrantOf(c) => b = c
    /\ \A g \in Grants : sends[g] <= MaxRequests

\* A lane that is taken is given back.
LanesFree == \A g \in Grants : (g \in lanes) ~> (g \notin lanes)
=============================================================================

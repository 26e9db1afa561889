--------------------------- MODULE ModelLedgerProofs ---------------------------
(***************************************************************************)
(* What holds of the model relay and its ledgers for any number of calls,  *)
(* people, grants, budgets, limits, days and changes: both ledgers are     *)
(* exact, no limit and no budget is overspent, refusals stand, and a       *)
(* grant's calls are counted.                                              *)
(***************************************************************************)
EXTENDS ModelLedger, FiniteSetTheorems, TLAPS

-----------------------------------------------------------------------------
(* Sums of tokens.                                                         *)

Amounts == [Calls -> 0..Top]

\* What call c adds to the sum over S.
Part(S, amount, c) == IF c \in S THEN amount[c] ELSE 0

TokensOf(S, amount) == {t \in S \X (1..Top) : t[2] <= amount[t[1]]}

\* A sum is a number.
LEMMA TokensFinite ==
    ASSUME NEW S \in SUBSET Calls, NEW amount
    PROVE  /\ IsFiniteSet(TokensOf(S, amount))
           /\ Tokens(S, amount) \in Nat
           /\ Tokens(S, amount) = Cardinality(TokensOf(S, amount))
<1>1. IsFiniteSet(S) /\ IsFiniteSet(1..Top)
    <2>1. IsFiniteSet(Calls) /\ IsFiniteSet(1..Top)
        BY LedgerAssumption, FS_Interval DEF Calls, Top
    <2> QED BY <2>1, FS_Subset
<1>2. IsFiniteSet(S \X (1..Top)) BY <1>1, FS_Product
<1>3. IsFiniteSet(TokensOf(S, amount)) BY <1>2, FS_Subset DEF TokensOf
<1> QED BY <1>3, FS_CardinalityType DEF TokensOf, Tokens

\* The tokens of one call.
LEMMA OneCall ==
    ASSUME NEW c, NEW n \in Nat
    PROVE  IsFiniteSet({c} \X (1..n)) /\ Cardinality({c} \X (1..n)) = n
<1> DEFINE f == [i \in 1..n |-> <<c, i>>]
<1>1. f \in Bijection(1..n, {c} \X (1..n))
    <2>1. f \in [1..n -> {c} \X (1..n)] OBVIOUS
    <2>2. \A i, j \in 1..n : f[i] = f[j] => i = j OBVIOUS
    <2>3. \A t \in {c} \X (1..n) : \E i \in 1..n : f[i] = t
        <3> SUFFICES ASSUME NEW t \in {c} \X (1..n) PROVE \E i \in 1..n : f[i] = t
            OBVIOUS
        <3>1. t[2] \in 1..n /\ t = <<c, t[2]>> OBVIOUS
        <3>2. f[t[2]] = t BY <3>1
        <3> QED BY <3>1, <3>2
    <2> QED BY <2>1, <2>2, <2>3 DEF Bijection, Injection, IsInjective, Surjection
<1>2. ExistsBijection(1..n, {c} \X (1..n)) BY <1>1 DEF ExistsBijection
<1>3. IsFiniteSet(1..n) /\ Cardinality(1..n) = n BY FS_Interval
<1> QED BY <1>2, <1>3, FS_Bijection

\* A sum is the part of one call and the sum of the others.
LEMMA TokensApart ==
    ASSUME NEW S \in SUBSET Calls, NEW amount \in Amounts, NEW c \in Calls
    PROVE  Tokens(S, amount) = Tokens(S \ {c}, amount) + Part(S, amount, c)
<1> DEFINE R == TokensOf(S \ {c}, amount)
           A == {c} \X (1..amount[c])
<1>0. amount[c] \in 0..Top /\ amount[c] \in Nat /\ Top \in Nat BY LedgerAssumption DEF Amounts,
    Top
<1>1. CASE c \in S
    <2>1. TokensOf(S, amount) = R \cup A BY <1>0, <1>1 DEF TokensOf
    <2>2. R \cap A = {} BY DEF TokensOf
    <2>3. IsFiniteSet(R) /\ IsFiniteSet(A) /\ Cardinality(A) = amount[c]
        <3>1. IsFiniteSet(R) BY TokensFinite
        <3>2. IsFiniteSet(A) /\ Cardinality(A) = amount[c] BY <1>0, OneCall
        <3> QED BY <3>1, <3>2
    <2>8. S \ {c} \in SUBSET Calls OBVIOUS
    <2>9. Cardinality(R \cup A) = Cardinality(R) + Cardinality(A) - Cardinality(R \cap A)
        <3> HIDE DEF R, A
        <3> QED BY <2>3, FS_Union
    <2>4. Cardinality(R \cup A) = Cardinality(R) + Cardinality(A) - Cardinality({})
        BY <2>2, <2>9
    <2>5. Cardinality(R) \in Nat BY <2>3, FS_CardinalityType
    <2>6. Cardinality({}) = 0 BY FS_EmptySet
    <2>7. Cardinality(R) = Tokens(S \ {c}, amount) /\ Tokens(S, amount) = Cardinality(R \cup A)
        BY <2>1, TokensFinite
    <2> QED BY <2>3, <2>4, <2>5, <2>6, <2>7, <1>0, <1>1 DEF Part
<1>2. CASE c \notin S
    <2>1. S \ {c} = S BY <1>2
    <2> QED BY <1>2, <2>1, TokensFinite DEF Part
<1> QED BY <1>1, <1>2

\* Two sums that differ in one call only.
LEMMA TokensChange ==
    ASSUME NEW S \in SUBSET Calls, NEW T \in SUBSET Calls, NEW c \in Calls,
           NEW a \in Amounts, NEW b \in Amounts,
           S \ {c} = T \ {c}, \A x \in Calls \ {c} : a[x] = b[x]
    PROVE  /\ Tokens(T, b) = Tokens(S, a) - Part(S, a, c) + Part(T, b, c)
           /\ Tokens(S, a) \in Nat /\ Tokens(T, b) \in Nat
           /\ Part(S, a, c) \in Nat /\ Part(T, b, c) \in Nat
           /\ Part(S, a, c) <= Tokens(S, a)
<1>1. TokensOf(S \ {c}, a) = TokensOf(T \ {c}, b) BY DEF TokensOf
<1>2. Tokens(S \ {c}, a) = Tokens(T \ {c}, b) /\ Tokens(S \ {c}, a) \in Nat BY <1>1, TokensFinite
<1>3. Part(S, a, c) \in Nat /\ Part(T, b, c) \in Nat
    BY LedgerAssumption DEF Part, Amounts, Top
<1>4. /\ Tokens(S, a) = Tokens(S \ {c}, a) + Part(S, a, c)
      /\ Tokens(T, b) = Tokens(T \ {c}, b) + Part(T, b, c)
    BY TokensApart
<1> QED BY <1>2, <1>3, <1>4

\* Smaller amounts have the smaller sum.
LEMMA TokensMonotone ==
    ASSUME NEW S \in SUBSET Calls, NEW a \in Amounts, NEW b \in Amounts,
           \A c \in S : a[c] <= b[c]
    PROVE  Tokens(S, a) <= Tokens(S, b)
<1>1. TokensOf(S, a) \subseteq TokensOf(S, b)
    <2> SUFFICES ASSUME NEW t \in S \X (1..Top), t[2] <= a[t[1]] PROVE t[2] <= b[t[1]]
        BY DEF TokensOf
    <2>1. t[1] \in S /\ t[1] \in Calls /\ t[2] \in Nat BY LedgerAssumption DEF Top
    <2>2. a[t[1]] \in Nat /\ b[t[1]] \in Nat /\ a[t[1]] <= b[t[1]]
        BY <2>1, LedgerAssumption DEF Amounts, Top
    <2> QED BY <2>1, <2>2
<1>2. Cardinality(TokensOf(S, a)) <= Cardinality(TokensOf(S, b))
    BY <1>1, TokensFinite, FS_Subset
<1> QED BY <1>2, TokensFinite

-----------------------------------------------------------------------------
(* The inductive invariant.                                                *)

\* Of each call, what counts toward the limits: what the ledgers hold, up to its estimate.
Capped == [c \in Calls |-> Smaller(call[c].kept, call[c].most)]

\* How far a call is, and what it holds and costs there.
CallFact(c) ==
    /\ call[c].at = "unused" => call[c] = NewCall /\ standing[c] = {}
    /\ call[c].at # "unused" => GrantOf(c) \in Grants
    /\ call[c].at \notin {"unused", "admitted", "ended"} => call[c].day \in Days
    /\ call[c].at \in {"admitted", "reserving"} => call[c].kept = 0
    /\ call[c].at \in {"admitted", "reserving", "charged", "counted"} => call[c].bill = 0
    /\ call[c].at \in {"admitted", "reserving", "charged", "counted", "sent"} =>
        call[c].due = None
    /\ call[c].at \in {"charged", "counted", "sent"} => call[c].kept = call[c].most
    /\ call[c].due # None =>
        call[c].due = call[c].bill /\ call[c].kept = call[c].most /\ call[c].day \in Days
    /\ Smaller(call[c].bill, call[c].most) <= call[c].kept
    /\ call[c].kept > 0 => call[c].day \in Days
    /\ standing[c] # {} => call[c].at = "ended" /\ call[c].day \in Days

CallFacts == \A c \in Calls : CallFact(c)

\* A call that was admitted has its grant's lane to itself.
LaneFacts ==
    /\ \A c \in Calls : Admitted(c) => GrantOf(c) \in lanes
    /\ \A b, c \in Calls : Admitted(b) /\ Admitted(c) /\ GrantOf(b) = GrantOf(c) => b = c

\* The count of a grant covers the calls that went out and, once counted, the one in its lane;
\* what that one read of it is still true.
CountFacts ==
    /\ \A g \in Grants : sends[g] <= made[g] /\ made[g] <= MaxRequests
    /\ \A c \in Calls :
        /\ call[c].at \in {"reserving", "charged"} =>
            call[c].seen = made[GrantOf(c)] /\ call[c].seen < MaxRequests
        /\ call[c].at = "counted" => sends[GrantOf(c)] < made[GrantOf(c)]

Ceilings ==
    /\ \A p \in Persons, d \in Days : Tokens(ChargedTo(p, d), Capped) <= ceiling[<<p, d>>]
    /\ \A g \in Grants : HasBudget(g) => Tokens(CallsOf(g), Capped) <= BudgetOf[g]

Control == TypeOK /\ CallFacts /\ LaneFacts /\ CountFacts
IInv == Control /\ RefusalStands /\ Accounted /\ Ceilings

-----------------------------------------------------------------------------
(* What a step changes.                                                    *)

\* Only call c, of those that are there, and its lane.
Only(c) ==
    /\ c \in Calls
    /\ \A b \in Calls \ {c} : call'[b] = call[b] /\ standing'[b] = standing[b]

\* The transaction that charges call c.
Charged(c) ==
    /\ call[c].at = "reserving" /\ Funded(c) /\ InBudget(c) /\ Charge(c)
    /\ call'[c].kept = call[c].most
    /\ call'[c].day = call[c].day /\ call'[c].grant = call[c].grant
    /\ call'[c].most = call[c].most

\* A step of call c that moves no tokens: it changes neither what is held of it nor where.
Free(c) ==
    /\ UNCHANGED <<usage, grantTokens, ceiling>>
    /\ call'[c].kept = call[c].kept
    /\ call[c].kept > 0 => /\ call'[c].day = call[c].day /\ call'[c].grant = call[c].grant
                           /\ call'[c].most = call[c].most

CallStep(c) ==
    \/ \E g \in Grants : Admit(c, g)
    \/ TooMany(c)
    \/ \E most \in 1..MaxEstimate : Prepare(c, most)
    \/ Reserving(c)
    \/ Count(c)
    \/ \E bill \in 0..Top : Send(c, bill)
    \/ Report(c)
    \/ \E note \in BOOLEAN : FailUnbilled(c, note) \/ Stop(c, note)
    \/ Settle(c) \/ NoteFault(c) \/ CallbackFails(c)

\* A change of a limit.
Setting(p) ==
    \/ \E tokens \in Limits \cup {None} : SetTokenCap(p, tokens)
    \/ \E tokens \in Limits : SetDailyTokens(p, tokens)

LEMMA NextSteps ==
    ASSUME [Next]_vars
    PROVE  \/ \E c \in Calls : CallStep(c)
           \/ \E p \in Persons : Setting(p)
           \/ Midnight
           \/ \E past \in SUBSET Grants : Restart(past)
           \/ UNCHANGED vars
BY DEF Next, CallStep, Setting

\* The numbers are numbers.
LEMMA Numbers ==
    /\ MaxEstimate \in Nat /\ Excess \in Nat /\ Top \in Nat /\ MaxRequests \in Nat
    /\ MaxDays \in Nat /\ None \notin Nat /\ Days \in SUBSET Nat
    /\ \A n \in 0..MaxEstimate : n \in 0..Top /\ n \in Nat /\ n <= Top
    /\ \A n \in 0..Top : n \in Nat
    /\ None \notin 0..Top
BY LedgerAssumption DEF Top, Days

-----------------------------------------------------------------------------
(* A step of one call keeps the calls in order.                            *)

\* What is known of the record of one call.
LEMMA RecordOf ==
    ASSUME TypeOK, NEW c \in Calls
    PROVE  /\ call[c] \in CallRecords
           /\ call[c].most \in Nat /\ call[c].most <= Top /\ call[c].most <= MaxEstimate
           /\ call[c].kept \in Nat /\ call[c].bill \in Nat /\ call[c].seen \in Nat
           /\ call[c].grant \in Grants \cup {None} /\ call[c].day \in Nat
           /\ call[c].due = None \/ call[c].due \in Nat
BY Numbers DEF TypeOK, CallRecords, Top

\* Only call c moves, and it stays in order.
Ordered(c) == Only(c) /\ call' \in [Calls -> CallRecords] /\ CallFact(c)'

\* Each step of a call leaves the other calls as they are, and its own in order.
LEMMA CallShape ==
    ASSUME TypeOK, CallFacts, NEW c \in Calls, CallStep(c)
    PROVE  Ordered(c)
<1>0. /\ call \in [Calls -> CallRecords] /\ CallFact(c) /\ call[c] \in CallRecords
      /\ standing \in [Calls -> SUBSET {"day", "visit"}] /\ today \in Days
    BY DEF TypeOK, CallFacts
<1>n. /\ 0 \in 0..Top /\ None \notin Grants /\ 0 \in 0..MaxEstimate /\ None \notin 0..Top
      /\ call[c].most \in Nat /\ call[c].most \in 0..Top
      /\ call[c].kept \in Nat /\ call[c].bill \in Nat
    BY Numbers, LedgerAssumption, RecordOf
<1>1. ASSUME NEW g \in Grants, Admit(c, g) PROVE Ordered(c)
    <2>1. call' = [call EXCEPT ![c] = [call[c] EXCEPT !.at = "admitted", !.grant = g]]
        BY <1>0, <1>1 DEF Admit
    <2>2. [call[c] EXCEPT !.at = "admitted", !.grant = g] \in CallRecords
        BY <1>0, <1>n, <1>1 DEF Admit, CallRecords, GrantOf, CallFact
    <2>3. call'[c] = [call[c] EXCEPT !.at = "admitted", !.grant = g]
        BY <1>0, <2>1
    <2>4. CallFact(c)'
        BY <1>0, <1>n, <1>1, <2>2, <2>3 DEF Admit, CallFact, GrantOf, CallRecords, Smaller,
            NewCall, Days, said
    <2> QED BY <1>0, <1>1, <2>1, <2>2, <2>4 DEF Ordered, Only, Admit, said
<1>2. ASSUME TooMany(c) PROVE Ordered(c)
    <2>1. call' = [call EXCEPT ![c] = [call[c] EXCEPT !.at = "ended", !.due = None,
        !.note = TRUE]]
        BY <1>0, <1>2 DEF TooMany, Leave
    <2>2. [call[c] EXCEPT !.at = "ended", !.due = None, !.note = TRUE] \in CallRecords
        BY <1>0, <1>n, <1>2 DEF TooMany, Leave, CallRecords, GrantOf, CallFact
    <2>3. call'[c] = [call[c] EXCEPT !.at = "ended", !.due = None, !.note = TRUE]
        BY <1>0, <2>1
    <2>4. CallFact(c)'
        BY <1>0, <1>n, <1>2, <2>2, <2>3 DEF TooMany, Leave, CallFact, GrantOf, CallRecords,
            Smaller, NewCall, Days, said
    <2> QED BY <1>0, <1>2, <2>1, <2>2, <2>4 DEF Ordered, Only, TooMany, Leave, said
<1>3. ASSUME NEW most \in 1..MaxEstimate, Prepare(c, most) PROVE Ordered(c)
    <2>1. call' = [call EXCEPT ![c] = [call[c] EXCEPT !.at = "reserving", !.day = today,
        !.most = most, !.seen = made[GrantOf(c)]]]
        BY <1>0, <1>3 DEF Prepare
    <2>n. /\ made[GrantOf(c)] \in 0..MaxRequests
          /\ most \in 0..MaxEstimate /\ today \in 0..MaxDays
        <3>1. GrantOf(c) \in Grants BY <1>0, <1>3 DEF Prepare, CallFact
        <3>2. made[GrantOf(c)] \in Nat BY <3>1 DEF TypeOK
        <3> QED BY <1>0, <1>3, <3>2, Numbers DEF Prepare, Days
    <2>2. [call[c] EXCEPT !.at = "reserving", !.day = today, !.most = most,
        !.seen = made[GrantOf(c)]] \in CallRecords
        BY <1>0, <2>n DEF CallRecords
    <2>3. call'[c] = [call[c] EXCEPT !.at = "reserving", !.day = today, !.most = most,
        !.seen = made[GrantOf(c)]]
        BY <1>0, <2>1
    <2>4. CallFact(c)'
        BY <1>0, <1>n, <1>3, <2>2, <2>3 DEF Prepare, CallFact, GrantOf, CallRecords, Smaller,
            NewCall, Days, said
    <2> QED BY <1>0, <1>3, <2>1, <2>2, <2>4 DEF Ordered, Only, Prepare, said
<1>4. ASSUME Reserve(c) PROVE Ordered(c)
    <2>1. call' = [call EXCEPT ![c] = [call[c] EXCEPT !.at = "charged", !.kept = call[c].most]]
        BY <1>0, <1>4 DEF Reserve
    <2>2. [call[c] EXCEPT !.at = "charged", !.kept = call[c].most] \in CallRecords
        BY <1>0, <1>n, <1>4 DEF Reserve, CallRecords, GrantOf, CallFact
    <2>3. call'[c] = [call[c] EXCEPT !.at = "charged", !.kept = call[c].most]
        BY <1>0, <2>1
    <2>4. CallFact(c)'
        BY <1>0, <1>n, <1>4, <2>2, <2>3 DEF Reserve, CallFact, GrantOf, CallRecords, Smaller,
            NewCall, Days, said
    <2> QED BY <1>0, <1>4, <2>1, <2>2, <2>4 DEF Ordered, Only, Reserve, said
<1>5. ASSUME NEW note \in BOOLEAN, RefuseDay(c, note) PROVE Ordered(c)
    <2>1. call' = [call EXCEPT ![c] = [call[c] EXCEPT !.at = "ended", !.due = None,
        !.note = note]]
        BY <1>0, <1>5 DEF RefuseDay, Leave
    <2>2. [call[c] EXCEPT !.at = "ended", !.due = None, !.note = note] \in CallRecords
        BY <1>0, <1>n, <1>5 DEF RefuseDay, Leave, CallRecords, GrantOf, CallFact
    <2>3. call'[c] = [call[c] EXCEPT !.at = "ended", !.due = None, !.note = note]
        BY <1>0, <2>1
    <2>4. CallFact(c)'
        BY <1>0, <1>n, <1>5, <2>2, <2>3 DEF RefuseDay, Leave, CallFact, GrantOf, CallRecords,
            Smaller, NewCall, Days, said
    <2> QED BY <1>0, <1>5, <2>1, <2>2, <2>4 DEF Ordered, Only, RefuseDay, Leave, said
<1>6. ASSUME NEW note \in BOOLEAN, RefuseBudget(c, note) PROVE Ordered(c)
    <2>1. call' = [call EXCEPT ![c] = [call[c] EXCEPT !.at = "ended", !.due = None,
        !.note = note]]
        BY <1>0, <1>6 DEF RefuseBudget, Leave
    <2>2. [call[c] EXCEPT !.at = "ended", !.due = None, !.note = note] \in CallRecords
        BY <1>0, <1>n, <1>6 DEF RefuseBudget, Leave, CallRecords, GrantOf, CallFact
    <2>3. call'[c] = [call[c] EXCEPT !.at = "ended", !.due = None, !.note = note]
        BY <1>0, <2>1
    <2>4. CallFact(c)'
        BY <1>0, <1>n, <1>6, <2>2, <2>3 DEF RefuseBudget, Leave, CallFact, GrantOf, CallRecords,
            Smaller, NewCall, Days, said
    <2> QED BY <1>0, <1>6, <2>1, <2>2, <2>4 DEF Ordered, Only, RefuseBudget, Leave, said
<1>7. ASSUME NEW note \in BOOLEAN, AnswerLost(c, note) PROVE Ordered(c)
    <2>1. call' = [call EXCEPT ![c] = [call[c] EXCEPT !.at = "ended", !.note = note,
        !.kept = call[c].most]]
        BY <1>0, <1>7 DEF AnswerLost
    <2>2. [call[c] EXCEPT !.at = "ended", !.note = note, !.kept = call[c].most] \in CallRecords
        BY <1>0, <1>n, <1>7 DEF AnswerLost, CallRecords, GrantOf, CallFact
    <2>3. call'[c] = [call[c] EXCEPT !.at = "ended", !.note = note, !.kept = call[c].most]
        BY <1>0, <2>1
    <2>4. CallFact(c)'
        BY <1>0, <1>n, <1>7, <2>2, <2>3 DEF AnswerLost, CallFact, GrantOf, CallRecords, Smaller,
            NewCall, Days, said
    <2> QED BY <1>0, <1>7, <2>1, <2>2, <2>4 DEF Ordered, Only, AnswerLost, said
<1>8. ASSUME NEW note \in BOOLEAN, ReserveFails(c, note) PROVE Ordered(c)
    <2>1. call' = [call EXCEPT ![c] = [call[c] EXCEPT !.at = "ended", !.due = None,
        !.note = note]]
        BY <1>0, <1>8 DEF ReserveFails, Leave
    <2>2. [call[c] EXCEPT !.at = "ended", !.due = None, !.note = note] \in CallRecords
        BY <1>0, <1>n, <1>8 DEF ReserveFails, Leave, CallRecords, GrantOf, CallFact
    <2>3. call'[c] = [call[c] EXCEPT !.at = "ended", !.due = None, !.note = note]
        BY <1>0, <2>1
    <2>4. CallFact(c)'
        BY <1>0, <1>n, <1>8, <2>2, <2>3 DEF ReserveFails, Leave, CallFact, GrantOf, CallRecords,
            Smaller, NewCall, Days, said
    <2> QED BY <1>0, <1>8, <2>1, <2>2, <2>4 DEF Ordered, Only, ReserveFails, Leave, said
<1>9. ASSUME Count(c) PROVE Ordered(c)
    <2>1. call' = [call EXCEPT ![c] = [call[c] EXCEPT !.at = "counted"]]
        BY <1>0, <1>9 DEF Count
    <2>2. [call[c] EXCEPT !.at = "counted"] \in CallRecords
        BY <1>0, <1>n, <1>9 DEF Count, CallRecords, GrantOf, CallFact
    <2>3. call'[c] = [call[c] EXCEPT !.at = "counted"]
        BY <1>0, <2>1
    <2>4. CallFact(c)'
        BY <1>0, <1>n, <1>9, <2>2, <2>3 DEF Count, CallFact, GrantOf, CallRecords, Smaller,
            NewCall, Days, said
    <2> QED BY <1>0, <1>9, <2>1, <2>2, <2>4 DEF Ordered, Only, Count, said
<1>10. ASSUME NEW bill \in 0..Top, Send(c, bill) PROVE Ordered(c)
    <2>1. call' = [call EXCEPT ![c] = [call[c] EXCEPT !.at = "sent", !.bill = bill]]
        BY <1>0, <1>10 DEF Send
    <2>2. [call[c] EXCEPT !.at = "sent", !.bill = bill] \in CallRecords
        BY <1>0, <1>n, <1>10 DEF Send, CallRecords, GrantOf, CallFact
    <2>3. call'[c] = [call[c] EXCEPT !.at = "sent", !.bill = bill]
        BY <1>0, <2>1
    <2>4. CallFact(c)'
        BY <1>0, <1>n, <1>10, <2>2, <2>3 DEF Send, CallFact, GrantOf, CallRecords, Smaller,
            NewCall, Days, said
    <2> QED BY <1>0, <1>10, <2>1, <2>2, <2>4 DEF Ordered, Only, Send, said
<1>11. ASSUME Report(c) PROVE Ordered(c)
    <2>1. call' = [call EXCEPT ![c] = [call[c] EXCEPT !.at = "reported", !.due = call[c].bill]]
        BY <1>0, <1>11 DEF Report
    <2>2. [call[c] EXCEPT !.at = "reported", !.due = call[c].bill] \in CallRecords
        BY <1>0, <1>n, <1>11 DEF Report, CallRecords, GrantOf, CallFact
    <2>3. call'[c] = [call[c] EXCEPT !.at = "reported", !.due = call[c].bill]
        BY <1>0, <2>1
    <2>4. CallFact(c)'
        BY <1>0, <1>n, <1>11, <2>2, <2>3 DEF Report, CallFact, GrantOf, CallRecords, Smaller,
            NewCall, Days, said
    <2> QED BY <1>0, <1>11, <2>1, <2>2, <2>4 DEF Ordered, Only, Report, said
<1>12. ASSUME NEW note \in BOOLEAN, FailUnbilled(c, note) PROVE Ordered(c)
    <2>1. call' = [call EXCEPT ![c] = [call[c] EXCEPT !.at = "ended", !.bill = 0, !.due = 0,
        !.note = note]]
        BY <1>0, <1>12 DEF FailUnbilled
    <2>2. [call[c] EXCEPT !.at = "ended", !.bill = 0, !.due = 0, !.note = note] \in CallRecords
        BY <1>0, <1>n, <1>12 DEF FailUnbilled, CallRecords, GrantOf, CallFact
    <2>3. call'[c] = [call[c] EXCEPT !.at = "ended", !.bill = 0, !.due = 0, !.note = note]
        BY <1>0, <2>1
    <2>4. CallFact(c)'
        BY <1>0, <1>n, <1>12, <2>2, <2>3 DEF FailUnbilled, CallFact, GrantOf, CallRecords,
            Smaller, NewCall, Days, said
    <2> QED BY <1>0, <1>12, <2>1, <2>2, <2>4 DEF Ordered, Only, FailUnbilled, said
<1>13. ASSUME NEW note \in BOOLEAN, Stop(c, note) PROVE Ordered(c)
    <2>1. call' = [call EXCEPT ![c] = [call[c] EXCEPT !.at = "ended", !.due = DueAtStop(c),
        !.note = note]]
        BY <1>0, <1>13 DEF Stop, Leave
    <2>2. [call[c] EXCEPT !.at = "ended", !.due = DueAtStop(c), !.note = note] \in CallRecords
        BY <1>0, <1>n, <1>13 DEF Stop, Leave, CallRecords, GrantOf, CallFact, DueAtStop
    <2>3. call'[c] = [call[c] EXCEPT !.at = "ended", !.due = DueAtStop(c), !.note = note]
        BY <1>0, <2>1
    <2>4. CallFact(c)'
        BY <1>0, <1>n, <1>13, <2>2, <2>3 DEF Stop, Leave, CallFact, GrantOf, CallRecords, Smaller,
            NewCall, Days, said, DueAtStop
    <2> QED BY <1>0, <1>13, <2>1, <2>2, <2>4 DEF Ordered, Only, Stop, Leave, said
<1>14. ASSUME Settle(c) PROVE Ordered(c)
    <2>1. call' = [call EXCEPT ![c] = [call[c] EXCEPT !.due = None, !.kept = call[c].due]]
        BY <1>0, <1>14 DEF Settle
    <2>2. [call[c] EXCEPT !.due = None, !.kept = call[c].due] \in CallRecords
        BY <1>0, <1>n, <1>14 DEF Settle, CallRecords, GrantOf, CallFact
    <2>3. call'[c] = [call[c] EXCEPT !.due = None, !.kept = call[c].due]
        BY <1>0, <2>1
    <2>4. CallFact(c)'
        BY <1>0, <1>n, <1>14, <2>2, <2>3 DEF Settle, CallFact, GrantOf, CallRecords, Smaller,
            NewCall, Days, said
    <2> QED BY <1>0, <1>14, <2>1, <2>2, <2>4 DEF Ordered, Only, Settle, said
<1>15. ASSUME NoteFault(c) PROVE Ordered(c)
    <2>1. call' = [call EXCEPT ![c] = [call[c] EXCEPT !.note = FALSE]]
        BY <1>0, <1>15 DEF NoteFault
    <2>2. [call[c] EXCEPT !.note = FALSE] \in CallRecords
        BY <1>0, <1>n, <1>15 DEF NoteFault, CallRecords, GrantOf, CallFact
    <2>3. call'[c] = [call[c] EXCEPT !.note = FALSE]
        BY <1>0, <2>1
    <2>4. CallFact(c)'
        BY <1>0, <1>n, <1>15, <2>2, <2>3 DEF NoteFault, CallFact, GrantOf, CallRecords, Smaller,
            NewCall, Days, said
    <2> QED BY <1>0, <1>15, <2>1, <2>2, <2>4 DEF Ordered, Only, NoteFault, said
<1>16. ASSUME CallbackFails(c) PROVE Ordered(c)
    <2>1. \/ call' = [call EXCEPT ![c] = [call[c] EXCEPT !.due = None]]
          \/ call' = [call EXCEPT ![c] = [call[c] EXCEPT !.note = FALSE]]
        BY <1>0, <1>16 DEF CallbackFails
    <2>2. /\ [call[c] EXCEPT !.due = None] \in CallRecords
          /\ [call[c] EXCEPT !.note = FALSE] \in CallRecords
        BY <1>0 DEF CallRecords
    <2>3. \/ call'[c] = [call[c] EXCEPT !.due = None]
          \/ call'[c] = [call[c] EXCEPT !.note = FALSE]
        BY <1>0, <2>1
    <2>4. CallFact(c)'
        BY <1>0, <1>n, <1>16, <2>2, <2>3 DEF CallbackFails, CallFact, GrantOf, CallRecords,
            NewCall, said
    <2> QED BY <1>0, <1>16, <2>1, <2>2, <2>4 DEF Ordered, Only, CallbackFails, said
<1> QED BY <1>1, <1>2, <1>3, <1>4, <1>5, <1>6, <1>7, <1>8, <1>9, <1>10, <1>11, <1>12, <1>13,
    <1>14, <1>15, <1>16 DEF CallStep, Reserving

-----------------------------------------------------------------------------
(* Lanes and counts.                                                       *)

Enters(c) ==
    /\ call[c].at = "unused" /\ call'[c].at = "admitted"
    /\ call'[c].grant \in Grants \ lanes /\ lanes' = lanes \cup {call'[c].grant}
    /\ UNCHANGED <<made, sends>>

Leaves(c) ==
    /\ Admitted(c) /\ call'[c].at = "ended"
    /\ lanes' = lanes \ {GrantOf(c)}
    /\ UNCHANGED <<made, sends>>

\* What a call does between its admission and its end, as far as it is counted.
Goes(c) ==
    \/ /\ UNCHANGED <<made, sends>>
       /\ \/ call'[c].at = call[c].at /\ call'[c].seen = call[c].seen
          \/ /\ call'[c].at = "reserving" /\ call'[c].seen = made[GrantOf(c)]
             /\ made[GrantOf(c)] < MaxRequests
          \/ call[c].at = "reserving" /\ call'[c].at = "charged" /\ call'[c].seen = call[c].seen
          \/ call'[c].at = "reported"
    \/ /\ call[c].at = "charged" /\ call'[c].at = "counted"
       /\ made' = [made EXCEPT ![GrantOf(c)] = call[c].seen + 1] /\ sends' = sends
    \/ /\ call[c].at = "counted" /\ call'[c].at = "sent"
       /\ sends' = [sends EXCEPT ![GrantOf(c)] = @ + 1] /\ made' = made

Stays(c) ==
    /\ lanes' = lanes /\ call'[c].grant = call[c].grant
    /\ Admitted(c)' <=> Admitted(c)
    /\ Goes(c)

LEMMA CallKinds ==
    ASSUME TypeOK, NEW c \in Calls, CallStep(c)
    PROVE  Enters(c) \/ Leaves(c) \/ Stays(c)
<1>0. call \in [Calls -> CallRecords] /\ call[c] \in CallRecords BY DEF TypeOK
<1>1. ASSUME NEW g \in Grants, Admit(c, g) PROVE Enters(c)
    BY <1>0, <1>1 DEF Admit, MayEnter, Enters, CallRecords
<1>2. ASSUME NEW most \in 1..MaxEstimate, Prepare(c, most) PROVE Stays(c)
    BY <1>0, <1>2 DEF Prepare, Stays, Goes, Admitted, GrantOf, CallRecords, memory
<1>3. ASSUME Reserve(c) PROVE Stays(c)
    BY <1>0, <1>3 DEF Reserve, Stays, Goes, Admitted, GrantOf, CallRecords, memory
<1>4. ASSUME Count(c) PROVE Stays(c)
    BY <1>0, <1>4 DEF Count, Stays, Goes, Admitted, GrantOf, CallRecords
<1>5. ASSUME NEW bill \in 0..Top, Send(c, bill) PROVE Stays(c)
    BY <1>0, <1>5 DEF Send, Stays, Goes, Admitted, GrantOf, CallRecords
<1>6. ASSUME Report(c) PROVE Stays(c)
    BY <1>0, <1>6 DEF Report, Stays, Goes, Admitted, GrantOf, CallRecords, memory
<1>7. ASSUME Settle(c) PROVE Stays(c)
    BY <1>0, <1>7 DEF Settle, Stays, Goes, Admitted, GrantOf, CallRecords, memory
<1>8. ASSUME NoteFault(c) PROVE Stays(c)
    BY <1>0, <1>8 DEF NoteFault, Stays, Goes, Admitted, GrantOf, CallRecords, memory
<1>9. ASSUME CallbackFails(c) PROVE Stays(c)
    BY <1>0, <1>9 DEF CallbackFails, Stays, Goes, Admitted, GrantOf, CallRecords, memory
<1>10. ASSUME TooMany(c) PROVE Leaves(c)
    BY <1>0, <1>10 DEF TooMany, Leave, Freed, Leaves, Admitted, CallRecords
<1>11. ASSUME NEW note \in BOOLEAN, RefuseDay(c, note) PROVE Leaves(c)
    BY <1>0, <1>11 DEF RefuseDay, Leave, Freed, Leaves, Admitted, CallRecords
<1>12. ASSUME NEW note \in BOOLEAN, RefuseBudget(c, note) PROVE Leaves(c)
    BY <1>0, <1>12 DEF RefuseBudget, Leave, Freed, Leaves, Admitted, CallRecords
<1>13. ASSUME NEW note \in BOOLEAN, AnswerLost(c, note) PROVE Leaves(c)
    BY <1>0, <1>13 DEF AnswerLost, Freed, Leaves, Admitted, CallRecords
<1>14. ASSUME NEW note \in BOOLEAN, ReserveFails(c, note) PROVE Leaves(c)
    BY <1>0, <1>14 DEF ReserveFails, Leave, Freed, Leaves, Admitted, CallRecords
<1>15. ASSUME NEW note \in BOOLEAN, FailUnbilled(c, note) PROVE Leaves(c)
    BY <1>0, <1>15 DEF FailUnbilled, Freed, Leaves, Admitted, CallRecords
<1>16. ASSUME NEW note \in BOOLEAN, Stop(c, note) PROVE Leaves(c)
    BY <1>0, <1>16 DEF Stop, Leave, Freed, Leaves, Admitted, CallRecords
<1> QED BY <1>1, <1>2, <1>3, <1>4, <1>5, <1>6, <1>7, <1>8, <1>9, <1>10, <1>11, <1>12, <1>13,
           <1>14, <1>15, <1>16
        DEF CallStep, Reserving

\* A lane has one call, whoever enters and leaves.
LEMMA LanesStep ==
    ASSUME TypeOK, CallFacts, LaneFacts, NEW c \in Calls, CallStep(c)
    PROVE  LaneFacts'
<1>1. Only(c) BY CallShape DEF Ordered
<1>2. \A b \in Calls \ {c} : (Admitted(b)' <=> Admitted(b)) /\ GrantOf(b)' = GrantOf(b)
    BY <1>1 DEF Only, Admitted, GrantOf
<1>3. CASE Enters(c) BY <1>2, <1>3 DEF Enters, LaneFacts, GrantOf
<1>4. CASE Leaves(c)
    <2>1. ~Admitted(c)' BY <1>4 DEF Leaves, Admitted
    <2> QED BY <1>2, <1>4, <2>1 DEF Leaves, LaneFacts
<1>5. CASE Stays(c) BY <1>2, <1>5 DEF Stays, LaneFacts, GrantOf
<1> QED BY <1>3, <1>4, <1>5, CallKinds

\* No call is missed: what the one in the lane read is still true when it writes.
LEMMA CountsStep ==
    ASSUME TypeOK, CallFacts, LaneFacts, CountFacts, NEW c \in Calls, CallStep(c)
    PROVE  CountFacts'
<1>1. Only(c) /\ call'[c] \in CallRecords BY CallShape DEF Ordered
<1>2. \A b \in Calls \ {c} : call'[b] = call[b] BY <1>1 DEF Only
<1>3. made \in [Grants -> Nat] /\ sends \in [Grants -> Nat] /\ MaxRequests \in Nat
    BY Numbers DEF TypeOK
<1>4. CASE UNCHANGED <<made, sends>> /\ call'[c].at \notin {"reserving", "charged", "counted"}
    BY <1>2, <1>4 DEF CountFacts, GrantOf
<1>5. CASE Stays(c) /\ call'[c].at \in {"reserving", "charged", "counted", "sent"}
    <2>1. call'[c].grant = call[c].grant /\ Goes(c) BY <1>5 DEF Stays
    <2>2. Admitted(c) /\ GrantOf(c) \in Grants
        BY <1>5 DEF Stays, Admitted, CallFacts, CallFact
    <2>3. \A b \in Calls \ {c} : Admitted(b) => GrantOf(b) # GrantOf(c) BY <2>2 DEF LaneFacts
    <2>4. \A b \in Calls \ {c} : call[b].at \in {"reserving", "charged", "counted"} =>
              Admitted(b) /\ GrantOf(b) \in Grants
        BY DEF Admitted, CallFacts, CallFact
    <2>5. \A b \in Calls \ {c} : call[b].at \in {"reserving", "charged", "counted"} =>
              made'[GrantOf(b)] = made[GrantOf(b)] /\ sends'[GrantOf(b)] = sends[GrantOf(b)]
        BY <1>3, <2>1, <2>2, <2>3, <2>4 DEF Goes
    <2>6. \A g \in Grants : sends'[g] <= made'[g] /\ made'[g] <= MaxRequests
        BY <1>3, <2>1, <2>2 DEF Goes, CountFacts
    <2>7. /\ call'[c].at \in {"reserving", "charged"} =>
              call'[c].seen = made'[GrantOf(c)] /\ call'[c].seen < MaxRequests
          /\ call'[c].at = "counted" => sends'[GrantOf(c)] < made'[GrantOf(c)]
        BY <1>3, <2>1, <2>2 DEF Goes, CountFacts
    <2> QED BY <1>2, <2>1, <2>5, <2>6, <2>7 DEF CountFacts, GrantOf
<1>6. CASE Stays(c) /\ call'[c].at \notin {"reserving", "charged", "counted", "sent"}
    <2>1. UNCHANGED <<made, sends>> BY <1>6 DEF Stays, Goes
    <2> QED BY <1>4, <1>6, <2>1
<1> QED BY <1>4, <1>5, <1>6, CallKinds DEF Enters, Leaves

-----------------------------------------------------------------------------
(* Refusals.                                                               *)

\* What stands of a refused call does not change with it.
LEMMA EndedStays ==
    ASSUME TypeOK, CallFacts, NEW c \in Calls, CallStep(c), standing[c] # {}
    PROVE  /\ call'[c].day = call[c].day /\ call'[c].grant = call[c].grant
           /\ call'[c].most = call[c].most
           /\ RowOf(c)' = RowOf(c)
<1>0. call \in [Calls -> CallRecords] /\ call[c] \in CallRecords BY DEF TypeOK
<1>1. call[c].at = "ended" BY DEF CallFacts, CallFact
<1>2. Settle(c) \/ NoteFault(c) \/ CallbackFails(c)
    BY <1>1 DEF CallStep, Reserving, Admit, TooMany, Prepare, Reserve, RefuseDay, RefuseBudget,
                AnswerLost, ReserveFails, Count, Send, Report, FailUnbilled, Stop
<1>3. CASE Settle(c) BY <1>0, <1>3 DEF Settle, RowOf, GrantOf, CallRecords
<1>4. CASE NoteFault(c) BY <1>0, <1>4 DEF NoteFault, RowOf, GrantOf, CallRecords
<1>5. CASE CallbackFails(c) BY <1>0, <1>5 DEF CallbackFails, RowOf, GrantOf, CallRecords
<1> QED BY <1>2, <1>3, <1>4, <1>5

\* Which steps say or note anything.
LEMMA SaidKinds ==
    ASSUME NEW c \in Calls, CallStep(c)
    PROVE  \/ \E note \in BOOLEAN : RefuseDay(c, note)
           \/ NoteFault(c)
           \/ UNCHANGED said
BY DEF CallStep, Reserving, Admit, TooMany, Prepare, Reserve, RefuseBudget, AnswerLost,
       ReserveFails, Count, Send, Report, FailUnbilled, Stop, Settle, CallbackFails

\* The row of a call that was prepared.
LEMMA RowIs ==
    ASSUME CallFacts, NEW c \in Calls, call[c].day \in Days, call[c].at # "unused"
    PROVE  RowOf(c) \in Persons \X Days /\ GrantOf(c) \in Grants
BY LedgerAssumption DEF CallFacts, CallFact, RowOf

\* Refusals keep standing whatever else calls do.
LEMMA RefusalsStep ==
    ASSUME TypeOK, CallFacts, RefusalStands, NEW c \in Calls, CallStep(c)
    PROVE  RefusalStands'
<1>0. Only(c) BY CallShape DEF Ordered
<1>1. \A b \in Calls : standing[b] # {} =>
          RowOf(b)' = RowOf(b) /\ GrantOf(b)' = GrantOf(b) /\ call'[b].most = call[b].most
    BY <1>0, EndedStays DEF Only, RowOf, GrantOf
<1>2. CASE UNCHANGED said BY <1>1, <1>2 DEF said, RefusalStands
<1>3. CASE NoteFault(c)
    <2>1. blockers' = blockers /\ standing' = standing BY <1>3 DEF NoteFault
    <2>2. \A g \in Grants : faults[g] = "spent" => faults'[g] = "spent"
        BY <1>3 DEF NoteFault, TypeOK, Noted
    <2>3. \A b \in Calls : standing[b] # {} => GrantOf(b) \in Grants
        BY RowIs DEF CallFacts, CallFact
    <2> QED BY <1>1, <2>1, <2>2, <2>3 DEF RefusalStands
<1>4. ASSUME NEW note \in BOOLEAN, RefuseDay(c, note) PROVE RefusalStands'
    <2>0. /\ blockers \in [Persons \X Days -> Nat]
          /\ faults \in [Grants -> {None, "fault", "spent"}]
          /\ standing \in [Calls -> SUBSET {"day", "visit"}]
          /\ call \in [Calls -> CallRecords]
        BY DEF TypeOK
    <2>1. /\ standing[c] = {} /\ RowOf(c) \in Persons \X Days /\ GrantOf(c) \in Grants
          /\ call[c].most \in Nat
        BY <1>4, RowIs, RecordOf DEF RefuseDay, CallFacts, CallFact
    <2>2. /\ blockers' = [blockers EXCEPT ![RowOf(c)] = Larger(@, call[c].most)]
          /\ faults' = [faults EXCEPT ![GrantOf(c)] = "spent"]
          /\ standing' = [standing EXCEPT ![c] = {"day", "visit"}]
        BY <1>4 DEF RefuseDay
    <2>3. RowOf(c)' = RowOf(c) /\ GrantOf(c)' = GrantOf(c) /\ call'[c].most = call[c].most
        BY <1>4, <2>0 DEF RefuseDay, Leave, RowOf, GrantOf, CallRecords
    <2>4. \A r \in Persons \X Days : blockers[r] \in Nat /\ blockers'[r] >= blockers[r]
        BY <2>0, <2>1, <2>2 DEF Larger
    <2>5. blockers'[RowOf(c)] >= call[c].most BY <2>0, <2>1, <2>2 DEF Larger
    <2>6. \A b \in Calls \ {c} : standing'[b] = standing[b] BY <1>0 DEF Only
    <2>7. \A b \in Calls : standing[b] # {} =>
              RowOf(b) \in Persons \X Days /\ GrantOf(b) \in Grants /\ call[b].most \in Nat
        BY RowIs, RecordOf DEF CallFacts, CallFact
    <2>8. \A b \in Calls : /\ "day" \in standing'[b] => blockers'[RowOf(b)'] >= call'[b].most
                           /\ "visit" \in standing'[b] => faults'[GrantOf(b)'] = "spent"
        <3> SUFFICES ASSUME NEW b \in Calls
            PROVE  /\ "day" \in standing'[b] => blockers'[RowOf(b)'] >= call'[b].most
                   /\ "visit" \in standing'[b] => faults'[GrantOf(b)'] = "spent"
            OBVIOUS
        <3>1. CASE b = c BY <3>1, <2>0, <2>1, <2>2, <2>3, <2>5
        <3>2. CASE b # c
            <4>1. CASE standing[b] = {} BY <3>2, <2>6, <4>1
            <4>2. CASE standing[b] # {}
                <5>1. "day" \in standing[b] => blockers[RowOf(b)] >= call[b].most
                    BY DEF RefusalStands
                <5>2. "visit" \in standing[b] => faults'[GrantOf(b)] = "spent"
                    BY <2>0, <2>2, <2>7, <4>2 DEF RefusalStands
                <5>3. blockers'[RowOf(b)] >= blockers[RowOf(b)] /\ blockers'[RowOf(b)] \in Nat
                    BY <2>0, <2>1, <2>2, <2>4, <2>7, <4>2 DEF Larger
                <5>4. blockers[RowOf(b)] \in Nat /\ call[b].most \in Nat
                    BY <2>4, <2>7, <4>2
                <5> QED BY <1>1, <3>2, <2>6, <4>2, <5>1, <5>2, <5>3, <5>4
            <4> QED BY <4>1, <4>2
        <3> QED BY <3>1, <3>2
    <2>9. \A r \in Persons \X Days :
              blockers'[r] > 0 => \E b \in Calls : "day" \in standing'[b] /\ RowOf(b)' = r
        <3> SUFFICES ASSUME NEW r \in Persons \X Days, blockers'[r] > 0
            PROVE  \E b \in Calls : "day" \in standing'[b] /\ RowOf(b)' = r
            OBVIOUS
        <3>1. CASE r = RowOf(c) BY <3>1, <2>0, <2>2, <2>3
        <3>2. CASE r # RowOf(c)
            <4>1. blockers[r] > 0 BY <3>2, <2>0, <2>2
            <4>2. PICK b \in Calls : "day" \in standing[b] /\ RowOf(b) = r
                BY <4>1 DEF RefusalStands
            <4>3. b # c BY <4>2, <2>1
            <4> QED BY <1>1, <2>6, <4>2, <4>3
        <3> QED BY <3>1, <3>2
    <2> QED BY <2>8, <2>9 DEF RefusalStands, GrantOf
<1> QED BY <1>2, <1>3, <1>4, SaidKinds

-----------------------------------------------------------------------------
(* Ledgers.                                                                *)

\* Every step of a call charges it, settles it or moves no tokens.
LEMMA LedgerKinds ==
    ASSUME TypeOK, CallFacts, NEW c \in Calls, CallStep(c)
    PROVE  Free(c) \/ Charged(c) \/ Settle(c)
<1>0. /\ call \in [Calls -> CallRecords] /\ call[c] \in CallRecords
      /\ usage \in [Persons \X Days -> Nat]
    BY DEF TypeOK
<1>1. ASSUME NEW g \in Grants, Admit(c, g) PROVE Free(c)
    BY <1>0, <1>1 DEF Admit, Free, ledgers, CallRecords, CallFacts, CallFact, NewCall
<1>2. ASSUME NEW most \in 1..MaxEstimate, Prepare(c, most) PROVE Free(c)
    BY <1>0, <1>2 DEF Prepare, Free, ledgers, CallRecords, CallFacts, CallFact
<1>3. ASSUME Reserve(c) PROVE Charged(c)
    BY <1>0, <1>3 DEF Reserve, Charged, CallRecords
<1>4. ASSUME NEW note \in BOOLEAN, AnswerLost(c, note) PROVE Charged(c)
    BY <1>0, <1>4 DEF AnswerLost, Charged, CallRecords
<1>5. ASSUME TooMany(c) PROVE Free(c)
    BY <1>0, <1>5 DEF TooMany, Leave, Free, ledgers, CallRecords
<1>6. ASSUME NEW note \in BOOLEAN, RefuseDay(c, note) PROVE Free(c)
    BY <1>0, <1>6 DEF RefuseDay, Leave, Free, ledgers, CallRecords
<1>7. ASSUME NEW note \in BOOLEAN, RefuseBudget(c, note) PROVE Free(c)
    <2>1. RowOf(c) \in Persons \X Days /\ call[c].most \in Nat
        BY <1>7, RowIs, RecordOf DEF RefuseBudget, CallFacts, CallFact
    <2>2. usage[RowOf(c)] \in Nat BY <1>0, <2>1
    <2>3. Corrected(usage[RowOf(c)] + call[c].most, -call[c].most) = usage[RowOf(c)]
        BY <2>1, <2>2 DEF Corrected, Larger
    <2>4. usage' = usage BY <1>0, <1>7, <2>3 DEF RefuseBudget
    <2> QED BY <1>0, <1>7, <2>4 DEF RefuseBudget, Leave, Free, CallRecords
<1>8. ASSUME NEW note \in BOOLEAN, ReserveFails(c, note) PROVE Free(c)
    BY <1>0, <1>8 DEF ReserveFails, Leave, Free, ledgers, CallRecords
<1>9. ASSUME Count(c) PROVE Free(c)
    BY <1>0, <1>9 DEF Count, Free, ledgers, CallRecords
<1>10. ASSUME NEW bill \in 0..Top, Send(c, bill) PROVE Free(c)
    BY <1>0, <1>10 DEF Send, Free, ledgers, CallRecords
<1>11. ASSUME Report(c) PROVE Free(c)
    BY <1>0, <1>11 DEF Report, Free, ledgers, CallRecords
<1>12. ASSUME NEW note \in BOOLEAN, FailUnbilled(c, note) PROVE Free(c)
    BY <1>0, <1>12 DEF FailUnbilled, Free, ledgers, CallRecords
<1>13. ASSUME NEW note \in BOOLEAN, Stop(c, note) PROVE Free(c)
    BY <1>0, <1>13 DEF Stop, Leave, Free, ledgers, CallRecords
<1>14. ASSUME NoteFault(c) PROVE Free(c)
    BY <1>0, <1>14 DEF NoteFault, Free, ledgers, CallRecords
<1>15. ASSUME CallbackFails(c) PROVE Free(c)
    BY <1>0, <1>15 DEF CallbackFails, Free, ledgers, CallRecords
<1> QED BY <1>1, <1>2, <1>3, <1>4, <1>5, <1>6, <1>7, <1>8, <1>9, <1>10, <1>11, <1>12, <1>13,
           <1>14, <1>15
        DEF CallStep, Reserving

\* The sums of before and after a step of one call differ in that call only.
LEMMA Families ==
    ASSUME TypeOK, CallFacts, NEW c \in Calls, CallStep(c)
    PROVE  /\ Kept \in Amounts /\ Kept' \in Amounts /\ Capped \in Amounts /\ Capped' \in Amounts
           /\ \A b \in Calls \ {c} : Kept[b] = Kept'[b] /\ Capped[b] = Capped'[b]
           /\ \A p \in Persons, d \in Days :
                  /\ ChargedTo(p, d) \in SUBSET Calls /\ ChargedTo(p, d)' \in SUBSET Calls
                  /\ ChargedTo(p, d) \ {c} = ChargedTo(p, d)' \ {c}
           /\ \A g \in Grants :
                  /\ CallsOf(g) \in SUBSET Calls /\ CallsOf(g)' \in SUBSET Calls
                  /\ CallsOf(g) \ {c} = CallsOf(g)' \ {c}
<1>1. call \in [Calls -> CallRecords] /\ call' \in [Calls -> CallRecords]
    BY CallShape DEF TypeOK, Ordered
<1>2. \A b \in Calls \ {c} : call'[b] = call[b] BY CallShape DEF Ordered, Only
<1>3. Kept \in Amounts /\ Kept' \in Amounts BY <1>1 DEF Kept, Amounts, CallRecords
<1>4. \A b \in Calls : /\ Smaller(call[b].kept, call[b].most) \in 0..Top
                       /\ Smaller(call'[b].kept, call'[b].most) \in 0..Top
    BY <1>1, Numbers DEF Smaller, CallRecords
<1>5. Capped \in Amounts /\ Capped' \in Amounts BY <1>4 DEF Capped, Amounts
<1>6. \A b \in Calls \ {c} : Kept[b] = Kept'[b] /\ Capped[b] = Capped'[b]
    BY <1>2 DEF Kept, Capped
<1>7. \A p \in Persons, d \in Days :
          /\ ChargedTo(p, d) \in SUBSET Calls /\ ChargedTo(p, d)' \in SUBSET Calls
          /\ ChargedTo(p, d) \ {c} = ChargedTo(p, d)' \ {c}
    BY <1>2 DEF ChargedTo, GrantOf, RowOf
<1>8. \A g \in Grants :
          /\ CallsOf(g) \in SUBSET Calls /\ CallsOf(g)' \in SUBSET Calls
          /\ CallsOf(g) \ {c} = CallsOf(g)' \ {c}
    BY <1>2 DEF CallsOf, GrantOf
<1> QED BY <1>3, <1>5, <1>6, <1>7, <1>8

\* How the sum over S becomes the sum over T when only call c changes.
Changed(S, T, c) ==
    /\ Tokens(T, Kept') = Tokens(S, Kept) - Part(S, Kept, c) + Part(T, Kept', c)
    /\ Tokens(T, Capped') = Tokens(S, Capped) - Part(S, Capped, c) + Part(T, Capped', c)
    /\ Part(S, Kept, c) <= Tokens(S, Kept) /\ Part(S, Kept, c) \in Nat
    /\ Part(S, Capped, c) \in Nat
    /\ Tokens(S, Kept) \in Nat /\ Tokens(S, Capped) \in Nat
    /\ Tokens(S, Capped) <= Tokens(S, Kept)

LEMMA SumsChange ==
    ASSUME TypeOK, CallFacts, NEW c \in Calls, CallStep(c)
    PROVE  /\ \A p \in Persons, d \in Days : Changed(ChargedTo(p, d), ChargedTo(p, d)', c)
           /\ \A g \in Grants : Changed(CallsOf(g), CallsOf(g)', c)
<1>0. /\ Kept \in Amounts /\ Kept' \in Amounts /\ Capped \in Amounts /\ Capped' \in Amounts
      /\ \A b \in Calls \ {c} : Kept[b] = Kept'[b] /\ Capped[b] = Capped'[b]
    BY Families
<1>1. \A b \in Calls : Capped[b] <= Kept[b]
    BY RecordOf DEF Capped, Kept, Smaller
<1>2. ASSUME NEW S \in SUBSET Calls, NEW T \in SUBSET Calls, S \ {c} = T \ {c}
      PROVE  Changed(S, T, c)
    <2>1. Tokens(S, Capped) <= Tokens(S, Kept) BY <1>0, <1>1, TokensMonotone
    <2>2. /\ Tokens(T, Kept') = Tokens(S, Kept) - Part(S, Kept, c) + Part(T, Kept', c)
          /\ Part(S, Kept, c) <= Tokens(S, Kept) /\ Part(S, Kept, c) \in Nat
          /\ Tokens(S, Kept) \in Nat
        BY <1>0, <1>2, TokensChange
    <2>3. /\ Tokens(T, Capped') = Tokens(S, Capped) - Part(S, Capped, c) + Part(T, Capped', c)
          /\ Tokens(S, Capped) \in Nat /\ Part(S, Capped, c) \in Nat
        BY <1>0, <1>2, TokensChange
    <2> QED BY <2>1, <2>2, <2>3 DEF Changed
<1>3. \A p \in Persons, d \in Days :
          /\ ChargedTo(p, d) \in SUBSET Calls /\ ChargedTo(p, d)' \in SUBSET Calls
          /\ ChargedTo(p, d) \ {c} = ChargedTo(p, d)' \ {c}
    BY Families
<1>4. \A g \in Grants :
          /\ CallsOf(g) \in SUBSET Calls /\ CallsOf(g)' \in SUBSET Calls
          /\ CallsOf(g) \ {c} = CallsOf(g)' \ {c}
    BY Families
<1> QED BY <1>2, <1>3, <1>4

-----------------------------------------------------------------------------
(* The three kinds of step.                                                *)

\* What call c adds to a person's day.
LEMMA PartOfDay ==
    ASSUME TypeOK, NEW c \in Calls, NEW p \in Persons, NEW d \in Days
    PROVE  /\ Part(ChargedTo(p, d), Kept, c) =
                  IF GrantOf(c) # None /\ RowOf(c) = <<p, d>> THEN call[c].kept ELSE 0
           /\ Part(ChargedTo(p, d), Capped, c) =
                  IF GrantOf(c) # None /\ RowOf(c) = <<p, d>>
                  THEN Smaller(call[c].kept, call[c].most) ELSE 0
BY DEF Part, ChargedTo, Kept, Capped

\* And after the step.
LEMMA PartOfDayNext ==
    ASSUME NEW c \in Calls, NEW p \in Persons, NEW d \in Days
    PROVE  /\ Part(ChargedTo(p, d)', Kept', c) =
                  IF call'[c].grant # None /\ <<PersonOf[call'[c].grant], call'[c].day>> = <<p,
                      d>>
                  THEN call'[c].kept ELSE 0
           /\ Part(ChargedTo(p, d)', Capped', c) =
                  IF call'[c].grant # None /\ <<PersonOf[call'[c].grant], call'[c].day>> = <<p,
                      d>>
                  THEN Smaller(call'[c].kept, call'[c].most) ELSE 0
BY DEF Part, ChargedTo, Kept, Capped, GrantOf, RowOf

\* What it adds to a grant, before and after.
LEMMA PartOfGrant ==
    ASSUME NEW c \in Calls, NEW g \in Grants
    PROVE  /\ Part(CallsOf(g), Kept, c) = IF GrantOf(c) = g THEN call[c].kept ELSE 0
           /\ Part(CallsOf(g), Capped, c) =
                  IF GrantOf(c) = g THEN Smaller(call[c].kept, call[c].most) ELSE 0
           /\ Part(CallsOf(g)', Kept', c) = IF call'[c].grant = g THEN call'[c].kept ELSE 0
           /\ Part(CallsOf(g)', Capped', c) =
                  IF call'[c].grant = g THEN Smaller(call'[c].kept, call'[c].most) ELSE 0
BY DEF Part, CallsOf, Kept, Capped, GrantOf

\* A step that moves no tokens leaves every sum.
LEMMA FreeSums ==
    ASSUME TypeOK, CallFacts, Accounted, Ceilings, NEW c \in Calls, CallStep(c), Free(c)
    PROVE  Accounted' /\ Ceilings'
<1>0. call[c].kept \in Nat /\ call[c].most \in Nat /\ call' \in [Calls -> CallRecords]
    BY RecordOf, CallShape DEF Ordered
<1>1. call'[c].most \in Nat /\ call'[c].kept = call[c].kept
    BY <1>0, Numbers DEF CallRecords, Free
<1>2. Smaller(0, call[c].most) = 0 /\ Smaller(0, call'[c].most) = 0 BY <1>0, <1>1 DEF Smaller
<1>3. \A p \in Persons, d \in Days :
          /\ Tokens(ChargedTo(p, d)', Kept') = Tokens(ChargedTo(p, d), Kept)
          /\ Tokens(ChargedTo(p, d)', Capped') = Tokens(ChargedTo(p, d), Capped)
    <2> SUFFICES ASSUME NEW p \in Persons, NEW d \in Days
        PROVE  /\ Tokens(ChargedTo(p, d)', Kept') = Tokens(ChargedTo(p, d), Kept)
               /\ Tokens(ChargedTo(p, d)', Capped') = Tokens(ChargedTo(p, d), Capped)
        OBVIOUS
    <2>1. /\ Part(ChargedTo(p, d)', Kept', c) = Part(ChargedTo(p, d), Kept, c)
          /\ Part(ChargedTo(p, d)', Capped', c) = Part(ChargedTo(p, d), Capped, c)
        <3>1. CASE call[c].kept = 0 BY <1>1, <1>2, <3>1, PartOfDay, PartOfDayNext
        <3>2. CASE call[c].kept > 0
            BY <1>1, <3>2, PartOfDay, PartOfDayNext DEF Free, GrantOf, RowOf
        <3> QED BY <1>0, <3>1, <3>2
    <2>2. Changed(ChargedTo(p, d), ChargedTo(p, d)', c) BY SumsChange
    <2> QED BY <2>1, <2>2 DEF Changed
<1>4. \A g \in Grants :
          /\ Tokens(CallsOf(g)', Kept') = Tokens(CallsOf(g), Kept)
          /\ Tokens(CallsOf(g)', Capped') = Tokens(CallsOf(g), Capped)
    <2> SUFFICES ASSUME NEW g \in Grants
        PROVE  /\ Tokens(CallsOf(g)', Kept') = Tokens(CallsOf(g), Kept)
               /\ Tokens(CallsOf(g)', Capped') = Tokens(CallsOf(g), Capped)
        OBVIOUS
    <2>1. /\ Part(CallsOf(g)', Kept', c) = Part(CallsOf(g), Kept, c)
          /\ Part(CallsOf(g)', Capped', c) = Part(CallsOf(g), Capped, c)
        <3>1. CASE call[c].kept = 0 BY <1>1, <1>2, <3>1, PartOfGrant
        <3>2. CASE call[c].kept > 0 BY <1>1, <3>2, PartOfGrant DEF Free, GrantOf
        <3> QED BY <1>0, <3>1, <3>2
    <2>2. Changed(CallsOf(g), CallsOf(g)', c) BY SumsChange
    <2> QED BY <2>1, <2>2 DEF Changed
<1> QED BY <1>3, <1>4 DEF Free, Accounted, Ceilings

\* A charge adds the call's most to both ledgers, within the limits.
LEMMA ChargedSums ==
    ASSUME TypeOK, CallFacts, Accounted, Ceilings, NEW c \in Calls, CallStep(c), Charged(c)
    PROVE  Accounted' /\ Ceilings'
<1> DEFINE m == call[c].most
<1>0. /\ call[c].kept = 0 /\ m \in Nat /\ call'[c].kept = m /\ call'[c].most = m
      /\ RowOf(c) \in Persons \X Days /\ GrantOf(c) \in Grants /\ GrantOf(c) # None
      /\ call'[c].grant = GrantOf(c) /\ <<PersonOf[call'[c].grant], call'[c].day>> = RowOf(c)
    BY RecordOf, RowIs, LedgerAssumption DEF Charged, CallFacts, CallFact, RowOf, GrantOf
<1>1. /\ usage \in [Persons \X Days -> Nat] /\ ceiling \in [Persons \X Days -> Nat]
      /\ grantTokens \in [Grants -> Nat]
    BY DEF TypeOK
<1>2. Smaller(0, m) = 0 /\ Smaller(m, m) = m BY <1>0 DEF Smaller
<1>3. ASSUME NEW p \in Persons, NEW d \in Days
      PROVE  /\ usage'[<<p, d>>] = Tokens(ChargedTo(p, d)', Kept')
             /\ Tokens(ChargedTo(p, d)', Capped') <= ceiling'[<<p, d>>]
    <2>1. Changed(ChargedTo(p, d), ChargedTo(p, d)', c) BY SumsChange
    <2>2. usage[<<p, d>>] = Tokens(ChargedTo(p, d), Kept)
          /\ Tokens(ChargedTo(p, d), Capped) <= ceiling[<<p, d>>]
        BY DEF Accounted, Ceilings
    <2>3. CASE RowOf(c) = <<p, d>>
        <3>1. /\ Part(ChargedTo(p, d), Kept, c) = 0 /\ Part(ChargedTo(p, d)', Kept', c) = m
              /\ Part(ChargedTo(p, d), Capped, c) = 0 /\ Part(ChargedTo(p, d)', Capped', c) = m
            BY <1>0, <1>2, <2>3, PartOfDay, PartOfDayNext
        <3>2. usage'[<<p, d>>] = usage[<<p, d>>] + m /\ usage[<<p, d>>] \in Nat
            BY <1>0, <1>1, <2>3 DEF Charged, Charge
        <3>3. ceiling'[<<p, d>>] = Limit(p) /\ usage[<<p, d>>] + m <= Limit(p)
            BY <1>0, <1>1, <2>3 DEF Charged, Charge, Funded
        <3>4. Limit(p) \in Nat
            BY LedgerAssumption DEF Limit, CapOf, Smaller, TypeOK
        <3> QED BY <1>0, <2>1, <2>2, <3>1, <3>2, <3>3, <3>4 DEF Changed
    <2>4. CASE RowOf(c) # <<p, d>>
        <3>1. /\ Part(ChargedTo(p, d), Kept, c) = 0 /\ Part(ChargedTo(p, d)', Kept', c) = 0
              /\ Part(ChargedTo(p, d), Capped, c) = 0 /\ Part(ChargedTo(p, d)', Capped', c) = 0
            BY <1>0, <2>4, PartOfDay, PartOfDayNext
        <3>2. usage'[<<p, d>>] = usage[<<p, d>>] /\ ceiling'[<<p, d>>] = ceiling[<<p, d>>]
            BY <1>1, <2>4 DEF Charged, Charge
        <3> QED BY <2>1, <2>2, <3>1, <3>2 DEF Changed
    <2> QED BY <2>3, <2>4
<1>4. ASSUME NEW g \in Grants, HasBudget(g)
      PROVE  /\ grantTokens'[g] = Tokens(CallsOf(g)', Kept')
             /\ Tokens(CallsOf(g)', Capped') <= BudgetOf[g]
    <2>1. Changed(CallsOf(g), CallsOf(g)', c) BY SumsChange
    <2>2. grantTokens[g] = Tokens(CallsOf(g), Kept)
          /\ Tokens(CallsOf(g), Capped) <= BudgetOf[g]
        BY <1>4 DEF Accounted, Ceilings
    <2>3. CASE GrantOf(c) = g
        <3>1. /\ Part(CallsOf(g), Kept, c) = 0 /\ Part(CallsOf(g)', Kept', c) = m
              /\ Part(CallsOf(g), Capped, c) = 0 /\ Part(CallsOf(g)', Capped', c) = m
            BY <1>0, <1>2, <2>3, PartOfGrant
        <3>2. grantTokens'[g] = grantTokens[g] + m /\ grantTokens[g] \in Nat
            BY <1>0, <1>1, <1>4, <2>3 DEF Charged, Charge
        <3>3. grantTokens[g] + m <= BudgetOf[g]
            BY <1>4, <2>3 DEF Charged, InBudget
        <3>4. BudgetOf[g] \in Nat BY <1>4, LedgerAssumption DEF HasBudget
        <3> QED BY <1>0, <2>1, <2>2, <3>1, <3>2, <3>3, <3>4 DEF Changed
    <2>4. CASE GrantOf(c) # g
        <3>1. /\ Part(CallsOf(g), Kept, c) = 0 /\ Part(CallsOf(g)', Kept', c) = 0
              /\ Part(CallsOf(g), Capped, c) = 0 /\ Part(CallsOf(g)', Capped', c) = 0
            BY <1>0, <2>4, PartOfGrant
        <3>2. grantTokens'[g] = grantTokens[g]
            BY <1>0, <1>1, <2>4 DEF Charged, Charge
        <3> QED BY <2>1, <2>2, <3>1, <3>2 DEF Changed
    <2> QED BY <2>3, <2>4
<1> QED BY <1>3, <1>4 DEF Accounted, Ceilings

\* A settlement replaces the charge by what was reported, on the row of the charge.
LEMMA SettledSums ==
    ASSUME TypeOK, CallFacts, Accounted, Ceilings, NEW c \in Calls, CallStep(c), Settle(c)
    PROVE  Accounted' /\ Ceilings'
<1> DEFINE m == call[c].most
           n == call[c].due
<1>0. /\ call[c].kept = m /\ m \in Nat /\ n \in Nat
      /\ RowOf(c) \in Persons \X Days /\ GrantOf(c) \in Grants /\ GrantOf(c) # None
    <2>1. n # None /\ call[c].kept = m /\ call[c].day \in Days BY DEF Settle, CallFacts, CallFact
    <2>2. call[c].at # "unused" BY <2>1 DEF CallFacts, CallFact, NewCall
    <2> QED BY <2>1, <2>2, RecordOf, RowIs, LedgerAssumption
<1>1. /\ call'[c].kept = n /\ call'[c].most = m /\ call'[c].grant = GrantOf(c)
      /\ <<PersonOf[call'[c].grant], call'[c].day>> = RowOf(c)
    BY DEF Settle, TypeOK, CallRecords, RowOf, GrantOf
<1>2. /\ usage \in [Persons \X Days -> Nat] /\ ceiling \in [Persons \X Days -> Nat]
      /\ grantTokens \in [Grants -> Nat] /\ ceiling' = ceiling
    BY DEF TypeOK, Settle
<1>3. Smaller(m, m) = m /\ Smaller(n, m) \in Nat /\ Smaller(n, m) <= m BY <1>0 DEF Smaller
<1>4. ASSUME NEW t \in Nat, t >= m PROVE Corrected(t, n - m) = t - m + n
    BY <1>0, <1>4 DEF Corrected, Larger
<1>5. ASSUME NEW p \in Persons, NEW d \in Days
      PROVE  /\ usage'[<<p, d>>] = Tokens(ChargedTo(p, d)', Kept')
             /\ Tokens(ChargedTo(p, d)', Capped') <= ceiling'[<<p, d>>]
    <2>1. Changed(ChargedTo(p, d), ChargedTo(p, d)', c) BY SumsChange
    <2>2. usage[<<p, d>>] = Tokens(ChargedTo(p, d), Kept)
          /\ Tokens(ChargedTo(p, d), Capped) <= ceiling[<<p, d>>] /\ ceiling[<<p, d>>] \in Nat
        BY <1>2 DEF Accounted, Ceilings
    <2>3. CASE RowOf(c) = <<p, d>>
        <3>1. /\ Part(ChargedTo(p, d), Kept, c) = m /\ Part(ChargedTo(p, d)', Kept', c) = n
              /\ Part(ChargedTo(p, d), Capped, c) = m
              /\ Part(ChargedTo(p, d)', Capped', c) = Smaller(n, m)
            BY <1>0, <1>1, <1>3, <2>3, PartOfDay, PartOfDayNext
        <3>2. usage[<<p, d>>] \in Nat /\ usage[<<p, d>>] >= m BY <1>2, <2>1, <2>2, <3>1 DEF
            Changed
        <3>3. usage'[<<p, d>>] = Corrected(usage[<<p, d>>], n - m)
            BY <1>0, <1>2, <2>3 DEF Settle, SettledRow
        <3>4. usage'[<<p, d>>] = usage[<<p, d>>] - m + n BY <1>4, <3>2, <3>3
        <3> QED BY <1>0, <1>2, <1>3, <2>1, <2>2, <3>1, <3>4 DEF Changed
    <2>4. CASE RowOf(c) # <<p, d>>
        <3>1. /\ Part(ChargedTo(p, d), Kept, c) = 0 /\ Part(ChargedTo(p, d)', Kept', c) = 0
              /\ Part(ChargedTo(p, d), Capped, c) = 0 /\ Part(ChargedTo(p, d)', Capped', c) = 0
            BY <1>1, <2>4, PartOfDay, PartOfDayNext
        <3>2. usage'[<<p, d>>] = usage[<<p, d>>]
            BY <1>2, <2>4 DEF Settle, SettledRow
        <3> QED BY <1>2, <2>1, <2>2, <3>1, <3>2 DEF Changed
    <2> QED BY <2>3, <2>4
<1>6. ASSUME NEW g \in Grants, HasBudget(g)
      PROVE  /\ grantTokens'[g] = Tokens(CallsOf(g)', Kept')
             /\ Tokens(CallsOf(g)', Capped') <= BudgetOf[g]
    <2>1. Changed(CallsOf(g), CallsOf(g)', c) BY SumsChange
    <2>2. grantTokens[g] = Tokens(CallsOf(g), Kept)
          /\ Tokens(CallsOf(g), Capped) <= BudgetOf[g] /\ BudgetOf[g] \in Nat
        BY <1>6, LedgerAssumption DEF Accounted, Ceilings, HasBudget
    <2>3. CASE GrantOf(c) = g
        <3>1. /\ Part(CallsOf(g), Kept, c) = m /\ Part(CallsOf(g)', Kept', c) = n
              /\ Part(CallsOf(g), Capped, c) = m /\ Part(CallsOf(g)', Capped', c) = Smaller(n, m)
            BY <1>0, <1>1, <1>3, <2>3, PartOfGrant
        <3>2. grantTokens[g] \in Nat /\ grantTokens[g] >= m BY <1>2, <2>1, <2>2, <3>1 DEF Changed
        <3>3. grantTokens'[g] = Corrected(grantTokens[g], n - m)
            BY <1>0, <1>2, <1>6, <2>3 DEF Settle
        <3>4. grantTokens'[g] = grantTokens[g] - m + n BY <1>4, <3>2, <3>3
        <3> QED BY <1>0, <1>3, <2>1, <2>2, <3>1, <3>4 DEF Changed
    <2>4. CASE GrantOf(c) # g
        <3>1. /\ Part(CallsOf(g), Kept, c) = 0 /\ Part(CallsOf(g)', Kept', c) = 0
              /\ Part(CallsOf(g), Capped, c) = 0 /\ Part(CallsOf(g)', Capped', c) = 0
            BY <1>1, <2>4, PartOfGrant
        <3>2. grantTokens'[g] = grantTokens[g] BY <1>2, <2>4 DEF Settle
        <3> QED BY <2>1, <2>2, <3>1, <3>2 DEF Changed
    <2> QED BY <2>3, <2>4
<1> QED BY <1>5, <1>6 DEF Accounted, Ceilings

\* Every step of a call keeps the ledgers exact and within the limits.
LEMMA LedgersStep ==
    ASSUME TypeOK, CallFacts, Accounted, Ceilings, NEW c \in Calls, CallStep(c)
    PROVE  Accounted' /\ Ceilings'
BY LedgerKinds, FreeSums, ChargedSums, SettledSums

-----------------------------------------------------------------------------
(* Types.                                                                  *)

\* Correcting a total gives a total.
LEMMA CorrectedType ==
    ASSUME NEW t \in Nat, NEW delta \in Int
    PROVE  Corrected(t, delta) \in Nat
BY DEF Corrected, Larger

\* A limit is a number.
LEMMA LimitType ==
    ASSUME TypeOK, NEW p \in Persons
    PROVE  Limit(p) \in Nat
BY LedgerAssumption DEF TypeOK, Limit, CapOf, Smaller

\* The types of what a step of a call may change besides the call.
Shared ==
    /\ usage \in [Persons \X Days -> Nat] /\ grantTokens \in [Grants -> Nat]
    /\ ceiling \in [Persons \X Days -> Nat]
    /\ blockers \in [Persons \X Days -> Nat]
    /\ faults \in [Grants -> {None, "fault", "spent"}]
    /\ lanes \subseteq Grants /\ made \in [Grants -> Nat]
    /\ standing \in [Calls -> SUBSET {"day", "visit"}]
    /\ sends \in [Grants -> Nat]

LEMMA SharedStep ==
    ASSUME TypeOK, CallFacts, NEW c \in Calls, CallStep(c)
    PROVE  Shared'
<1>0. /\ Shared /\ call \in [Calls -> CallRecords] /\ call[c] \in CallRecords
      /\ call[c].most \in Nat /\ call[c].seen \in Nat
    BY RecordOf DEF TypeOK, Shared
<1>r. call[c].at # "unused" /\ call[c].day \in Days =>
          /\ RowOf(c) \in Persons \X Days /\ GrantOf(c) \in Grants
          /\ RowOf(c)[1] \in Persons
          /\ usage[RowOf(c)] \in Nat /\ grantTokens[GrantOf(c)] \in Nat
          /\ blockers[RowOf(c)] \in Nat /\ Limit(RowOf(c)[1]) \in Nat
    <2> SUFFICES ASSUME call[c].at # "unused", call[c].day \in Days
        PROVE  /\ RowOf(c) \in Persons \X Days /\ GrantOf(c) \in Grants
               /\ RowOf(c)[1] \in Persons
               /\ usage[RowOf(c)] \in Nat /\ grantTokens[GrantOf(c)] \in Nat
               /\ blockers[RowOf(c)] \in Nat /\ Limit(RowOf(c)[1]) \in Nat
        OBVIOUS
    <2>1. RowOf(c) \in Persons \X Days /\ GrantOf(c) \in Grants BY RowIs
    <2>2. RowOf(c)[1] \in Persons BY <2>1
    <2> QED BY <1>0, <2>1, <2>2, LimitType DEF Shared
<1>g. call[c].at # "unused" => GrantOf(c) \in Grants BY DEF CallFacts, CallFact
<1>d. call[c].at \notin {"unused", "admitted", "ended"} => call[c].day \in Days
    BY DEF CallFacts, CallFact
<1>l. ASSUME lanes' = Freed(c) PROVE lanes' \subseteq Grants BY <1>0, <1>l DEF Freed, Shared
<1>c. ASSUME Charge(c), call[c].at = "reserving"
      PROVE  /\ usage' \in [Persons \X Days -> Nat] /\ grantTokens' \in [Grants -> Nat]
             /\ ceiling' \in [Persons \X Days -> Nat]
    <2>1. /\ RowOf(c) \in Persons \X Days /\ usage[RowOf(c)] + call[c].most \in Nat
          /\ GrantOf(c) \in Grants /\ grantTokens[GrantOf(c)] + call[c].most \in Nat
          /\ Limit(RowOf(c)[1]) \in Nat
        BY <1>0, <1>r, <1>d, <1>c
    <2>2. usage' = [usage EXCEPT ![RowOf(c)] = usage[RowOf(c)] + call[c].most]
        BY <1>0, <1>c, <2>1 DEF Charge, Shared
    <2>3. grantTokens' \in [Grants -> Nat] BY <1>0, <1>c, <2>1 DEF Charge, Shared
    <2>4. ceiling' = [ceiling EXCEPT ![RowOf(c)] = Limit(RowOf(c)[1])] BY <1>c DEF Charge
    <2> QED BY <1>0, <2>1, <2>2, <2>3, <2>4 DEF Shared
<1>1. ASSUME NEW g \in Grants, Admit(c, g) PROVE Shared'
    BY <1>0, <1>1 DEF Admit, Shared, ledgers, said
<1>2. ASSUME NEW most \in 1..MaxEstimate, Prepare(c, most) PROVE Shared'
    BY <1>0, <1>2 DEF Prepare, Shared, ledgers, said, memory
<1>3. ASSUME Reserve(c) PROVE Shared'
    BY <1>0, <1>3, <1>c DEF Reserve, Shared, said, memory
<1>4. ASSUME NEW note \in BOOLEAN, AnswerLost(c, note) PROVE Shared'
    BY <1>0, <1>4, <1>c, <1>l DEF AnswerLost, Shared, said
<1>5. ASSUME TooMany(c) PROVE Shared'
    BY <1>0, <1>5, <1>l DEF TooMany, Leave, Shared, ledgers, said
<1>6. ASSUME NEW note \in BOOLEAN, RefuseDay(c, note) PROVE Shared'
    <2>1. /\ RowOf(c) \in Persons \X Days /\ GrantOf(c) \in Grants
          /\ Larger(blockers[RowOf(c)], call[c].most) \in Nat
        BY <1>0, <1>6, <1>r, <1>d DEF RefuseDay, Larger
    <2>2. /\ blockers' = [blockers EXCEPT ![RowOf(c)] = Larger(blockers[RowOf(c)], call[c].most)]
          /\ faults' = [faults EXCEPT ![GrantOf(c)] = "spent"]
          /\ standing' = [standing EXCEPT ![c] = {"day", "visit"}]
          /\ UNCHANGED <<usage, grantTokens, ceiling, made, sends>>
        BY <1>0, <1>6 DEF RefuseDay, Leave, ledgers, Shared
    <2>3. lanes' \subseteq Grants BY <1>6, <1>l DEF RefuseDay, Leave
    <2> QED BY <1>0, <2>1, <2>2, <2>3 DEF Shared
<1>7. ASSUME NEW note \in BOOLEAN, RefuseBudget(c, note) PROVE Shared'
    <2>0. /\ RowOf(c) \in Persons \X Days
          /\ usage[RowOf(c)] + call[c].most \in Nat /\ -call[c].most \in Int
        BY <1>0, <1>7, <1>r, <1>d DEF RefuseBudget
    <2>1. Corrected(usage[RowOf(c)] + call[c].most, -call[c].most) \in Nat
        BY <2>0, CorrectedType
    <2>2. usage' \in [Persons \X Days -> Nat] BY <1>0, <1>7, <2>0, <2>1 DEF RefuseBudget, Shared
    <2>3. lanes' \subseteq Grants BY <1>7, <1>l DEF RefuseBudget, Leave
    <2> QED BY <1>0, <1>7, <2>2, <2>3 DEF RefuseBudget, Leave, Shared, said
<1>8. ASSUME NEW note \in BOOLEAN, ReserveFails(c, note) PROVE Shared'
    BY <1>0, <1>8, <1>l DEF ReserveFails, Leave, Shared, ledgers, said
<1>9. ASSUME Count(c) PROVE Shared'
    BY <1>0, <1>9, <1>g DEF Count, Shared, ledgers, said
<1>10. ASSUME NEW bill \in 0..Top, Send(c, bill) PROVE Shared'
    BY <1>0, <1>10, <1>g DEF Send, Shared, ledgers, said
<1>11. ASSUME Report(c) PROVE Shared'
    BY <1>0, <1>11 DEF Report, Shared, ledgers, said, memory
<1>12. ASSUME NEW note \in BOOLEAN, FailUnbilled(c, note) PROVE Shared'
    BY <1>0, <1>12, <1>l DEF FailUnbilled, Shared, ledgers, said
<1>13. ASSUME NEW note \in BOOLEAN, Stop(c, note) PROVE Shared'
    BY <1>0, <1>13, <1>l DEF Stop, Leave, Shared, ledgers, said
<1>14. ASSUME Settle(c) PROVE Shared'
    <2>1. /\ call[c].due \in Nat /\ call[c].day \in Days /\ call[c].at # "unused"
        BY <1>14, RecordOf DEF Settle, CallFacts, CallFact, NewCall
    <2>2. /\ RowOf(c) \in Persons \X Days /\ GrantOf(c) \in Grants
          /\ Corrected(usage[RowOf(c)], call[c].due - call[c].most) \in Nat
          /\ Corrected(grantTokens[GrantOf(c)], call[c].due - call[c].most) \in Nat
        <3>1. /\ RowOf(c) \in Persons \X Days /\ GrantOf(c) \in Grants
              /\ usage[RowOf(c)] \in Nat /\ grantTokens[GrantOf(c)] \in Nat
              /\ call[c].due - call[c].most \in Int
            BY <1>0, <1>r, <2>1
        <3> QED BY <3>1, CorrectedType
    <2>3. usage' = [usage EXCEPT ![RowOf(c)] =
                        Corrected(usage[RowOf(c)], call[c].due - call[c].most)]
        BY <1>0, <1>14, <2>2 DEF Settle, SettledRow, Shared
    <2>4. \/ grantTokens' = grantTokens
          \/ grantTokens' = [grantTokens EXCEPT ![GrantOf(c)] =
                                Corrected(grantTokens[GrantOf(c)], call[c].due - call[c].most)]
        BY <1>0, <1>14, <2>2 DEF Settle, Shared
    <2>5. usage' \in [Persons \X Days -> Nat] /\ grantTokens' \in [Grants -> Nat]
        BY <1>0, <2>2, <2>3, <2>4 DEF Shared
    <2> QED BY <1>0, <1>14, <2>5 DEF Settle, Shared, said, memory
<1>15. ASSUME NoteFault(c) PROVE Shared'
    BY <1>0, <1>15 DEF NoteFault, Noted, Shared, ledgers, memory
<1>16. ASSUME CallbackFails(c) PROVE Shared'
    BY <1>0, <1>16 DEF CallbackFails, Shared, ledgers, said, memory
<1> QED BY <1>1, <1>2, <1>3, <1>4, <1>5, <1>6, <1>7, <1>8, <1>9, <1>10, <1>11, <1>12, <1>13,
           <1>14, <1>15, <1>16
        DEF CallStep, Reserving

\* No step of a call touches the day or the limits.
LEMMA SettingsStay ==
    ASSUME NEW c \in Calls, CallStep(c)
    PROVE  UNCHANGED <<settings, today>>
BY DEF CallStep, Reserving, Admit, TooMany, Prepare, Reserve, RefuseDay, RefuseBudget, AnswerLost,
       ReserveFails, Count, Send, Report, FailUnbilled, Stop, Settle, NoteFault, CallbackFails,
       memory

\* A step of a call keeps the invariant.
LEMMA CallKeeps ==
    ASSUME IInv, NEW c \in Calls, CallStep(c)
    PROVE  IInv'
<1>1. TypeOK /\ CallFacts /\ LaneFacts /\ CountFacts /\ RefusalStands /\ Accounted /\ Ceilings
    BY DEF IInv, Control
<1>2. Ordered(c) BY <1>1, CallShape
<1>3. TypeOK'
    <2>1. Shared' BY <1>1, SharedStep
    <2>2. UNCHANGED <<settings, today>> BY SettingsStay
    <2> QED BY <1>1, <1>2, <2>1, <2>2 DEF Ordered, TypeOK, Shared, settings
<1>4. CallFacts'
    <2>1. \A b \in Calls \ {c} : CallFact(b)'
        BY <1>1, <1>2 DEF Ordered, Only, CallFacts, CallFact, GrantOf
    <2> QED BY <1>2, <2>1 DEF Ordered, CallFacts
<1>5. LaneFacts' /\ CountFacts' BY <1>1, LanesStep, CountsStep
<1>6. RefusalStands' BY <1>1, RefusalsStep
<1>7. Accounted' /\ Ceilings' BY <1>1, LedgersStep
<1> QED BY <1>3, <1>4, <1>5, <1>6, <1>7 DEF IInv, Control

-----------------------------------------------------------------------------
(* The other steps.                                                        *)

\* A change of a limit lets today's refusal of the person go, and moves no tokens.
LEMMA SettingKeeps ==
    ASSUME IInv, NEW p \in Persons, Setting(p)
    PROVE  IInv'
<1>1. TypeOK /\ CallFacts /\ LaneFacts /\ CountFacts /\ RefusalStands /\ Accounted /\ Ceilings
    BY DEF IInv, Control
<1>2. /\ Lifted(p)
      /\ caps' \in [Persons -> Nat \cup {None}] /\ own' \in [Persons -> Nat \cup {None}]
    BY <1>1, LedgerAssumption DEF Setting, SetTokenCap, SetDailyTokens, TypeOK
<1>3. /\ UNCHANGED <<usage, grantTokens, ceiling, lanes, made, sends, today, call, faults>>
      /\ changes' = changes + 1
      /\ blockers' = [blockers EXCEPT ![<<p, today>>] = 0]
      /\ standing' = [c \in Calls |-> IF standing[c] # {} /\ RowOf(c) = <<p, today>>
                                      THEN standing[c] \ {"day"} ELSE standing[c]]
    BY <1>2 DEF Lifted, ledgers, memory
<1>4. /\ blockers \in [Persons \X Days -> Nat] /\ <<p, today>> \in Persons \X Days
      /\ standing \in [Calls -> SUBSET {"day", "visit"}]
    BY <1>1 DEF TypeOK
<1>5. \A c \in Calls : standing'[c] \subseteq standing[c] /\ standing'[c] \in SUBSET {"day",
    "visit"}
    BY <1>3, <1>4
<1>6. \A c \in Calls : RowOf(c)' = RowOf(c) /\ GrantOf(c)' = GrantOf(c)
    BY <1>3 DEF RowOf, GrantOf
<1>7. TypeOK'
    <2>1. blockers' \in [Persons \X Days -> Nat] BY <1>3, <1>4
    <2>2. standing' \in [Calls -> SUBSET {"day", "visit"}] BY <1>3, <1>5
    <2> QED BY <1>1, <1>2, <1>3, <2>1, <2>2 DEF TypeOK
<1>8. CallFacts' BY <1>1, <1>3, <1>5, <1>6 DEF CallFacts, CallFact
<1>9. LaneFacts' /\ CountFacts' BY <1>1, <1>3 DEF LaneFacts, CountFacts, Admitted, GrantOf
<1>10. RefusalStands'
    <2>1. \A c \in Calls : standing[c] # {} =>
              RowOf(c) \in Persons \X Days /\ GrantOf(c) \in Grants
        BY <1>1, RowIs DEF CallFacts, CallFact
    <2>2. \A c \in Calls : "day" \in standing'[c] => blockers'[RowOf(c)'] >= call'[c].most
        BY <1>1, <1>3, <1>4, <1>6, <2>1 DEF RefusalStands
    <2>3. \A c \in Calls : "visit" \in standing'[c] => faults'[GrantOf(c)'] = "spent"
        BY <1>1, <1>3, <1>5, <1>6 DEF RefusalStands
    <2>4. \A r \in Persons \X Days :
              blockers'[r] > 0 => \E c \in Calls : "day" \in standing'[c] /\ RowOf(c)' = r
        <3> SUFFICES ASSUME NEW r \in Persons \X Days, blockers'[r] > 0
            PROVE  \E c \in Calls : "day" \in standing'[c] /\ RowOf(c)' = r
            OBVIOUS
        <3>1. r # <<p, today>> /\ blockers[r] > 0 BY <1>3, <1>4
        <3>2. PICK c \in Calls : "day" \in standing[c] /\ RowOf(c) = r
            BY <1>1, <3>1 DEF RefusalStands
        <3>3. standing'[c] = standing[c] BY <1>3, <3>1, <3>2
        <3> QED BY <1>6, <3>2, <3>3
    <2> QED BY <2>2, <2>3, <2>4 DEF RefusalStands
<1>11. Accounted' /\ Ceilings'
    BY <1>1, <1>3 DEF Accounted, Ceilings, ChargedTo, CallsOf, Kept, Capped, GrantOf, RowOf
<1> QED BY <1>7, <1>8, <1>9, <1>10, <1>11 DEF IInv, Control

\* What a restart leaves of each call.
LEMMA LostCall ==
    ASSUME TypeOK, CallFacts, NEW past \in SUBSET Grants, Restart(past), NEW c \in Calls
    PROVE  /\ call'[c] \in CallRecords
           /\ call'[c].grant = call[c].grant /\ call'[c].day = call[c].day
           /\ call'[c].most = call[c].most /\ call'[c].kept = call[c].kept
           /\ call'[c].bill = call[c].bill
           /\ call'[c].due = None /\ ~Admitted(c)'
           /\ IF call[c].at = "unused" THEN call'[c] = call[c] ELSE call'[c].at = "ended"
           /\ standing'[c] \subseteq standing[c]
<1>1. call'[c] = Lost(c) /\ call[c] \in CallRecords /\ CallFact(c)
    BY DEF Restart, TypeOK, CallFacts
<1>2. CASE call[c].at = "unused"
    <2>1. call'[c] = call[c] /\ call[c] = NewCall /\ standing[c] = {}
        BY <1>1, <1>2 DEF Lost, CallFact
    <2>2. call'[c].due = None /\ call'[c].at = "unused" BY <2>1 DEF NewCall
    <2>3. standing'[c] = {} BY <2>1 DEF Restart
    <2> QED BY <1>1, <1>2, <2>1, <2>2, <2>3 DEF Admitted
<1>3. CASE call[c].at # "unused"
    <2>1. call'[c] = [call[c] EXCEPT !.at = "ended", !.due = None, !.note = FALSE]
        BY <1>1, <1>3 DEF Lost
    <2> QED BY <1>1, <1>3, <2>1 DEF CallRecords, Admitted, Restart
<1> QED BY <1>2, <1>3

\* A restart forgets what is in flight and leaves the ledgers as they are.
LEMMA RestartKeeps ==
    ASSUME IInv, NEW past \in SUBSET Grants, Restart(past)
    PROVE  IInv'
<1>1. TypeOK /\ CallFacts /\ LaneFacts /\ CountFacts /\ RefusalStands /\ Accounted /\ Ceilings
    BY DEF IInv, Control
<1>2. /\ UNCHANGED <<usage, grantTokens, ceiling, blockers, caps, own, changes, today>>
      /\ call' = [c \in Calls |-> Lost(c)] /\ lanes' = {}
      /\ made' = [g \in Grants |-> 0] /\ sends' = [g \in Grants |-> 0]
      /\ faults' = [g \in Grants |-> IF g \in past THEN None ELSE faults[g]]
      /\ standing' = [c \in Calls |-> IF GrantOf(c) \in past THEN standing[c] \ {"visit"}
                                      ELSE standing[c]]
    BY DEF Restart, ledgers, settings
<1>3. \A c \in Calls : /\ call'[c] \in CallRecords
                       /\ call'[c].grant = call[c].grant /\ call'[c].day = call[c].day
                       /\ call'[c].most = call[c].most /\ call'[c].kept = call[c].kept
                       /\ call'[c].bill = call[c].bill
                       /\ call'[c].due = None /\ ~Admitted(c)'
                       /\ IF call[c].at = "unused" THEN call'[c] = call[c]
                          ELSE call'[c].at = "ended"
                       /\ standing'[c] \subseteq standing[c]
    BY <1>1, LostCall
<1>4. \A c \in Calls : RowOf(c)' = RowOf(c) /\ GrantOf(c)' = GrantOf(c)
    BY <1>3 DEF RowOf, GrantOf
<1>5. TypeOK'
    <2>1. call' \in [Calls -> CallRecords] BY <1>2, <1>3
    <2>2. faults' \in [Grants -> {None, "fault", "spent"}] BY <1>1, <1>2 DEF TypeOK
    <2>3. standing' \in [Calls -> SUBSET {"day", "visit"}]
        BY <1>1, <1>2 DEF TypeOK
    <2> QED BY <1>1, <1>2, <2>1, <2>2, <2>3 DEF TypeOK
<1>6. CallFacts'
    <2> SUFFICES ASSUME NEW c \in Calls PROVE CallFact(c)' BY DEF CallFacts
    <2>1. CallFact(c) BY <1>1 DEF CallFacts
    <2>2. CASE call[c].at = "unused" BY <1>3, <2>1, <2>2 DEF CallFact, NewCall, GrantOf
    <2>3. CASE call[c].at # "unused" BY <1>3, <2>1, <2>3 DEF CallFact, GrantOf
    <2> QED BY <2>2, <2>3
<1>7. LaneFacts' BY <1>3 DEF LaneFacts
<1>8. CountFacts'
    <2>1. \A c \in Calls : call'[c].at \notin {"reserving", "charged", "counted"}
        BY <1>3 DEF Admitted
    <2> QED BY <1>2, <2>1, Numbers DEF CountFacts
<1>9. RefusalStands'
    <2>1. \A c \in Calls : /\ "day" \in standing'[c] <=> "day" \in standing[c]
                           /\ "visit" \in standing'[c] =>
                                  "visit" \in standing[c] /\ GrantOf(c) \notin past
        BY <1>2
    <2>2. \A c \in Calls : standing[c] # {} => GrantOf(c) \in Grants
        BY <1>1 DEF CallFacts, CallFact
    <2>3. \A c \in Calls : "visit" \in standing'[c] => faults'[GrantOf(c)'] = "spent"
        BY <1>1, <1>2, <1>4, <2>1, <2>2 DEF RefusalStands
    <2> QED BY <1>1, <1>2, <1>3, <1>4, <2>1, <2>3 DEF RefusalStands
<1>10. Accounted' /\ Ceilings'
    <2>1. Kept' = Kept /\ Capped' = Capped BY <1>3 DEF Kept, Capped
    <2>2. \A p \in Persons, d \in Days : ChargedTo(p, d)' = ChargedTo(p, d)
        BY <1>4 DEF ChargedTo
    <2>3. \A g \in Grants : CallsOf(g)' = CallsOf(g) BY <1>4 DEF CallsOf
    <2> QED BY <1>1, <1>2, <2>1, <2>2, <2>3 DEF Accounted, Ceilings
<1> QED BY <1>5, <1>6, <1>7, <1>8, <1>9, <1>10 DEF IInv, Control

\* At midnight nothing moves but the day.
LEMMA MidnightKeeps ==
    ASSUME IInv, Midnight
    PROVE  IInv'
<1>1. UNCHANGED <<ledgers, said, settings, memory, call>> /\ today' \in Days
    BY LedgerAssumption DEF Midnight, IInv, Control, TypeOK, Days
<1>2. TypeOK' /\ CallFacts' /\ LaneFacts' /\ CountFacts'
    BY <1>1 DEF IInv, Control, TypeOK, CallFacts, CallFact, LaneFacts, CountFacts, Admitted,
        GrantOf,
                ledgers, said, settings, memory
<1>3. RefusalStands' /\ Accounted' /\ Ceilings'
    BY <1>1 DEF IInv, RefusalStands, Accounted, Ceilings, ChargedTo, CallsOf, Kept, Capped,
        GrantOf,
                RowOf, ledgers, said
<1> QED BY <1>2, <1>3 DEF IInv, Control

\* And when nothing moves at all.
LEMMA StutterKeeps ==
    ASSUME IInv, UNCHANGED vars
    PROVE  IInv'
<1>1. UNCHANGED <<ledgers, said, settings, memory, call, today>> BY DEF vars
<1>2. TypeOK' /\ CallFacts' /\ LaneFacts' /\ CountFacts'
    BY <1>1 DEF IInv, Control, TypeOK, CallFacts, CallFact, LaneFacts, CountFacts, Admitted,
        GrantOf,
                ledgers, said, settings, memory
<1>3. RefusalStands' /\ Accounted' /\ Ceilings'
    BY <1>1 DEF IInv, RefusalStands, Accounted, Ceilings, ChargedTo, CallsOf, Kept, Capped,
        GrantOf,
                RowOf, ledgers, said
<1> QED BY <1>2, <1>3 DEF IInv, Control

-----------------------------------------------------------------------------
(* Before the first call.                                                  *)

\* The sum over no calls, and the sum of nothing.
LEMMA NoTokens ==
    ASSUME NEW S \in SUBSET Calls, NEW amount \in Amounts, \A c \in S : amount[c] = 0
    PROVE  Tokens(S, amount) = 0
<1>1. TokensOf(S, amount) = {}
    <2> SUFFICES ASSUME NEW t \in S \X (1..Top), t[2] <= amount[t[1]] PROVE FALSE
        BY DEF TokensOf
    <2>1. t[1] \in S /\ t[2] \in 1..Top OBVIOUS
    <2> QED BY <2>1, Numbers
<1> QED BY <1>1, TokensFinite, FS_EmptySet

\* The invariant holds at the start.
LEMMA InitIInv ==
    ASSUME Init
    PROVE  IInv
<1>1. \A c \in Calls : call[c] = NewCall /\ standing[c] = {} BY DEF Init
<1>n. /\ 0 \in Nat /\ 0 \in 0..Top /\ 0 \in 0..MaxDays /\ 0 \in 0..MaxEstimate
      /\ 0 \in 0..MaxRequests
    BY Numbers
<1>2. NewCall \in CallRecords BY <1>n DEF NewCall, CallRecords
<1>3. TypeOK
    <2>1. call \in [Calls -> CallRecords] BY <1>2 DEF Init
    <2>2. today \in Days BY LedgerAssumption DEF Init, Days
    <2> QED BY <2>1, <2>2, LedgerAssumption DEF Init, TypeOK, Days
<1>4. CallFacts
    <2>1. Smaller(0, 0) <= 0 BY DEF Smaller
    <2>2. ASSUME NEW c \in Calls PROVE CallFact(c)
        <3>1. call[c] = NewCall /\ standing[c] = {} BY <1>1
        <3>2. /\ NewCall.at = "unused" /\ NewCall.due = None /\ NewCall.kept = 0
              /\ NewCall.bill = 0 /\ NewCall.most = 0
            BY DEF NewCall
        <3> QED BY <2>1, <3>1, <3>2 DEF CallFact
    <2> QED BY <2>2 DEF CallFacts
<1>5. \A c \in Calls : ~Admitted(c) BY <1>1 DEF Admitted, NewCall
<1>6. LaneFacts BY <1>5 DEF LaneFacts
<1>7. CountFacts BY <1>1, Numbers DEF Init, CountFacts, NewCall
<1>8. RefusalStands BY <1>1 DEF Init, RefusalStands
<1>9. Accounted /\ Ceilings
    <2>1. Smaller(0, 0) = 0 BY DEF Smaller
    <2>2. /\ Kept = [c \in Calls |-> 0] /\ Capped = [c \in Calls |-> 0]
        BY <1>1, <2>1 DEF Kept, Capped, NewCall
    <2>3. Kept \in Amounts /\ Capped \in Amounts BY <1>n, <2>2 DEF Amounts
    <2>4. \A S \in SUBSET Calls : Tokens(S, Kept) = 0 /\ Tokens(S, Capped) = 0
        <3> SUFFICES ASSUME NEW S \in SUBSET Calls
            PROVE  Tokens(S, Kept) = 0 /\ Tokens(S, Capped) = 0
            OBVIOUS
        <3>1. \A c \in S : Kept[c] = 0 /\ Capped[c] = 0 BY <2>2
        <3> QED BY <2>3, <3>1, NoTokens
    <2>5. \A p \in Persons, d \in Days : ChargedTo(p, d) \in SUBSET Calls BY DEF ChargedTo
    <2>6. \A g \in Grants : CallsOf(g) \in SUBSET Calls BY DEF CallsOf
    <2>7. \A g \in Grants : HasBudget(g) => BudgetOf[g] \in Nat
        BY LedgerAssumption DEF HasBudget
    <2> QED BY <2>4, <2>5, <2>6, <2>7 DEF Init, Accounted, Ceilings
<1> QED BY <1>3, <1>4, <1>6, <1>7, <1>8, <1>9 DEF IInv, Control

-----------------------------------------------------------------------------
(* What holds.                                                             *)

\* The invariant holds whatever calls, people and restarts do.
THEOREM Invariant == Spec => []IInv
<1>1. Init => IInv BY InitIInv
<1>2. IInv /\ [Next]_vars => IInv'
    <2> SUFFICES ASSUME IInv, [Next]_vars PROVE IInv' OBVIOUS
    <2>1. ASSUME NEW c \in Calls, CallStep(c) PROVE IInv' BY <2>1, CallKeeps
    <2>2. ASSUME NEW p \in Persons, Setting(p) PROVE IInv' BY <2>2, SettingKeeps
    <2>3. ASSUME Midnight PROVE IInv' BY <2>3, MidnightKeeps
    <2>4. ASSUME NEW past \in SUBSET Grants, Restart(past) PROVE IInv' BY <2>4, RestartKeeps
    <2>5. ASSUME UNCHANGED vars PROVE IInv' BY <2>5, StutterKeeps
    <2> QED BY <2>1, <2>2, <2>3, <2>4, <2>5, NextSteps
<1> QED BY <1>1, <1>2, PTL DEF Spec

\* The variables have their types.
THEOREM TypeCorrect == Spec => []TypeOK
<1>1. IInv => TypeOK BY DEF IInv, Control
<1> QED BY <1>1, Invariant, PTL

\* Both ledgers hold of each call its charge, or what it was settled to, on the day it was charged
\* and on its grant (tokenLedger.reserve and settle, and the callbacks of the relay).
THEOREM LedgersExact == Spec => []Accounted
<1>1. IInv => Accounted BY DEF IInv
<1> QED BY <1>1, Invariant, PTL

\* What calls cost, up to their estimates, is within the limit of the day and the budget of the
\* grant, since what they cost is within what is held of them (tokenLedger.reserve).
THEOREM NobodyOverspends == Spec => []NeverOverspent
<1>1. IInv => NeverOverspent
    <2> SUFFICES ASSUME IInv PROVE NeverOverspent OBVIOUS
    <2>0. TypeOK /\ CallFacts /\ Ceilings BY DEF IInv, Control
    <2>1. \A c \in Calls :
              /\ Smaller(call[c].bill, call[c].most) \in 0..Top
              /\ Smaller(call[c].kept, call[c].most) \in 0..Top
              /\ Smaller(call[c].bill, call[c].most) <= Smaller(call[c].kept, call[c].most)
        <3> SUFFICES ASSUME NEW c \in Calls
            PROVE  /\ Smaller(call[c].bill, call[c].most) \in 0..Top
                   /\ Smaller(call[c].kept, call[c].most) \in 0..Top
                   /\ Smaller(call[c].bill, call[c].most) <= Smaller(call[c].kept, call[c].most)
            OBVIOUS
        <3>1. /\ call[c].most \in Nat /\ call[c].most <= Top
              /\ call[c].kept \in Nat /\ call[c].bill \in Nat
            BY <2>0, RecordOf
        <3>2. Smaller(call[c].bill, call[c].most) <= call[c].kept BY <2>0 DEF CallFacts, CallFact
        <3> QED BY <3>1, <3>2, Numbers DEF Smaller
    <2>2. Cost \in Amounts /\ Capped \in Amounts BY <2>1 DEF Cost, Capped, Amounts
    <2>3. \A c \in Calls : Cost[c] <= Capped[c] BY <2>1 DEF Cost, Capped
    <2>4. \A S \in SUBSET Calls : /\ Tokens(S, Cost) <= Tokens(S, Capped)
                                  /\ Tokens(S, Cost) \in Nat /\ Tokens(S, Capped) \in Nat
        BY <2>2, <2>3, TokensMonotone, TokensFinite
    <2>5. \A p \in Persons, d \in Days :
              ChargedTo(p, d) \in SUBSET Calls /\ ceiling[<<p, d>>] \in Nat
        BY <2>0 DEF ChargedTo, TypeOK
    <2>6. \A g \in Grants : CallsOf(g) \in SUBSET Calls /\ (HasBudget(g) => BudgetOf[g] \in Nat)
        BY LedgerAssumption DEF CallsOf, HasBudget
    <2>7. \A p \in Persons, d \in Days : Tokens(ChargedTo(p, d), Cost) <= ceiling[<<p, d>>]
        <3> SUFFICES ASSUME NEW p \in Persons, NEW d \in Days
            PROVE  Tokens(ChargedTo(p, d), Cost) <= ceiling[<<p, d>>]
            OBVIOUS
        <3>1. /\ Tokens(ChargedTo(p, d), Cost) <= Tokens(ChargedTo(p, d), Capped)
              /\ Tokens(ChargedTo(p, d), Cost) \in Nat
              /\ Tokens(ChargedTo(p, d), Capped) \in Nat
            BY <2>4, <2>5
        <3>2. Tokens(ChargedTo(p, d), Capped) <= ceiling[<<p, d>>] BY <2>0 DEF Ceilings
        <3>3. ceiling[<<p, d>>] \in Nat BY <2>5
        <3> QED BY <3>1, <3>2, <3>3
    <2>8. \A g \in Grants : HasBudget(g) => Tokens(CallsOf(g), Cost) <= BudgetOf[g]
        BY <2>0, <2>4, <2>6 DEF Ceilings
    <2> QED BY <2>7, <2>8 DEF NeverOverspent
<1> QED BY <1>1, Invariant, PTL

\* A refusal holds its person's day until a limit is changed, and is said of its visit whatever
\* else the visit's calls note (tokenLedger.reserve, and the relay's fault callback).
THEOREM RefusalsStand == Spec => []RefusalStands
<1>1. IInv => RefusalStands BY DEF IInv
<1> QED BY <1>1, Invariant, PTL

\* The lane of a grant serves one call at a time, and so no more calls of it go out than are
\* allowed (the relay's active set and its made counts).
THEOREM CallsAreBounded == Spec => []CallsBounded
<1>1. IInv => CallsBounded
    <2> SUFFICES ASSUME IInv PROVE CallsBounded OBVIOUS
    <2>1. LaneFacts /\ CountFacts /\ TypeOK BY DEF IInv, Control
    <2>2. \A g \in Grants : sends[g] \in Nat /\ made[g] \in Nat BY <2>1 DEF TypeOK
    <2>3. \A g \in Grants : sends[g] <= MaxRequests BY <2>1, <2>2, Numbers DEF CountFacts
    <2> QED BY <2>1, <2>3 DEF LaneFacts, CallsBounded
<1> QED BY <1>1, Invariant, PTL

=============================================================================

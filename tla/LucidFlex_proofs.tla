-------------------------- MODULE LucidFlex_proofs --------------------------
(***************************************************************************)
(* Proofs about LucidFlexAccount for every ruleset LucidAssumption allows, all*)
(* from one inductive invariant; and that its two drivers keep             *)
(* AttemptContract.                                                        *)
(***************************************************************************)
EXTENDS LucidDrivers, FiniteSetTheorems, TLAPS

OpenAboveMll == phase \in Active => balance > mll

\* Nothing was paid out before the account was funded, and a funded account has a
\* payout left.
EvalIsUnpaid == phase \in {"eval", "breached_eval"} => payouts = 0
FundedCanPay == phase = "funded" => payouts < MaxSimPayouts

\* On the first day of an evaluation the day's P&L is the account's profit.
FirstDay == phase = "eval" /\ seen.sessions = 0 => best = 0 /\ day = balance - LucidStart

\* A profitable day is a session closed since the last payout.
DaysAreSessions == seen.sessions >= profDays

Safe == /\ OpenAboveMll /\ MllTrails /\ EvalIsUnpaid /\ FundedCanPay
        /\ FirstDay /\ DaysAreSessions
IInv == TypeOK /\ Safe

USE LucidAssumption, LucidBoundsAssumption

\* A close never lowers the MLL nor lifts it to the balance or over the lock, and
\* keeps its closed form.
LEMMA TrailBounds ==
    ASSUME NEW b \in Int, NEW m \in Int, m <= LockedMll
    PROVE  /\ LucidTrail(b, m) \in Int
           /\ LucidTrail(b, m) >= m /\ LucidTrail(b, m) <= LockedMll
           /\ b > m => b > LucidTrail(b, m)
           /\ m = LockedMll => LucidTrail(b, m) = LockedMll
BY DEF LucidTrail, Higher, Lower

\* The closed form of the trail survives a close.
LEMMA TrailIsClosedForm ==
    ASSUME NEW b \in Int, NEW h \in Int
    PROVE  LucidTrail(b, Lower(LockedMll, h - LucidMaxLoss))
             = Lower(LockedMll, Higher(h, b) - LucidMaxLoss)
BY DEF LucidTrail, Higher, Lower

\* A payout that is granted leaves more than the lock.
LEMMA PayoutLeavesProfit ==
    ASSUME TypeOK, PayoutEligible
    PROVE  /\ Request \in Int /\ Request > 0
           /\ balance - Request > LockedMll
<1> DEFINE profit == balance - LucidStart
<1>1. profit \in Int /\ balance \in Int
  BY DEF TypeOK
<1>2. profit \div 2 \in Int /\ 2 * (profit \div 2) <= profit
  BY <1>1
<1>3. Request > 0 /\ Request = LucidRequest(profit)
  BY DEF PayoutEligible, Request
<1>4. /\ Request = Lower(profit \div 2, LucidPayoutMax)
      /\ profit > 0 /\ Request >= LucidPayoutMin
  <2>1. Lower(profit \div 2, LucidPayoutMax) \in Int
    BY <1>2 DEF Lower
  <2> QED
    BY <1>1, <1>3, <2>1 DEF LucidRequest
<1>5. Request \in Int /\ Request <= profit \div 2
  BY <1>2, <1>4 DEF Lower
<1>6. profit - Request >= Request
  BY <1>1, <1>2, <1>5
<1>7. profit - Request >= LucidPayoutMin
  BY <1>1, <1>4, <1>5, <1>6
<1>8. profit - Request > LockedMll - LucidStart
  BY <1>1, <1>5, <1>7
<1> QED
  BY <1>1, <1>3, <1>5, <1>8

\* Nobody passes on the first day: the day would be the whole profit.
LEMMA FirstDayFails ==
    ASSUME NEW b \in Int, NEW d \in Int, d = b - LucidStart
    PROVE  ~EvalCanPass(b, 0, d)
BY DEF EvalCanPass, LucidConsistencyOk, Higher

-----------------------------------------------------------------------------
(* The inductive invariant, action by action                                 *)

\* A new evaluation satisfies the invariant.
LEMMA InitInv == Init => IInv
<1> SUFFICES ASSUME Init PROVE IInv
  OBVIOUS
<1>1. TypeOK
  BY DEF Init, TypeOK, Phases, InitialMll, Fresh
<1>2. OpenAboveMll /\ MllTrails
  BY DEF Init, OpenAboveMll, MllTrails, InitialMll, Fresh, Lower
<1>3. EvalIsUnpaid /\ FundedCanPay /\ FirstDay /\ DaysAreSessions
  BY DEF Init, EvalIsUnpaid, FundedCanPay, FirstDay, DaysAreSessions, Fresh
<1> QED
  BY <1>1, <1>2, <1>3 DEF IInv, Safe

\* A pristine account, funded or reset, satisfies the invariant.
LEMMA StartOverInv ==
    ASSUME NEW ph \in {"eval", "funded"}, StartOver(ph), payouts' = 0,
           resets' \in 0..LucidMaxResets
    PROVE  IInv'
<1>1. TypeOK'
  BY DEF StartOver, TypeOK, Phases, InitialMll, Fresh
<1>2. (OpenAboveMll /\ MllTrails)'
  BY DEF StartOver, OpenAboveMll, MllTrails, InitialMll, Fresh, Lower
<1>3. (EvalIsUnpaid /\ FundedCanPay /\ FirstDay /\ DaysAreSessions)'
  BY DEF StartOver, EvalIsUnpaid, FundedCanPay, FirstDay, DaysAreSessions, Fresh
<1> QED
  BY <1>1, <1>2, <1>3 DEF IInv, Safe

\* update() keeps the invariant.
LEMMA UpdateInv ==
    ASSUME IInv, NEW t \in LucidTrades, Update(t)
    PROVE  IInv'
<1>t. TypeOK /\ t \in Int
  BY DEF IInv
<1>i. /\ OpenAboveMll /\ MllTrails /\ EvalIsUnpaid /\ FundedCanPay
      /\ FirstDay /\ DaysAreSessions
  BY DEF IInv, Safe
<1>1. CASE Passes(t)
  <2>1. StartOver("funded") /\ payouts' = 0 /\ resets' \in 0..LucidMaxResets
    BY <1>1, <1>t, <1>i DEF Update, Passes, EvalIsUnpaid, TypeOK
  <2> QED
    BY <2>1, StartOverInv
<1>2. CASE ~Passes(t)
  <2>1. ApplyTrade(t) /\ phase \in Active /\ UNCHANGED <<payouts, resets>>
    BY <1>2 DEF Update
  <2>2. TypeOK'
    BY <1>t, <2>1 DEF ApplyTrade, TypeOK, Phases
  <2>3. OpenAboveMll' /\ MllTrails'
    BY <1>t, <1>i, <2>1 DEF ApplyTrade, OpenAboveMll, MllTrails, Active
  <2>4. EvalIsUnpaid' /\ FundedCanPay' /\ DaysAreSessions'
    BY <1>t, <1>i, <2>1 DEF ApplyTrade, Active, EvalIsUnpaid, FundedCanPay, DaysAreSessions
  <2>5. FirstDay'
    BY <1>t, <1>i, <2>1 DEF ApplyTrade, Active, FirstDay, TypeOK
  <2> QED
    BY <2>2, <2>3, <2>4, <2>5 DEF IInv, Safe
<1> QED
  BY <1>1, <1>2

\* What the close of a day does to the MLL, in the evaluation and funded alike.
LEMMA CloseMll ==
    ASSUME IInv, mll' = LucidTrail(balance, mll), UNCHANGED <<phase, balance, payouts>>,
           seen'.high = Higher(seen.high, balance)
    PROVE  mll' \in Int /\ OpenAboveMll' /\ MllTrails' /\ mll' >= mll
<1>t. balance \in Int /\ mll \in Int /\ seen.high \in Int
  BY DEF IInv, TypeOK
<1>1. MllTrails /\ OpenAboveMll
  BY DEF IInv, Safe
<1>2. mll <= LockedMll
  BY <1>t, <1>1 DEF MllTrails, Lower
<1>3. mll' \in Int /\ OpenAboveMll' /\ mll' >= mll
  BY <1>t, <1>1, <1>2, TrailBounds DEF OpenAboveMll
<1>4. MllTrails'
  <2>1. CASE payouts > 0
    BY <1>t, <1>1, <1>2, <2>1, TrailBounds DEF MllTrails
  <2>2. CASE ~(payouts > 0)
    BY <1>t, <1>1, <2>2, TrailIsClosedForm DEF MllTrails
  <2> QED
    BY <2>1, <2>2
<1> QED
  BY <1>3, <1>4

\* close_day() keeps the invariant.
LEMMA CloseInv ==
    ASSUME IInv, CloseDay
    PROVE  IInv'
<1>t. TypeOK
  BY DEF IInv
<1>i. EvalIsUnpaid /\ FundedCanPay /\ FirstDay /\ DaysAreSessions
  BY DEF IInv, Safe
<1>s. /\ Higher(seen.high, balance) \in Int
      /\ OneMore(seen.sessions) \in 0..(ProfitDays + 1) /\ OneMore(seen.sessions) > 0
  BY <1>t DEF TypeOK, Higher, OneMore, Lower
<1>1. CASE CloseEvalDay
  <2> DEFINE passes == EvalCanPass(balance, Higher(best, day), 0)
  <2>1. CASE passes
    <3>1. StartOver("funded") /\ payouts' = 0 /\ resets' \in 0..LucidMaxResets
      BY <1>1, <1>t, <1>i, <2>1 DEF CloseEvalDay, EvalIsUnpaid, TypeOK
    <3> QED
      BY <3>1, StartOverInv
  <2>2. CASE ~passes
    <3>1. /\ phase = "eval" /\ mll' = LucidTrail(balance, mll)
          /\ day' = 0 /\ best' = Higher(best, day)
          /\ seen' = [high |-> Higher(seen.high, balance), sessions |-> OneMore(seen.sessions)]
          /\ UNCHANGED <<phase, balance, profDays, cycleStart, payouts, resets>>
      BY <1>1, <2>2 DEF CloseEvalDay
    <3>2. seen'.high = Higher(seen.high, balance) /\ seen'.sessions = OneMore(seen.sessions)
      BY <3>1
    <3>3. mll' \in Int /\ OpenAboveMll' /\ MllTrails'
      BY <3>1, <3>2, CloseMll
    <3>4. best' \in Nat
      BY <1>t, <3>1 DEF TypeOK, Higher
    <3>5. TypeOK'
      BY <1>t, <1>s, <3>1, <3>3, <3>4 DEF TypeOK
    <3>6. EvalIsUnpaid' /\ FundedCanPay' /\ FirstDay'
      BY <1>i, <1>s, <3>1, <3>2 DEF EvalIsUnpaid, FundedCanPay, FirstDay
    <3>7. DaysAreSessions'
      BY <1>t, <1>i, <3>1, <3>2 DEF DaysAreSessions, OneMore, Lower, TypeOK
    <3> QED
      BY <3>3, <3>5, <3>6, <3>7 DEF IInv, Safe
  <2> QED
    BY <2>1, <2>2
<1>2. CASE CloseFundedDay
  <2>1. /\ phase = "funded" /\ mll' = LucidTrail(balance, mll) /\ day' = 0
        /\ profDays' = IF day >= ProfitDay THEN Lower(profDays + 1, ProfitDays) ELSE profDays
        /\ seen' = [high |-> Higher(seen.high, balance), sessions |-> OneMore(seen.sessions)]
        /\ UNCHANGED <<phase, balance, best, cycleStart, payouts, resets>>
    BY <1>2 DEF CloseFundedDay
  <2>2. seen'.high = Higher(seen.high, balance) /\ seen'.sessions = OneMore(seen.sessions)
    BY <2>1
  <2>3. mll' \in Int /\ OpenAboveMll' /\ MllTrails'
    BY <2>1, <2>2, CloseMll
  <2>4. profDays' \in 0..ProfitDays
    BY <1>t, <2>1 DEF TypeOK, Lower
  <2>5. TypeOK'
    BY <1>t, <1>s, <2>1, <2>3, <2>4 DEF TypeOK
  <2>6. EvalIsUnpaid' /\ FundedCanPay' /\ FirstDay'
    BY <1>i, <2>1 DEF EvalIsUnpaid, FundedCanPay, FirstDay
  <2>7. DaysAreSessions'
    BY <1>t, <1>i, <2>1, <2>2 DEF DaysAreSessions, OneMore, Lower, TypeOK
  <2> QED
    BY <2>3, <2>5, <2>6, <2>7 DEF IInv, Safe
<1> QED
  BY <1>1, <1>2 DEF CloseDay

\* What a payout does to the account.
LEMMA PayoutStep ==
    ASSUME IInv, RequestPayout
    PROVE  /\ phase = "funded" /\ payouts' = payouts + 1
           /\ balance' \in Int /\ balance' < balance
           /\ mll' = LockedMll /\ balance' > mll' /\ mll' >= mll
           /\ phase' = IF payouts' = MaxSimPayouts THEN "max_payouts" ELSE "funded"
<1>t. TypeOK /\ MllTrails
  BY DEF IInv, Safe
<1>1. PayoutEligible /\ balance' = balance - Request
  BY DEF RequestPayout
<1>2. Request \in Int /\ Request > 0 /\ balance - Request > LockedMll
  BY <1>t, <1>1, PayoutLeavesProfit
<1>3. phase = "funded" /\ payouts < MaxSimPayouts
  BY <1>1 DEF PayoutEligible
<1>4. mll' = LockedMll /\ payouts' = payouts + 1
  BY DEF RequestPayout
<1>5. balance' \in Int /\ balance' < balance /\ balance' > mll'
  BY <1>t, <1>1, <1>2, <1>4 DEF TypeOK
<1>6. mll' >= mll
  BY <1>t, <1>4 DEF MllTrails, TypeOK, Lower
<1>7. phase' = IF payouts' = MaxSimPayouts THEN "max_payouts" ELSE "funded"
  <2>1. phase' = IF payouts' >= MaxSimPayouts THEN "max_payouts" ELSE phase
    BY <1>4, <1>5, <1>t DEF RequestPayout, TypeOK
  <2>2. payouts' >= MaxSimPayouts <=> payouts' = MaxSimPayouts
    BY <1>t, <1>3, <1>4 DEF TypeOK
  <2> QED
    BY <1>3, <2>1, <2>2
<1> QED
  BY <1>3, <1>4, <1>5, <1>6, <1>7

\* request_payout() keeps the invariant.
LEMMA PayoutInv ==
    ASSUME IInv, RequestPayout
    PROVE  IInv'
<1>t. TypeOK
  BY DEF IInv
<1>1. /\ phase = "funded" /\ payouts' = payouts + 1 /\ balance' \in Int
      /\ mll' = LockedMll /\ balance' > mll'
      /\ phase' = IF payouts' = MaxSimPayouts THEN "max_payouts" ELSE "funded"
  BY PayoutStep
<1>2. /\ payouts < MaxSimPayouts
      /\ day' = 0 /\ profDays' = 0 /\ cycleStart' = balance'
      /\ seen' = [high |-> seen.high, sessions |-> 0]
      /\ UNCHANGED <<best, resets>>
  BY DEF RequestPayout, PayoutEligible
<1>3. TypeOK'
  BY <1>t, <1>1, <1>2 DEF TypeOK, Phases
<1>4. (OpenAboveMll /\ MllTrails)'
  BY <1>t, <1>1 DEF OpenAboveMll, MllTrails, TypeOK
<1>5. (EvalIsUnpaid /\ FundedCanPay /\ FirstDay /\ DaysAreSessions)'
  BY <1>t, <1>1, <1>2 DEF EvalIsUnpaid, FundedCanPay, FirstDay, DaysAreSessions, TypeOK
<1> QED
  BY <1>3, <1>4, <1>5 DEF IInv, Safe

\* Every step keeps the invariant.
LEMMA NextInv == IInv /\ [Next]_vars => IInv'
<1> SUFFICES ASSUME IInv, [Next]_vars PROVE IInv'
  OBVIOUS
<1>1. CASE \E t \in LucidTrades : Update(t)
  BY <1>1, UpdateInv
<1>2. CASE CloseDay
  BY <1>2, CloseInv
<1>3. CASE RequestPayout
  BY <1>3, PayoutInv
<1>4. CASE AttemptReset
  <2>1. payouts' = 0 /\ resets' \in 0..LucidMaxResets
    BY <1>4 DEF AttemptReset, IInv, Safe, EvalIsUnpaid, TypeOK
  <2> QED
    BY <1>4, <2>1, StartOverInv DEF AttemptReset
<1>5. CASE UNCHANGED vars
  BY <1>5 DEF vars, IInv, Safe, TypeOK, OpenAboveMll, MllTrails, EvalIsUnpaid,
              FundedCanPay, FirstDay, DaysAreSessions
<1> QED
  BY <1>1, <1>2, <1>3, <1>4, <1>5 DEF Next

\* The invariant holds in every reachable state.
LEMMA Invariance == Spec => []IInv
BY InitInv, NextInv, PTL DEF Spec

-----------------------------------------------------------------------------
(* The theorems                                                              *)

\* Every variable keeps its type, for every ruleset.
THEOREM TypeCorrect == Spec => []TypeOK
<1>1. IInv => TypeOK
  BY DEF IInv
<1> QED
  BY <1>1, Invariance, PTL

\* The MLL is the published formula of the highest close and the payouts taken.
THEOREM MllAlwaysTrails == Spec => []MllTrails
<1>1. IInv => MllTrails
  BY DEF IInv, Safe
<1> QED
  BY <1>1, Invariance, PTL

\* No evaluation is passed on its first day.
THEOREM PassAlwaysTakesTwoDays == Spec => PassTakesTwoDays
<1>1. IInv /\ [Next]_vars
        => [phase = "eval" /\ phase' = "funded" => seen.sessions >= 1]_vars
  <2> SUFFICES ASSUME IInv, Next, phase = "eval", phase' = "funded"
               PROVE  seen.sessions >= 1
    OBVIOUS
  <2>t. TypeOK /\ FirstDay
    BY DEF IInv, Safe
  <2> SUFFICES ASSUME seen.sessions = 0 PROVE FALSE
    BY <2>t DEF TypeOK
  <2>1. best = 0 /\ day = balance - LucidStart
    BY <2>t DEF FirstDay
  <2>2. ASSUME NEW t \in LucidTrades, Update(t) PROVE FALSE
    <3>1. ~EvalCanPass(balance + t, 0, day + t)
      <4>1. balance \in Int /\ day \in Int /\ t \in Int /\ LucidStart \in Int
        BY <2>t, LucidAssumption, LucidBoundsAssumption DEF TypeOK, LucidAssumption, LucidBoundsAssumption
      <4>2. day + t \in Int /\ balance + t \in Int /\ day + t = (balance + t) - LucidStart
        BY <2>1, <4>1
      <4> QED
        BY <4>2, FirstDayFails
    <3>2. ~Passes(t)
      BY <2>1, <3>1 DEF Passes
    <3> QED
      BY <2>2, <3>2 DEF Update, ApplyTrade
  <2>3. CASE CloseEvalDay
    <3>1. ~EvalCanPass(balance, Higher(0, day), 0)
      BY <2>t, <2>1 DEF EvalCanPass, LucidConsistencyOk, Higher, TypeOK
    <3> QED
      BY <2>1, <2>3, <3>1 DEF CloseEvalDay
  <2>4. CASE CloseFundedDay \/ RequestPayout \/ AttemptReset
    BY <2>4 DEF CloseFundedDay, RequestPayout, PayoutEligible, AttemptReset
  <2> QED
    BY <2>2, <2>3, <2>4 DEF Next, CloseDay
<1> QED
  BY <1>1, Invariance, PTL DEF Spec, PassTakesTwoDays

\* Payouts are the business of RequestPayout alone.
LEMMA OnlyPayoutPays ==
    ASSUME IInv, Next, payouts' > payouts
    PROVE  RequestPayout
<1>1. ~RequestPayout => payouts' = payouts
  BY DEF Next, Update, CloseDay, CloseEvalDay, CloseFundedDay, AttemptReset
<1> QED
  BY <1>1 DEF IInv, TypeOK

\* No payout breaches the account it is paid from, and the last one ends it.
THEOREM PayoutNeverBreaches == Spec => PayoutKeepsOpen
<1>1. IInv /\ [Next]_vars
        => [payouts' > payouts =>
              /\ balance' > mll'
              /\ phase' = IF payouts' = MaxSimPayouts THEN "max_payouts" ELSE "funded"]_vars
  BY OnlyPayoutPays, PayoutStep
<1> QED
  BY <1>1, Invariance, PTL DEF Spec, PayoutKeepsOpen

\* No payout is granted on sessions an earlier one was already granted on.
THEOREM PayoutAlwaysEarned == Spec => PayoutIsEarned
<1>1. IInv /\ [Next]_vars => [payouts' > payouts => seen.sessions >= ProfitDays]_vars
  <2> SUFFICES ASSUME IInv, Next, payouts' > payouts PROVE seen.sessions >= ProfitDays
    OBVIOUS
  <2>1. profDays >= ProfitDays
    BY OnlyPayoutPays DEF RequestPayout, PayoutEligible
  <2>2. seen.sessions >= profDays /\ seen.sessions \in Int /\ profDays \in Int
    BY DEF IInv, Safe, DaysAreSessions, TypeOK
  <2> QED
    BY <2>1, <2>2
<1> QED
  BY <1>1, Invariance, PTL DEF Spec, PayoutIsEarned

\* What a step of the account is for TrailingAccount.
LEMMA StepTrails == IInv /\ IInv' /\ Next => [Trailing!Next]_(Trailing!vars)
<1> SUFFICES ASSUME IInv, IInv', Next PROVE [Trailing!Next]_(Trailing!vars)
  OBVIOUS
<1>t. TypeOK /\ EvalIsUnpaid
  BY DEF IInv, Safe
<1>o. (phase \in Active => balance > mll) /\ (phase' \in Active => balance' > mll')
  BY DEF IInv, Safe, OpenAboveMll
<1>1. ASSUME phase = "eval", StartOver("funded"), UNCHANGED payouts PROVE Trailing!Next
  BY <1>1, <1>o DEF StartOver, Active, Trailing!Next, Trailing!Pass, Trailing!Fresh
<1>2. ASSUME NEW t \in LucidTrades, Update(t) PROVE Trailing!Next
  <2>1. CASE Passes(t)
    BY <1>1, <1>2, <2>1 DEF Update, Passes
  <2>2. CASE ~Passes(t)
    <3>1. ApplyTrade(t) /\ phase \in Active /\ UNCHANGED payouts
      BY <1>2, <2>2 DEF Update
    <3>2. mll' >= mll
      BY <1>t, <3>1 DEF ApplyTrade, TypeOK
    <3>3. (phase' \in Active) = (balance' > mll')
      BY <3>1 DEF ApplyTrade, Active
    <3>4. (phase' \in {"funded", "max_payouts", "breached_funded"})
             = (phase \in {"funded", "max_payouts", "breached_funded"})
      BY <3>1 DEF ApplyTrade, Active
    <3> QED
      BY <3>1, <3>2, <3>3, <3>4 DEF Trailing!Next, Trailing!Trade
  <2> QED
    BY <2>1, <2>2
<1>3. CASE CloseEvalDay /\ StartOver("funded")
  BY <1>1, <1>3 DEF CloseEvalDay
<1>4. CASE (CloseEvalDay /\ ~StartOver("funded")) \/ CloseFundedDay
  <2>1. /\ phase' = phase /\ phase \in Active /\ UNCHANGED <<payouts, balance>>
        /\ mll' = LucidTrail(balance, mll)
        /\ seen'.high = Higher(seen.high, balance)
    BY <1>4 DEF CloseEvalDay, CloseFundedDay, Active
  <2>2. mll' >= mll
    BY <2>1, CloseMll
  <2> QED
    BY <1>o, <2>1, <2>2 DEF Trailing!Next, Trailing!Trade
<1>5. CASE RequestPayout
  <2>1. /\ phase = "funded" /\ payouts' = payouts + 1 /\ balance' < balance
        /\ balance' > mll' /\ mll' >= mll /\ phase' \in {"max_payouts", "funded"}
    BY <1>5, PayoutStep
  <2> QED
    BY <2>1 DEF Active, Trailing!Next, Trailing!Payout
<1>6. CASE AttemptReset
  <2>1. phase = "breached_eval" /\ phase' = "eval" /\ UNCHANGED payouts /\ payouts = 0
    BY <1>6, <1>t DEF AttemptReset, StartOver, EvalIsUnpaid
  <2> QED
    BY <1>o, <2>1 DEF Active, Trailing!Next, Trailing!Restart, Trailing!Fresh
<1> QED
  BY <1>2, <1>3, <1>4, <1>5, <1>6 DEF Next, CloseDay

\* Through every sequence of trades, closes, payouts and resets the account behaves
\* as TrailingAccount specifies.
THEOREM ImplementsTrailing == Spec => Trails
<1>1. Init => Trailing!Init
  BY DEF Init, Active, InitialMll, Trailing!Init
<1>2. IInv /\ IInv' /\ [Next]_vars => [Trailing!Next]_(Trailing!vars)
  <2>1. UNCHANGED vars => UNCHANGED Trailing!vars
    BY DEF vars, Trailing!vars
  <2> QED
    BY <2>1, StepTrails
<1> QED
  BY <1>1, <1>2, Invariance, PTL DEF Spec, Trails, Trailing!Spec

-----------------------------------------------------------------------------
(* The drivers                                                               *)

HIDE LucidAssumption
HIDE LucidBoundsAssumption

Steps == {"day", "trades", "close", "payout", "done"}

\* Where a driver is, what the result says and what phase the account is in agree; a
\* session begins, and a payout is asked for, on an account that trades.
DriverInv ==
    /\ at = "hand" \/ (at \in Steps /\ driver # "hand")
    /\ gross \in Int
    /\ at \in {"day", "trades", "close", "payout"} => result = IF Funded THEN {"passed"} ELSE {}
    /\ at \in {"day", "trades", "payout"} => phase \in Active
    /\ at = "close" => phase \in Active
    /\ at = "payout" => phase = "funded"

\* The status of an account by its phase.
LEMMA StatusOf ==
    /\ phase \in Active => Status = "open"
    /\ phase = "max_payouts" => Status = "retired"
    /\ phase \in {"breached_eval", "breached_funded"} => Status = "breached"
    /\ Funded <=> phase \in {"funded", "max_payouts", "breached_funded"}
<1>1. phase \in Active => Status = "open"
  BY DEF Status, Active
<1>2. phase = "max_payouts" => Status = "retired"
  BY DEF Status, Active
<1>3. phase \in {"breached_eval", "breached_funded"} => Status = "breached"
  BY DEF Status, Active
<1> QED BY <1>1, <1>2, <1>3 DEF Funded

\* The only flag besides "passed" is the reason.
LEMMA OneReason ==
    ASSUME NEW flags, NEW r \in Contract!Reasons,
           flags = {r} \/ flags = {"passed", r}
    PROVE  flags \ {"passed"} = {r} /\ Contract!Cardinality({r}) = 1
<1>1. r # "passed"
  BY DEF Contract!Reasons
<1>2. Cardinality({r}) = 1
  BY FS_Singleton
<1>3. Contract!Cardinality({r}) = Cardinality({r})
  BY DEF Contract!Cardinality, Cardinality
<1> QED BY <1>1, <1>2, <1>3

\* What a trade may make of the account.
LEMMA TradeEffect ==
    ASSUME IInv, NEW t \in LucidTrades, Update(t)
    PROVE  /\ payouts' = payouts /\ phase \in Active
           /\ \/ phase' = phase
              \/ phase = "eval" /\ phase' \in {"funded", "breached_eval"}
              \/ phase = "funded" /\ phase' = "breached_funded"
<1>1. CASE Passes(t)
  BY <1>1 DEF Update, Passes, StartOver
<1>2. CASE ~Passes(t)
  BY <1>2 DEF Update, ApplyTrade, Active
<1> QED BY <1>1, <1>2

\* What a close may make of an account that is not over.
LEMMA CloseEffect ==
    ASSUME CloseDay, phase \in Active
    PROVE  /\ payouts' = payouts
           /\ phase = "eval" => phase' \in {"eval", "funded"}
           /\ phase = "funded" => phase' = "funded"
BY DEF CloseDay, CloseEvalDay, CloseFundedDay, StartOver, Active

\* What a payout makes of it: request_payout may retire it.
LEMMA PayoutEffect ==
    ASSUME IInv, RequestPayout
    PROVE  /\ payouts' = payouts + 1 /\ phase = "funded" /\ phase' \in {"funded", "max_payouts"}
           /\ balance \in Int /\ balance' \in Int /\ balance' < balance
<1>1. balance \in Int
  BY DEF IInv, TypeOK
<1> QED BY <1>1, PayoutStep

\* A driver goes on, without a flag or with one.
LEMMA GotoEffect ==
    ASSUME NEW step, NEW flags, Goto(step, flags)
    PROVE  at' = step /\ result' = result \union flags /\ driver' = driver
BY DEF Goto

-----------------------------------------------------------------------------
(* Kinds of steps: each keeps DriverInv and is a step of AttemptContract      *)

Kept == DriverInv' /\ Contract!Next

\* A session begins.
LEMMA Begins ==
    ASSUME DriverInv, at = "day", at' = "trades", driver # "hand", driver' = driver,
           UNCHANGED <<account, gross, result>>
    PROVE  Kept
<1>1. phase' = phase /\ payouts' = payouts
  BY DEF account, vars
<1>2. Status = "open" /\ Status' = Status /\ Funded' = Funded
  BY <1>1, StatusOf DEF DriverInv, Status, Funded
<1>3. DriverInv'
  BY <1>1, <1>2 DEF DriverInv, Steps
<1>4. Contract!Begin
  BY <1>1, <1>2 DEF Contract!Begin
<1> QED BY <1>3, <1>4 DEF Kept, Contract!Next

\* A trade after which the session goes on, or is over.
LEMMA Trades1 ==
    ASSUME DriverInv, at = "trades", at' \in {"trades", "close"}, driver # "hand", driver' = driver,
           phase' = phase,
           UNCHANGED <<payouts, gross, result>>
    PROVE  Kept
<1>1. Status = "open" /\ Funded' = Funded /\ phase \in Active
  BY StatusOf DEF DriverInv, Funded
<1>2. Status' = "open"
  BY <1>1 DEF Status
<1>3. DriverInv'
  BY <1>1 DEF DriverInv, Steps
<1>4. Contract!Trade
  BY <1>1, <1>2 DEF Contract!Trade
<1> QED BY <1>3, <1>4 DEF Kept, Contract!Next

\* A trade that passes the evaluation.
LEMMA TradePasses ==
    ASSUME DriverInv, at = "trades", at' = "day", driver # "hand", driver' = driver,
           phase = "eval", phase' = "funded", result' = result \union {"passed"},
           UNCHANGED <<payouts, gross>>
    PROVE  Kept
<1>1. Status = "open" /\ ~Funded /\ Funded' /\ result = {}
  BY StatusOf DEF DriverInv, Funded
<1>2. Status' = "open" /\ result' = {"passed"}
  BY <1>1 DEF Status, Active
<1>3. DriverInv'
  BY <1>1, <1>2 DEF DriverInv, Steps, Active
<1>4. Contract!Trade
  BY <1>1, <1>2 DEF Contract!Trade
<1> QED BY <1>3, <1>4 DEF Kept, Contract!Next

\* The close of a day.
LEMMA Closes ==
    ASSUME DriverInv, at = "close", driver # "hand", driver' = driver, CloseDay,
           at' = IF phase = "funded" THEN "payout" ELSE "day",
           result' = result \union IF phase' = "funded" THEN {"passed"} ELSE {},
           UNCHANGED gross
    PROVE  Kept
<1>1. /\ phase \in Active /\ payouts' = payouts
      /\ phase' \in Active /\ (phase = "funded" => phase' = "funded")
  BY CloseEffect DEF DriverInv, Active
<1>2. Status' = "open" /\ (Funded <=> phase = "funded") /\ (Funded' <=> phase' = "funded")
  BY <1>1 DEF Status, Funded, Active
<1>3. result' = IF Funded' THEN {"passed"} ELSE {}
  BY <1>1, <1>2 DEF DriverInv
<1>4. DriverInv'
  BY <1>1, <1>2, <1>3 DEF DriverInv, Steps
<1>5. Contract!Close
  BY <1>1, <1>2, <1>3 DEF Contract!Close
<1> QED BY <1>4, <1>5 DEF Kept, Contract!Next

\* A payout that is refused.
LEMMA PaysNot ==
    ASSUME DriverInv, at = "payout", at' = "day", driver # "hand", driver' = driver,
           phase' = "funded", result' = result, payouts' = payouts, gross' = gross
    PROVE  Kept
<1>1. Status = "open" /\ Funded /\ Status' = "open" /\ Funded'
  BY StatusOf DEF DriverInv, Funded, Status, Active
<1>2. DriverInv'
  BY <1>1 DEF DriverInv, Steps, Active
<1>3. Contract!Payout
  BY <1>1 DEF Contract!Payout, Contract!Paid
<1> QED BY <1>2, <1>3 DEF Kept, Contract!Next

\* A payout that is paid, and does not end the attempt.
LEMMA Pays ==
    ASSUME DriverInv, at = "payout", at' = "day", driver # "hand", driver' = driver,
           phase' = "funded", result' = result,
           payouts' = payouts + 1, gross' > gross, gross' \in Int
    PROVE  Kept
<1>1. Status = "open" /\ Funded /\ Status' = "open" /\ Funded'
  BY StatusOf DEF DriverInv, Funded, Status, Active
<1>2. DriverInv'
  BY <1>1 DEF DriverInv, Steps, Active
<1>3. Contract!Payout
  BY <1>1 DEF Contract!Payout, Contract!Paid
<1> QED BY <1>2, <1>3 DEF Kept, Contract!Next

\* The end of the attempt, for one reason.
LEMMA Finishes ==
    ASSUME DriverInv, at \in {"day", "trades", "payout"}, at' = "done",
           driver # "hand", driver' = driver, Funded' = Funded,
           NEW r \in Contract!Reasons, result' = result \union {r},
           \/ UNCHANGED <<payouts, gross>> /\ gross' \in Int
           \/ at = "payout" /\ payouts' = payouts + 1 /\ gross' > gross /\ gross' \in Int,
           Funded <=> r \notin {"eval_breach", "eval_timeout"},
           Status' = "breached" <=> r \in {"eval_breach", "closed"},
           Status' = "retired" => r = "capped"
    PROVE  Kept
<1>1. result' = IF Funded THEN {"passed", r} ELSE {r}
  BY DEF DriverInv
<1>2. result' \ {"passed"} = {r} /\ Contract!Cardinality({r}) = 1 /\ r # "passed"
  BY <1>1, OneReason DEF Contract!Reasons
<1>3. "passed" \in result' <=> Funded'
  BY <1>1, <1>2
<1>4. Contract!Verdict(result' \ {"passed"}, Funded', Status')
  <2>1. /\ {r} \cap {"eval_breach", "eval_timeout"} = {} <=> r \notin {"eval_breach", "eval_timeout"}
        /\ {r} \cap {"eval_breach", "closed"} # {} <=> r \in {"eval_breach", "closed"}
        /\ {r} \subseteq Contract!Reasons
    OBVIOUS
  <2>2. Funded' <=> {r} \cap {"eval_breach", "eval_timeout"} = {}
    BY <2>1
  <2>3. Status' = "breached" <=> {r} \cap {"eval_breach", "closed"} # {}
    BY <2>1
  <2>4. Contract!Verdict({r}, Funded', Status')
    BY <1>2, <2>1, <2>2, <2>3, Zenon DEF Contract!Verdict
  <2> QED BY <1>2, <2>4
<1>5. Contract!Finish
  <2>1. Contract!Paid /\ (payouts' # payouts => at = "payout")
    BY DEF Contract!Paid
  <2> QED BY <1>3, <1>4, <2>1 DEF Contract!Finish
<1>6. DriverInv'
  BY DEF DriverInv, Steps
<1> QED BY <1>5, <1>6 DEF Kept, Contract!Next

-----------------------------------------------------------------------------
(* The pipeline's and the replay's steps                                     *)

\* A trade of either phase, by either driver.
LEMMA TradeKept ==
    ASSUME IInv, DriverInv, at = "trades", driver # "hand", NEW t \in LucidTrades, Update(t), gross' = gross,
           \/ phase' = "breached_eval" /\ Goto("done", {"eval_breach"})
           \/ phase = "eval" /\ phase' = "funded" /\ Goto("day", {"passed"})
           \/ phase' = "breached_funded" /\ Goto("done", {"closed"})
           \/ phase' = phase /\ NextTrade
    PROVE  Kept
<1>1. /\ payouts' = payouts /\ phase \in Active
      /\ \/ phase' = phase
         \/ phase = "eval" /\ phase' \in {"funded", "breached_eval"}
         \/ phase = "funded" /\ phase' = "breached_funded"
  BY TradeEffect
<1>2. CASE phase' = "breached_eval" /\ Goto("done", {"eval_breach"})
  <2>1. at' = "done" /\ result' = result \union {"eval_breach"} /\ driver' = driver
    BY <1>2, GotoEffect
  <2>2. ~Funded /\ ~Funded' /\ Funded' = Funded /\ Status' = "breached"
    BY <1>1, <1>2 DEF Funded, Status, Active
  <2>3. gross' \in Int
    BY DEF DriverInv
  <2> QED BY <1>1, <2>1, <2>2, <2>3, Finishes DEF Contract!Reasons
<1>3. CASE phase = "eval" /\ phase' = "funded" /\ Goto("day", {"passed"})
  BY <1>1, <1>3, GotoEffect, TradePasses
<1>4. CASE phase' = "breached_funded" /\ Goto("done", {"closed"})
  <2>1. at' = "done" /\ result' = result \union {"closed"} /\ driver' = driver
    BY <1>4, GotoEffect
  <2>2. Funded /\ Funded' /\ Funded' = Funded /\ Status' = "breached"
    BY <1>1, <1>4 DEF Funded, Status, Active
  <2>3. gross' \in Int
    BY DEF DriverInv
  <2> QED BY <1>1, <2>1, <2>2, <2>3, Finishes DEF Contract!Reasons
<1>5. CASE phase' = phase /\ NextTrade
  <2>1. at' \in {"trades", "close"} /\ result' = result /\ driver' = driver
    BY <1>5 DEF NextTrade
  <2> QED BY <1>1, <1>5, <2>1, Trades1
<1> QED BY <1>2, <1>3, <1>4, <1>5

\* An attempt on an account that trades is over, for a reason the account bears out.
LEMMA TimesOut ==
    ASSUME DriverInv, at \in {"day", "payout"}, driver # "hand", UNCHANGED account, gross' = gross,
           NEW r \in {"eval_timeout", "funded_timeout", "capped"},
           Goto("done", {r}), Funded <=> r # "eval_timeout"
    PROVE  Kept
<1>1. phase' = phase /\ payouts' = payouts
  BY DEF account, vars
<1>2. at' = "done" /\ result' = result \union {r} /\ driver' = driver
  BY GotoEffect
<1>3. Funded' = Funded /\ Status' = Status /\ Status = "open"
  BY <1>1, StatusOf DEF DriverInv, Funded, Status
<1>4. gross' \in Int /\ r \in Contract!Reasons
  BY DEF DriverInv, Contract!Reasons
<1> QED BY <1>1, <1>2, <1>3, <1>4, Finishes

\* Passed is what the driver keeps of the phase.
LEMMA PassedIsFunded ==
    ASSUME DriverInv, at \in {"day", "trades", "close", "payout"}
    PROVE  /\ Passed <=> Funded
           /\ at \in {"day", "trades", "close"} => (Passed <=> phase = "funded") /\ (~Passed <=> phase = "eval")
BY DEF DriverInv, Passed, Funded, Active

\* A session begins.
LEMMA BeginKept ==
    ASSUME DriverInv, at = "day", driver # "hand", UNCHANGED account, BeginEvalDay \/ BeginFundedDay
    PROVE  Kept
<1>1. at' = "trades" /\ driver' = driver /\ UNCHANGED <<gross, result>>
  BY DEF BeginEvalDay, BeginFundedDay
<1> QED BY <1>1, Begins

\* The close of a session.
LEMMA CloseKept ==
    ASSUME DriverInv, at = "close", driver # "hand", gross' = gross, CloseDay,
           \/ phase = "eval" /\ Goto("day", IF phase' = "funded" THEN {"passed"} ELSE {})
           \/ phase = "funded" /\ Goto("payout", {})
    PROVE  Kept
<1>1. CASE phase = "eval" /\ Goto("day", IF phase' = "funded" THEN {"passed"} ELSE {})
  <2>1. /\ at' = "day" /\ result' = result \union IF phase' = "funded" THEN {"passed"} ELSE {}
        /\ driver' = driver
    BY <1>1, GotoEffect
  <2> QED BY <1>1, <2>1, Closes
<1>2. CASE phase = "funded" /\ Goto("payout", {})
  <2>1. at' = "payout" /\ result' = result /\ driver' = driver
    BY <1>2, GotoEffect
  <2>2. phase' = "funded" /\ result = {"passed"}
    BY <1>2, CloseEffect DEF Active, DriverInv, Funded
  <2>3. result' = result \union IF phase' = "funded" THEN {"passed"} ELSE {}
    BY <2>1, <2>2
  <2> QED BY <1>2, <2>1, <2>3, Closes
<1> QED BY <1>1, <1>2

\* A payout that was refused.
LEMMA RefusedKept ==
    ASSUME DriverInv, at = "payout", driver # "hand", UNCHANGED account, gross' = gross, Goto("day", {})
    PROVE  Kept
<1>1. at' = "day" /\ result' = result /\ driver' = driver
  BY GotoEffect
<1>2. phase' = phase /\ payouts' = payouts /\ phase = "funded"
  BY DEF account, vars, DriverInv
<1>3. phase' = "funded" /\ result' = result /\ payouts' = payouts
  BY <1>1, <1>2
<1> QED BY <1>1, <1>3, PaysNot

\* What was paid is counted.
LEMMA GrossGrows ==
    ASSUME NEW g \in Int, NEW b \in Int, NEW c \in Int, c < b
    PROVE  g + b - c \in Int /\ g + b - c > g
OBVIOUS

\* A payout that was made: the account stays open, or it was the last one, which ends
\* the attempt; it never breaches.
LEMMA PaidKept ==
    ASSUME IInv, DriverInv, at = "payout", driver # "hand", RequestPayout,
           gross' = gross + balance - balance',
           \/ phase' = "max_payouts" /\ Goto("done", {"capped"})
           \/ phase' = "funded" /\ Goto("day", {})
    PROVE  Kept
<1>1. /\ payouts' = payouts + 1 /\ phase = "funded"
      /\ balance \in Int /\ balance' \in Int /\ balance' < balance
  BY PayoutEffect
<1>g. gross' = gross + balance - balance'
  OBVIOUS
<1>2. gross' > gross /\ gross' \in Int
  <2>1. gross \in Int
    BY DEF DriverInv
  <2> QED BY <1>1, <1>g, <2>1, GrossGrows
<1>3. CASE phase' = "funded" /\ Goto("day", {})
  <2>1. at' = "day" /\ result' = result /\ driver' = driver
    BY <1>3, GotoEffect
  <2> QED BY <1>1, <1>2, <1>3, <2>1, Pays
<1>4. CASE phase' = "max_payouts" /\ Goto("done", {"capped"})
  <2>1. at' = "done" /\ result' = result \union {"capped"} /\ driver' = driver
    BY <1>4, GotoEffect
  <2>2. phase = "funded"
    BY <1>1
  <2>3. Funded /\ Funded' /\ Funded' = Funded /\ Status' = "retired"
    BY <1>1, <1>4, <2>2 DEF Funded, Status, Active
  <2> QED BY <1>1, <1>2, <2>1, <2>3, Finishes DEF Contract!Reasons
<1> QED BY <1>3, <1>4

\* simulate_lucidflex_pipeline.
LEMMA PipelineKept ==
    ASSUME IInv, DriverInv, PipelineEval \/ PipelineFunded
    PROVE  Kept
<1>p. driver # "hand"
  BY DEF PipelineEval, PipelineFunded, PipelineEvalDay, PipelineEvalTrade, PipelineEvalClose, PipelineFundedDay,
         PipelineFundedTrade, PipelineFundedClose, PipelineRefused, PipelinePayout, Pipeline
<1>1. CASE PipelineEvalDay
  <2>1. at = "day" /\ ~Funded
    BY <1>1, PassedIsFunded DEF PipelineEvalDay, Pipeline
  <2> QED BY <1>1, <1>p, <2>1, BeginKept, TimesOut DEF PipelineEvalDay
<1>2. ASSUME NEW t \in LucidTrades, PipelineEvalTrade(t) PROVE Kept
  <2>1. at = "trades" /\ phase = "eval" /\ gross' = gross
    BY <1>2, PassedIsFunded DEF PipelineEvalTrade, Pipeline
  <2>2. Update(t)
    BY <1>2 DEF PipelineEvalTrade
  <2>3. phase' \in {"eval", "funded", "breached_eval"}
    BY <2>1, <2>2, TradeEffect
  <2>4. \/ phase' = "breached_eval" /\ Goto("done", {"eval_breach"})
        \/ phase = "eval" /\ phase' = "funded" /\ Goto("day", {"passed"})
        \/ phase' = phase /\ NextTrade
    BY <1>2, <2>1, <2>3 DEF PipelineEvalTrade
  <2> QED BY <1>p, <2>1, <2>2, <2>4, TradeKept
<1>3. CASE PipelineEvalClose
  <2>1. at = "close" /\ phase = "eval"
    BY <1>3, PassedIsFunded DEF PipelineEvalClose, Pipeline
  <2> QED BY <1>3, <1>p, <2>1, CloseKept DEF PipelineEvalClose
<1>4. CASE PipelineFundedDay
  <2>1. at = "day" /\ phase = "funded" /\ Funded
    BY <1>4, PassedIsFunded DEF PipelineFundedDay, Pipeline
  <2>2. \/ BeginFundedDay
        \/ gross' = gross /\ Goto("done", {"funded_timeout"} \union {})
    BY <1>4, <2>1 DEF PipelineFundedDay, Breach
  <2>3. UNCHANGED account
    BY <1>4 DEF PipelineFundedDay
  <2>4. {"funded_timeout"} \union {} = {"funded_timeout"}
    OBVIOUS
  <2> QED BY <1>p, <2>1, <2>2, <2>3, <2>4, BeginKept, TimesOut
<1>5. CASE PipelineFundedTrade
  <2>1. at = "trades" /\ phase = "funded" /\ gross' = gross
    BY <1>5, PassedIsFunded DEF PipelineFundedTrade, Pipeline
  <2>2. PICK t \in LucidTrades : Update(t)
    BY <1>5 DEF PipelineFundedTrade
  <2>3. phase' \in {"funded", "breached_funded"}
    BY <2>1, <2>2, TradeEffect
  <2>4. \/ phase' = "breached_funded" /\ Goto("done", {"closed"})
        \/ phase' = phase /\ NextTrade
    BY <1>5, <2>1, <2>3 DEF PipelineFundedTrade
  <2> QED BY <1>p, <2>1, <2>2, <2>4, TradeKept
<1>6. CASE PipelineRefused
  <2>1. at = "payout" /\ Goto("day", {}) /\ gross' = gross /\ UNCHANGED account
    BY <1>6 DEF PipelineRefused, Pipeline
  <2> QED BY <1>p, <2>1, RefusedKept
<1>7. CASE PipelineFundedClose
  <2>1. at = "close" /\ phase = "funded"
    BY <1>7, PassedIsFunded DEF PipelineFundedClose, Pipeline
  <2> QED BY <1>7, <1>p, <2>1, CloseKept DEF PipelineFundedClose
<1>8. CASE PipelinePayout
  <2>1. at = "payout" /\ RequestPayout /\ gross' = gross + balance - balance'
    BY <1>8 DEF PipelinePayout, Pipeline
  <2>2. phase' \in {"funded", "max_payouts"}
    BY <2>1, PayoutEffect
  <2>3. CASE phase' = "max_payouts"
    <3>1. Goto("done", {"capped"})
      BY <1>8, <2>3 DEF PipelinePayout
    <3> QED BY <1>p, <2>1, <2>3, <3>1, PaidKept
  <2>4. CASE phase' = "funded"
    <3>1. Goto("day", {})
      BY <1>8, <2>4 DEF PipelinePayout
    <3> QED BY <1>p, <2>1, <2>4, <3>1, PaidKept
  <2> QED BY <2>2, <2>3, <2>4
<1> QED BY <1>1, <1>2, <1>3, <1>4, <1>5, <1>6, <1>7, <1>8 DEF PipelineEval, PipelineFunded

\* simulate_lucidflex_trade_replay.
LEMMA ReplayKept ==
    ASSUME IInv, DriverInv, ReplayNext
    PROVE  Kept
<1>p. driver # "hand"
  BY DEF ReplayNext, ReplayDay, ReplayEnds, ReplayNoMoreTrades, ReplayEvalTrade, ReplayEvalClose,
         ReplayFundedTrade, ReplayFundedClose, ReplayRefused, ReplayPayout, Replay
<1>1. CASE ReplayDay
  BY <1>1, <1>p, BeginKept DEF ReplayDay, Replay
<1>2. CASE ReplayEnds
  <2>1. at = "day" /\ UNCHANGED account /\ gross' = gross
    BY <1>2 DEF ReplayEnds, Replay
  <2>2. (Passed <=> Funded) /\ phase = IF Passed THEN "funded" ELSE "eval"
    BY <2>1, PassedIsFunded DEF DriverInv, Active
  <2>3. CASE ~Passed
    <3>1. Goto("done", {"eval_timeout"})
      BY <1>2, <2>2, <2>3 DEF ReplayEnds
    <3> QED BY <1>p, <2>1, <2>2, <2>3, <3>1, TimesOut
  <2>4. CASE Passed
    <3>1. Goto("done", {"funded_timeout"})
      BY <1>2, <2>2, <2>4 DEF ReplayEnds
    <3> QED BY <1>p, <2>1, <2>2, <2>4, <3>1, TimesOut
  <2> QED BY <2>3, <2>4
<1>3. CASE ReplayNoMoreTrades
  <2>1. at = "trades" /\ gross' = gross /\ phase' = phase /\ payouts' = payouts
    BY <1>3 DEF ReplayNoMoreTrades, Replay, account, vars
  <2>2. at' = "close" /\ result' = result /\ driver' = driver
    BY <1>3, GotoEffect DEF ReplayNoMoreTrades
  <2> QED BY <1>p, <2>1, <2>2, Trades1
<1>4. CASE ReplayEvalTrade
  <2>1. at = "trades" /\ phase = "eval" /\ gross' = gross
    BY <1>4 DEF ReplayEvalTrade, Replay
  <2>2. PICK t \in LucidTrades : Update(t)
    BY <1>4 DEF ReplayEvalTrade
  <2>3. phase' \in {"eval", "funded", "breached_eval"}
    BY <2>1, <2>2, TradeEffect
  <2>4. \/ phase' = "breached_eval" /\ Goto("done", {"eval_breach"})
        \/ phase = "eval" /\ phase' = "funded" /\ Goto("day", {"passed"})
        \/ phase' = phase /\ NextTrade
    BY <1>4, <2>1, <2>3 DEF ReplayEvalTrade
  <2> QED BY <1>p, <2>1, <2>2, <2>4, TradeKept
<1>5. CASE ReplayEvalClose
  BY <1>5, <1>p, CloseKept DEF ReplayEvalClose, Replay
<1>6. CASE ReplayFundedTrade
  <2>1. at = "trades" /\ phase = "funded" /\ gross' = gross
    BY <1>6 DEF ReplayFundedTrade, Replay
  <2>2. PICK t \in LucidTrades : Update(t)
    BY <1>6 DEF ReplayFundedTrade
  <2>3. phase' \in {"funded", "breached_funded"}
    BY <2>1, <2>2, TradeEffect
  <2>4. \/ phase' = "breached_funded" /\ Goto("done", {"closed"})
        \/ phase' = phase /\ NextTrade
    BY <1>6, <2>1, <2>3 DEF ReplayFundedTrade
  <2> QED BY <1>p, <2>1, <2>2, <2>4, TradeKept
<1>7. CASE ReplayFundedClose
  BY <1>7, <1>p, CloseKept DEF ReplayFundedClose, Replay
<1>8. CASE ReplayRefused
  <2>1. at = "payout" /\ Goto("day", {}) /\ gross' = gross /\ UNCHANGED account
    BY <1>8 DEF ReplayRefused, Replay
  <2> QED BY <1>p, <2>1, RefusedKept
<1>9. CASE ReplayPayout
  <2>1. at = "payout" /\ RequestPayout /\ gross' = gross + balance - balance'
    BY <1>9 DEF ReplayPayout, Replay
  <2>2. phase' \in {"funded", "max_payouts"}
    BY <2>1, PayoutEffect
  <2>3. CASE phase' = "max_payouts"
    <3>1. Goto("done", {"capped"})
      BY <1>9, <2>3 DEF ReplayPayout
    <3> QED BY <1>p, <2>1, <2>3, <3>1, PaidKept
  <2>4. CASE phase' = "funded"
    <3>1. Goto("day", {})
      BY <1>9, <2>4 DEF ReplayPayout
    <3> QED BY <1>p, <2>1, <2>4, <3>1, PaidKept
  <2> QED BY <2>2, <2>3, <2>4
<1> QED BY <1>1, <1>2, <1>3, <1>4, <1>5, <1>6, <1>7, <1>8, <1>9 DEF ReplayNext

-----------------------------------------------------------------------------
(* The theorems about the drivers                                            *)

\* A driver uses the account by its operations only.
LEMMA AccountStep == AttemptsNext => [Next]_vars
<1>1. ByHand => [Next]_vars
  BY DEF ByHand
<1>2. PipelineEval \/ PipelineFunded => [Next]_vars
  BY DEF PipelineEval, PipelineFunded, PipelineEvalDay, PipelineEvalTrade, PipelineEvalClose, PipelineFundedDay,
         PipelineFundedTrade, PipelineFundedClose, PipelineRefused, PipelinePayout, account, Next
<1>3. ReplayNext => [Next]_vars
  BY DEF ReplayNext, ReplayDay, ReplayEnds, ReplayNoMoreTrades, ReplayEvalTrade, ReplayEvalClose,
         ReplayFundedTrade, ReplayFundedClose, ReplayRefused, ReplayPayout, account, Next
<1> QED BY <1>1, <1>2, <1>3 DEF AttemptsNext

\* Whatever a driver does with it, the account is one of LucidFlexAccount: what is proved
\* of the account holds in every attempt.
THEOREM DriversUseAccount == AttemptsSpec => Spec
<1>1. AttemptsInit => Init
  BY DEF AttemptsInit
<1>2. [AttemptsNext]_<<vars, attempt>> => [Next]_vars
  BY AccountStep
<1> QED BY <1>1, <1>2, PTL DEF AttemptsSpec, Spec

\* An attempt begins before its first session, with an account in the evaluation.
LEMMA InitKept == AttemptsInit => DriverInv /\ Contract!Init
<1> SUFFICES ASSUME AttemptsInit PROVE DriverInv /\ Contract!Init
  OBVIOUS
<1>1. /\ phase = "eval" /\ payouts = 0 /\ gross = 0 /\ result = {}
      /\ at = "hand" \/ (at = "day" /\ driver # "hand")
  BY DEF AttemptsInit, Init, AttemptInit
<1>2. ~Funded /\ Status = "open"
  BY <1>1 DEF Funded, Status, Active
<1>3. DriverInv
  BY <1>1, <1>2 DEF DriverInv, Steps, Active
<1>4. Contract!Init
  BY <1>1, <1>2 DEF Contract!Init
<1> QED BY <1>3, <1>4

\* Every step of a driver keeps the invariant and is a step of the contract.
LEMMA StepKept ==
    ASSUME IInv, DriverInv, [AttemptsNext]_<<vars, attempt>>
    PROVE  DriverInv' /\ [Contract!Next]_(Contract!vars)
<1>1. CASE ByHand
  <2>1. at = "hand" /\ at' = "hand" /\ gross' = gross
    BY <1>1 DEF ByHand, attempt
  <2>2. DriverInv'
    BY <2>1 DEF DriverInv
  <2> QED BY <2>1, <2>2 DEF Contract!Next, Contract!ByHand
<1>2. CASE PipelineEval \/ PipelineFunded
  BY <1>2, PipelineKept DEF Kept
<1>3. CASE ReplayNext
  BY <1>3, ReplayKept DEF Kept
<1>4. CASE UNCHANGED <<vars, attempt>>
  <2>1. UNCHANGED <<phase, payouts, gross, result, at, driver>>
    BY <1>4 DEF vars, attempt
  <2>2. Status' = Status /\ Funded' = Funded
    BY <2>1 DEF Status, Funded
  <2>3. DriverInv'
    BY <2>1, <2>2 DEF DriverInv
  <2> QED BY <2>1, <2>2, <2>3 DEF Contract!vars
<1> QED BY <1>1, <1>2, <1>3, <1>4 DEF AttemptsNext

\* Both drivers implement AttemptContract: no trade is sent to an account that would
\* refuse it, no session mixes the evaluation and the funded account, payouts fall between sessions,
\* and the attempt ends for the one reason the account bears out.
THEOREM DriversKeepContract == AttemptsSpec => KeepsContract
<1>1. AttemptsInit => DriverInv /\ Contract!Init
  BY InitKept
<1>2. IInv /\ DriverInv /\ [AttemptsNext]_<<vars, attempt>>
        => DriverInv' /\ [Contract!Next]_(Contract!vars)
  BY StepKept
<1>3. AttemptsSpec => []IInv
  BY DriversUseAccount, Invariance, PTL
<1> QED BY <1>1, <1>2, <1>3, PTL DEF AttemptsSpec, KeepsContract, Contract!Spec
=============================================================================

---------------------------- MODULE Apex_proofs -----------------------------
(***************************************************************************)
(* Proofs about ApexAccount in both drawdown variants, for every ruleset   *)
(* ApexAssumption allows, all from one inductive invariant; that its two   *)
(* drivers keep AttemptContract; that the accounts of AltFirms are         *)
(* TrailingAccount's; that the two further implementations of LucidFlex    *)
(* agree with the account of the pipeline; what MCFirms composes of the    *)
(* firms, each firm's part taken from the theorems about that firm; and    *)
(* that a Monte Carlo reproduces.                                          *)
(***************************************************************************)
EXTENDS MCFirms, FiniteSetTheorems, NaturalsInduction, WellFoundedInduction, TLAPS

OpenAboveThreshold == phase \in Active => balance > threshold

\* The intraday variant trails the peak, which is what `seen` remembers.
HighIsPeak == variant = "intraday" => seen.high = peak

\* A session that lost its limit is locked, so that the trade that locks it is a
\* loss: why the lock cannot keep an evaluation at its target from passing.
OpenAboveSoftDll ==
    phase \in Active /\ variant = "eod" /\ locked = FALSE => day > -SoftDll

\* A qualifying day is a session closed since the last payout.
DaysAreSessions == seen.sessions >= qualDays

Safe == /\ OpenAboveThreshold /\ ThresholdTrails /\ HighIsPeak
        /\ OpenAboveSoftDll /\ EvalBelowTarget
        /\ CycleIsItsDays /\ DaysAreSessions

\* TypeOK in two parts, the flags and the numbers.
Flags == variant \in {"eod", "intraday"} /\ phase \in Phases /\ locked \in BOOLEAN
Numbers ==
    /\ balance \in Int /\ threshold \in Int /\ peak \in Int
    /\ day \in Int /\ best \in Nat /\ qualDays \in 0..QualDays /\ cycleStart \in Int
    /\ payouts \in 0..ApexMaxPayouts
    /\ seen \in [high : Int, sum : Int, sessions : 0..QualDays]

IInv == Flags /\ Numbers /\ Safe

USE ApexAssumption, ApexBoundsAssumption

\* A step of the trail never lowers the threshold nor lifts it over the safety net.
LEMMA TrailBounds ==
    ASSUME NEW b \in Int, NEW m \in Int, m <= SafetyNet
    PROVE  /\ ApexTrail(b, m) \in Int
           /\ ApexTrail(b, m) >= m /\ ApexTrail(b, m) <= SafetyNet
           /\ b > m => b > ApexTrail(b, m)
BY DEF ApexTrail, SafetyNet, Higher, Lower

\* ... and keeps its closed form.
LEMMA TrailIsClosedForm ==
    ASSUME NEW b \in Int, NEW h \in Int
    PROVE  ApexTrail(b, Lower(SafetyNet, h - Drawdown))
             = Lower(SafetyNet, Higher(h, b) - Drawdown)
BY DEF ApexTrail, SafetyNet, Higher, Lower

\* What may be requested is some of the profit and no more.
LEMMA RequestBounds ==
    ASSUME NEW profit \in Int, NEW nth \in Nat \ {0}, ApexRequest(profit, nth) > 0
    PROVE  /\ ApexRequest(profit, nth) \in Int
           /\ ApexRequest(profit, nth) <= profit
<1> DEFINE asked == IF nth <= Len(Caps) THEN Lower(profit, Caps[nth]) ELSE profit
<1>1. asked \in Int /\ asked <= profit
  <2>1. CASE nth <= Len(Caps)
    <3>1. Caps[nth] \in Int
      BY <2>1
    <3> QED
      BY <2>1, <3>1 DEF Lower
  <2>2. CASE ~(nth <= Len(Caps))
    BY <2>2
  <2> QED
    BY <2>1, <2>2
<1>2. ApexRequest(profit, nth) = IF profit <= 0 \/ asked < ApexPayoutMin THEN 0 ELSE asked
  BY DEF ApexRequest
<1> HIDE DEF asked
<1> QED
  BY <1>1, <1>2

-----------------------------------------------------------------------------
(* The inductive invariant, action by action                                 *)

\* A new evaluation satisfies the invariant.
LEMMA InitInv == Init => IInv
<1> SUFFICES ASSUME Init PROVE IInv
  OBVIOUS
<1>1. Flags
  BY DEF Init, Flags, Phases
<1>2. Numbers
  BY DEF Init, Numbers, InitialThreshold, Fresh
<1>3. OpenAboveThreshold /\ ThresholdTrails /\ HighIsPeak
  BY DEF Init, OpenAboveThreshold, ThresholdTrails, HighIsPeak, InitialThreshold,
         SafetyNet, Fresh, Lower
<1>4. OpenAboveSoftDll /\ EvalBelowTarget /\ CycleIsItsDays /\ DaysAreSessions
  BY DEF Init, OpenAboveSoftDll, EvalBelowTarget, CycleIsItsDays, DaysAreSessions, Fresh
<1> QED
  BY <1>1, <1>2, <1>3, <1>4 DEF IInv, Safe

\* A fresh performance account satisfies the invariant.
LEMMA ActivateInv ==
    ASSUME IInv, ActivatePa, UNCHANGED <<variant, payouts>>
    PROVE  IInv'
<1>1. Flags'
  BY DEF IInv, ActivatePa, Flags, Phases
<1>2. Numbers'
  BY DEF IInv, ActivatePa, Numbers, InitialThreshold, Fresh
<1>3. (OpenAboveThreshold /\ ThresholdTrails /\ HighIsPeak)'
  BY DEF ActivatePa, OpenAboveThreshold, ThresholdTrails, HighIsPeak, InitialThreshold,
         SafetyNet, Fresh, Lower
<1>4. (OpenAboveSoftDll /\ EvalBelowTarget /\ CycleIsItsDays /\ DaysAreSessions)'
  BY DEF ActivatePa, OpenAboveSoftDll, EvalBelowTarget, CycleIsItsDays, DaysAreSessions, Fresh
<1> QED
  BY <1>1, <1>2, <1>3, <1>4 DEF IInv, Safe

\* A new history that differs in its highest balance alone.
LEMMA SeenHigh ==
    ASSUME Numbers, NEW h \in Int, seen' = [seen EXCEPT !.high = h]
    PROVE  /\ seen' \in [high : Int, sum : Int, sessions : 0..QualDays]
           /\ seen'.high = h /\ seen'.sum = seen.sum /\ seen'.sessions = seen.sessions
BY DEF Numbers

\* What one trade does to the threshold, in either variant.
LEMMA TradeThreshold ==
    ASSUME IInv, NEW t \in ApexTrades
    PROVE  /\ PeakAfter(t) \in Int /\ ThresholdAfter(t) \in Int
           /\ ThresholdAfter(t) >= threshold
           /\ variant = "intraday" =>
                /\ PeakAfter(t) = Higher(seen.high, balance + t)
                /\ ThresholdAfter(t) = Lower(SafetyNet, Higher(seen.high, balance + t) - Drawdown)
           /\ variant = "eod" => PeakAfter(t) = peak /\ ThresholdAfter(t) = threshold
<1>t. /\ t \in Int /\ balance \in Int /\ threshold \in Int /\ peak \in Int
      /\ seen.high \in Int /\ variant \in {"eod", "intraday"}
  BY DEF IInv, Numbers, Flags
<1>i. ThresholdTrails /\ HighIsPeak
  BY DEF IInv, Safe
<1>1. threshold <= SafetyNet /\ SafetyNet \in Int
  BY <1>t, <1>i DEF ThresholdTrails, SafetyNet, Lower
<1>2. CASE variant = "eod"
  BY <1>2, <1>t DEF PeakAfter, ThresholdAfter
<1>3. CASE variant = "intraday"
  <2> DEFINE high == Higher(seen.high, balance + t)
  <2>1. high \in Int /\ PeakAfter(t) = high /\ Higher(seen.high, high) = high
    BY <1>3, <1>t, <1>i DEF PeakAfter, HighIsPeak, Higher
  <2>2. ThresholdAfter(t) = ApexTrail(high, threshold)
    BY <1>3, <2>1 DEF ThresholdAfter
  <2> HIDE DEF high
  <2>3. ThresholdAfter(t) \in Int /\ ThresholdAfter(t) >= threshold
    BY <1>1, <1>t, <2>1, <2>2, TrailBounds
  <2>4. ThresholdAfter(t) = Lower(SafetyNet, high - Drawdown)
    BY <1>t, <1>i, <2>1, <2>2, TrailIsClosedForm DEF ThresholdTrails
  <2> QED
    BY <1>3, <2>1, <2>3, <2>4 DEF high
<1> QED
  BY <1>t, <1>2, <1>3

\* What a trade that does not pass the evaluation leaves.
LEMMA TradeStep ==
    ASSUME IInv, NEW t \in ApexTrades, ApplyTrade(t), phase \in Active
    PROVE  /\ phase' \in Phases /\ (phase' \in Active => phase' = phase)
           /\ (phase' \in Active) = (balance' > threshold')
           /\ balance' = balance + t /\ day' = day + t
           /\ peak' = PeakAfter(t) /\ threshold' = ThresholdAfter(t)
           /\ seen' \in [high : Int, sum : Int, sessions : 0..QualDays]
           /\ seen'.high = IF variant = "intraday" THEN Higher(seen.high, balance') ELSE seen.high
           /\ seen'.sum = seen.sum /\ seen'.sessions = seen.sessions
           /\ locked' = (Survives(t) /\ LocksSession(t))
           /\ UNCHANGED <<best, qualDays, cycleStart>>
<1>t. balance \in Int /\ seen.high \in Int /\ t \in Int /\ Numbers
  BY DEF IInv, Numbers
<1>1. /\ balance' = balance + t /\ day' = day + t
      /\ peak' = PeakAfter(t) /\ threshold' = ThresholdAfter(t)
      /\ locked' = (Survives(t) /\ LocksSession(t))
      /\ UNCHANGED <<best, qualDays, cycleStart>>
  BY DEF ApplyTrade
<1>2. /\ phase' \in Phases /\ (phase' \in Active => phase' = phase)
      /\ (phase' \in Active) = (balance' > threshold')
  BY DEF ApplyTrade, Active, Phases, Survives
<1> DEFINE high == IF variant = "intraday" THEN Higher(seen.high, balance') ELSE seen.high
<1>3. high \in Int
  BY <1>t, <1>1 DEF Higher
<1>4. seen' = [seen EXCEPT !.high = high]
  BY DEF ApplyTrade
<1> HIDE DEF high
<1>5. /\ seen' \in [high : Int, sum : Int, sessions : 0..QualDays]
      /\ seen'.high = high /\ seen'.sum = seen.sum /\ seen'.sessions = seen.sessions
  BY <1>t, <1>3, <1>4, SeenHigh
<1> QED
  BY <1>1, <1>2, <1>5 DEF high

\* update() keeps the invariant.
LEMMA UpdateInv ==
    ASSUME IInv, NEW t \in ApexTrades, Update(t)
    PROVE  IInv'
<1>1. CASE PassesEval(t)
  BY <1>1, ActivateInv DEF Update
<1>2. CASE ~PassesEval(t)
  <2>t. Numbers /\ Flags /\ t \in Int
    BY DEF IInv
  <2>i. /\ OpenAboveThreshold /\ ThresholdTrails /\ HighIsPeak /\ OpenAboveSoftDll
        /\ EvalBelowTarget /\ CycleIsItsDays /\ DaysAreSessions
    BY DEF IInv, Safe
  <2>0. ApplyTrade(t) /\ phase \in Active /\ ~locked /\ UNCHANGED <<variant, payouts>>
    BY <1>2 DEF Update
  <2>1. /\ phase' \in Phases /\ (phase' \in Active => phase' = phase)
        /\ (phase' \in Active) = (balance' > threshold')
        /\ balance' = balance + t /\ day' = day + t
        /\ peak' = PeakAfter(t) /\ threshold' = ThresholdAfter(t)
        /\ seen' \in [high : Int, sum : Int, sessions : 0..QualDays]
        /\ seen'.high = IF variant = "intraday" THEN Higher(seen.high, balance') ELSE seen.high
        /\ seen'.sum = seen.sum /\ seen'.sessions = seen.sessions
        /\ locked' = (Survives(t) /\ LocksSession(t))
        /\ UNCHANGED <<best, qualDays, cycleStart>>
    BY <2>0, TradeStep
  <2>2. Flags'
    BY <2>t, <2>0, <2>1 DEF Flags
  <2>3. Numbers'
    BY <2>t, <2>0, <2>1, TradeThreshold DEF Numbers
  <2>4. (OpenAboveThreshold /\ ThresholdTrails /\ HighIsPeak)'
    <3>1. OpenAboveThreshold'
      BY <2>1 DEF OpenAboveThreshold
    <3>2. CASE variant = "eod"
      BY <3>1, <3>2, <2>i, <2>0, <2>1, TradeThreshold DEF ThresholdTrails, HighIsPeak
    <3>3. CASE variant = "intraday"
      BY <3>1, <3>3, <2>0, <2>1, TradeThreshold DEF ThresholdTrails, HighIsPeak
    <3> QED
      BY <3>2, <3>3, <2>t DEF Flags
  <2>5. OpenAboveSoftDll'
    <3> SUFFICES ASSUME phase' \in Active, variant = "eod", locked' = FALSE
                 PROVE  day' > -SoftDll
      BY <2>0 DEF OpenAboveSoftDll
    <3>1. Survives(t)
      BY <2>1 DEF Survives
    <3>2. ~LocksSession(t)
      BY <2>1, <3>1
    <3> QED
      BY <2>1, <2>t, <3>2 DEF LocksSession, Numbers
  <2>6. EvalBelowTarget'
    <3> SUFFICES ASSUME phase' = "eval" PROVE balance' - ApexStart < ApexTarget
      BY DEF EvalBelowTarget
    <3>1. phase = "eval" /\ Survives(t)
      BY <2>1 DEF Survives, Active
    <3>2. LocksSession(t) \/ ~(balance + t - ApexStart >= ApexTarget)
      BY <1>2, <3>1 DEF PassesEval
    <3>3. LocksSession(t) => t < 0
      BY <2>0, <2>i, <2>t DEF LocksSession, OpenAboveSoftDll, Numbers
    <3>4. balance - ApexStart < ApexTarget
      BY <2>i, <3>1 DEF EvalBelowTarget
    <3> QED
      BY <2>1, <2>t, <3>2, <3>3, <3>4 DEF Numbers
  <2>7. (CycleIsItsDays /\ DaysAreSessions)'
    <3>1. phase' = "pa" => phase = "pa"
      BY <2>1 DEF Active
    <3>2. balance \in Int /\ day \in Int /\ cycleStart \in Int /\ seen.sum \in Int
      BY <2>t DEF Numbers
    <3>3. /\ balance' = balance + t /\ day' = day + t /\ cycleStart' = cycleStart
          /\ seen'.sum = seen.sum /\ seen'.sessions = seen.sessions /\ qualDays' = qualDays
      BY <2>1
    <3> QED
      BY <2>i, <2>t, <3>1, <3>2, <3>3 DEF CycleIsItsDays, DaysAreSessions
  <2> QED
    BY <2>2, <2>3, <2>4, <2>5, <2>6, <2>7 DEF IInv, Safe
<1> QED
  BY <1>1, <1>2

\* What the close of a day does to the threshold, in the evaluation and the PA alike.
LEMMA CloseThreshold ==
    ASSUME IInv, phase \in Active, threshold' = ThresholdAtClose, seen'.high = SeenAtClose,
           UNCHANGED <<variant, phase, balance, peak>>
    PROVE  /\ threshold' \in Int /\ threshold' >= threshold
           /\ OpenAboveThreshold' /\ ThresholdTrails' /\ HighIsPeak'
<1>t. /\ balance \in Int /\ threshold \in Int /\ seen.high \in Int
      /\ variant \in {"eod", "intraday"}
  BY DEF IInv, Numbers, Flags
<1>i. OpenAboveThreshold /\ ThresholdTrails /\ HighIsPeak
  BY DEF IInv, Safe
<1>1. CASE variant = "intraday"
  BY <1>1, <1>t, <1>i DEF ThresholdAtClose, SeenAtClose, OpenAboveThreshold, ThresholdTrails,
                          HighIsPeak
<1>2. CASE variant = "eod"
  <2>1. threshold <= SafetyNet
    BY <1>t, <1>i DEF ThresholdTrails, SafetyNet, Lower
  <2>2. threshold' = ApexTrail(balance, threshold) /\ seen'.high = Higher(seen.high, balance)
    BY <1>2 DEF ThresholdAtClose, SeenAtClose
  <2>3. threshold' \in Int /\ threshold' >= threshold /\ balance > threshold'
    BY <1>t, <1>i, <2>1, <2>2, TrailBounds DEF OpenAboveThreshold
  <2>4. OpenAboveThreshold' /\ HighIsPeak'
    BY <1>2, <2>3 DEF OpenAboveThreshold, HighIsPeak
  <2>5. ThresholdTrails'
    BY <1>t, <1>i, <2>2, TrailIsClosedForm DEF ThresholdTrails
  <2> QED
    BY <2>3, <2>4, <2>5
<1> QED
  BY <1>t, <1>1, <1>2

\* close_day() keeps the invariant.
LEMMA CloseInv ==
    ASSUME IInv, CloseDay
    PROVE  IInv'
<1>t. Flags /\ Numbers
  BY DEF IInv
<1>i. /\ OpenAboveThreshold /\ ThresholdTrails /\ HighIsPeak /\ OpenAboveSoftDll
      /\ EvalBelowTarget /\ CycleIsItsDays /\ DaysAreSessions
  BY DEF IInv, Safe
<1>s. SeenAtClose \in Int
  BY <1>t DEF Numbers, SeenAtClose, Higher
<1>1. CASE CloseEvalDay
  <2>1. CASE ActivatePa
    BY <1>1, <2>1, ActivateInv DEF CloseEvalDay
  <2>2. CASE ~ActivatePa
    <3>1. /\ phase = "eval" /\ threshold' = ThresholdAtClose /\ day' = 0 /\ locked' = FALSE
          /\ seen' = [seen EXCEPT !.high = SeenAtClose]
          /\ UNCHANGED <<variant, phase, balance, peak, best, qualDays, cycleStart, payouts>>
      BY <1>1, <2>2 DEF CloseEvalDay
    <3>2. /\ seen' \in [high : Int, sum : Int, sessions : 0..QualDays]
          /\ seen'.high = SeenAtClose /\ seen'.sessions = seen.sessions
      BY <1>t, <1>s, <3>1, SeenHigh
    <3>3. /\ threshold' \in Int
          /\ OpenAboveThreshold' /\ ThresholdTrails' /\ HighIsPeak'
      BY <3>1, <3>2, CloseThreshold DEF Active
    <3>4. Flags'
      BY <1>t, <3>1 DEF Flags
    <3>5. Numbers'
      BY <1>t, <3>1, <3>2, <3>3 DEF Numbers
    <3>6. (OpenAboveSoftDll /\ EvalBelowTarget /\ CycleIsItsDays /\ DaysAreSessions)'
      BY <1>i, <3>1, <3>2 DEF OpenAboveSoftDll, EvalBelowTarget, CycleIsItsDays,
                              DaysAreSessions
    <3> QED
      BY <3>3, <3>4, <3>5, <3>6 DEF IInv, Safe
  <2> QED
    BY <2>1, <2>2
<1>2. CASE ClosePaDay
  <2>1. /\ phase = "pa" /\ threshold' = ThresholdAtClose /\ day' = 0 /\ locked' = FALSE
        /\ best' = Higher(best, day)
        /\ qualDays' = IF day >= QualDay THEN Lower(qualDays + 1, QualDays) ELSE qualDays
        /\ seen' = [high |-> SeenAtClose, sum |-> seen.sum + day,
                    sessions |-> Lower(seen.sessions + 1, QualDays)]
        /\ UNCHANGED <<variant, phase, balance, peak, cycleStart, payouts>>
    BY <1>2 DEF ClosePaDay
  <2>2. /\ seen'.high = SeenAtClose /\ seen'.sum = seen.sum + day
        /\ seen'.sessions = Lower(seen.sessions + 1, QualDays)
    BY <2>1
  <2>3. /\ threshold' \in Int
        /\ OpenAboveThreshold' /\ ThresholdTrails' /\ HighIsPeak'
    BY <2>1, <2>2, CloseThreshold DEF Active
  <2>4. Flags'
    BY <1>t, <2>1 DEF Flags
  <2>5. /\ best' \in Nat /\ qualDays' \in 0..QualDays
        /\ seen' \in [high : Int, sum : Int, sessions : 0..QualDays]
    BY <1>t, <1>s, <2>1 DEF Numbers, Higher, Lower
  <2>6. Numbers'
    BY <1>t, <2>1, <2>3, <2>5 DEF Numbers
  <2>7. (OpenAboveSoftDll /\ EvalBelowTarget /\ CycleIsItsDays)'
    BY <1>t, <1>i, <2>1, <2>2 DEF OpenAboveSoftDll, EvalBelowTarget, CycleIsItsDays, Numbers
  <2>8. DaysAreSessions'
    BY <1>t, <1>i, <2>1, <2>2 DEF DaysAreSessions, Lower, Numbers
  <2> QED
    BY <2>3, <2>4, <2>6, <2>7, <2>8 DEF IInv, Safe
<1>3. CASE CloseTerminalDay
  <2>1. /\ phase \notin Active /\ day' = 0 /\ locked' = FALSE
        /\ UNCHANGED <<variant, phase, balance, threshold, peak, best, qualDays,
                       cycleStart, payouts, seen>>
    BY <1>3 DEF CloseTerminalDay
  <2>2. Flags'
    BY <1>t, <2>1 DEF Flags
  <2>3. Numbers'
    BY <1>t, <2>1 DEF Numbers
  <2>4. Safe'
    BY <1>i, <2>1 DEF Safe, Active, OpenAboveThreshold, ThresholdTrails, HighIsPeak,
                      OpenAboveSoftDll, EvalBelowTarget, CycleIsItsDays, DaysAreSessions
  <2> QED
    BY <2>2, <2>3, <2>4 DEF IInv
<1> QED
  BY <1>1, <1>2, <1>3 DEF CloseDay

\* What a payout does to the account.
LEMMA PayoutStep ==
    ASSUME IInv, RequestPayout
    PROVE  /\ phase = "pa" /\ payouts' = payouts + 1 /\ UNCHANGED threshold
           /\ balance' \in Int /\ balance' < balance /\ balance' >= ApexStart
           /\ phase' = IF balance' <= threshold THEN "breached_pa" ELSE "pa"
<1>t. balance \in Int /\ payouts \in Nat
  BY DEF IInv, Numbers
<1> DEFINE profit == balance - ApexStart
<1>1. phase = "pa" /\ Request > 0 /\ Request = ApexRequest(profit, payouts + 1)
  BY DEF RequestPayout, PayoutEligible, Request
<1>2. Request \in Int /\ Request <= profit
  <2>1. profit \in Int /\ payouts + 1 \in Nat \ {0}
    BY <1>t
  <2> QED
    BY <1>1, <2>1, RequestBounds
<1>3. /\ balance' = balance - Request /\ payouts' = payouts + 1 /\ UNCHANGED threshold
      /\ phase' = IF balance' <= threshold THEN "breached_pa" ELSE "pa"
  BY <1>1 DEF RequestPayout
<1>4. balance' \in Int /\ balance' < balance /\ balance' >= ApexStart
  BY <1>t, <1>1, <1>2, <1>3
<1> QED
  BY <1>1, <1>3, <1>4

\* request_payout() keeps the invariant.
LEMMA PayoutInv ==
    ASSUME IInv, RequestPayout
    PROVE  IInv'
<1>t. Flags /\ Numbers
  BY DEF IInv
<1>i. /\ ThresholdTrails /\ HighIsPeak /\ OpenAboveSoftDll
  BY DEF IInv, Safe
<1>1. /\ phase = "pa" /\ payouts' = payouts + 1 /\ UNCHANGED threshold /\ balance' \in Int
      /\ phase' = IF balance' <= threshold THEN "breached_pa" ELSE "pa"
  BY PayoutStep
<1>2. /\ payouts < ApexMaxPayouts
      /\ day' = 0 /\ best' = 0 /\ qualDays' = 0 /\ cycleStart' = balance'
      /\ seen' = [high |-> seen.high, sum |-> 0, sessions |-> 0]
      /\ UNCHANGED <<variant, peak, locked>>
  BY DEF RequestPayout
<1>3. Flags'
  BY <1>t, <1>1, <1>2 DEF Flags, Phases
<1>4. Numbers'
  BY <1>t, <1>1, <1>2 DEF Numbers
<1>5. (OpenAboveThreshold /\ ThresholdTrails /\ HighIsPeak)'
  BY <1>t, <1>i, <1>1, <1>2 DEF OpenAboveThreshold, ThresholdTrails, HighIsPeak, Active, Numbers
<1>6. OpenAboveSoftDll' /\ EvalBelowTarget'
  <2>1. 0 > -SoftDll /\ phase' # "eval"
    BY <1>1
  <2> QED
    BY <1>2, <2>1 DEF OpenAboveSoftDll, EvalBelowTarget
<1>7. seen'.sum = 0 /\ seen'.sessions = 0
  BY <1>2
<1>8. CycleIsItsDays' /\ DaysAreSessions'
  <2>1. day' = 0 /\ qualDays' = 0 /\ cycleStart' = balance'
    BY <1>2
  <2>2. balance' \in Int /\ cycleStart' \in Int /\ balance' - cycleStart' = 0
    <3>1. balance' \in Int /\ cycleStart' \in Int
      BY <1>1, <2>1
    <3>2. \A x \in Int : x - x = 0
      OBVIOUS
    <3> QED
      BY <2>1, <3>1, <3>2
  <2>3. CycleIsItsDays'
    <3>1. seen'.sum + day' = 0
      BY <1>7, <2>1
    <3> QED
      BY <2>2, <3>1 DEF CycleIsItsDays
  <2>4. DaysAreSessions'
    BY <1>7, <2>1 DEF DaysAreSessions
  <2> QED
    BY <2>3, <2>4
<1> QED
  BY <1>3, <1>4, <1>5, <1>6, <1>8 DEF IInv, Safe

\* Every step keeps the invariant.
LEMMA NextInv == IInv /\ [Next]_vars => IInv'
<1> SUFFICES ASSUME IInv, [Next]_vars PROVE IInv'
  OBVIOUS
<1>1. CASE \E t \in ApexTrades : Update(t)
  BY <1>1, UpdateInv
<1>2. CASE CloseDay
  BY <1>2, CloseInv
<1>3. CASE RequestPayout
  BY <1>3, PayoutInv
<1>4. CASE UNCHANGED vars
  <2>1. Flags'
    BY <1>4 DEF IInv, vars, Flags
  <2>2. Numbers'
    BY <1>4 DEF IInv, vars, Numbers
  <2>3. Safe'
    BY <1>4 DEF IInv, vars, Safe, OpenAboveThreshold, ThresholdTrails, HighIsPeak,
                OpenAboveSoftDll, EvalBelowTarget, CycleIsItsDays, DaysAreSessions
  <2> QED
    BY <2>1, <2>2, <2>3 DEF IInv
<1> QED
  BY <1>1, <1>2, <1>3, <1>4 DEF Next

\* The invariant holds in every reachable state.
LEMMA Invariance == Spec => []IInv
BY InitInv, NextInv, PTL DEF Spec

-----------------------------------------------------------------------------
(* The theorems                                                              *)

\* Every variable keeps its type, for every ruleset.
THEOREM TypeCorrect == Spec => []TypeOK
<1>1. IInv => TypeOK
  BY DEF IInv, Flags, Numbers, TypeOK
<1> QED
  BY <1>1, Invariance, PTL

\* In either variant the threshold is the published formula of the highest balance.
THEOREM ThresholdAlwaysTrails == Spec => []ThresholdTrails
<1>1. IInv => ThresholdTrails
  BY DEF IInv, Safe
<1> QED
  BY <1>1, Invariance, PTL

\* No evaluation is left at its target: close_day has nothing to pass.
THEOREM EvalAlwaysBelowTarget == Spec => []EvalBelowTarget
<1>1. IInv => EvalBelowTarget
  BY DEF IInv, Safe
<1> QED
  BY <1>1, Invariance, PTL

\* The consistency rule compares days with the profit they made.
THEOREM CycleIsAlwaysItsDays == Spec => []CycleIsItsDays
<1>1. IInv => CycleIsItsDays
  BY DEF IInv, Safe
<1> QED
  BY <1>1, Invariance, PTL

\* Payouts are the business of RequestPayout alone.
LEMMA OnlyPayoutPays ==
    ASSUME IInv, Next, payouts' > payouts
    PROVE  RequestPayout
<1>1. ~RequestPayout => payouts' = payouts
  BY DEF Next, Update, CloseDay, CloseEvalDay, ClosePaDay, CloseTerminalDay
<1> QED
  BY <1>1 DEF IInv, Numbers

\* Whatever the caps, no payout takes more than the profit, and one that closes the
\* account found its threshold at the start or above.
THEOREM PayoutAlwaysTakesProfit == Spec => PayoutTakesProfit
<1>1. IInv /\ [Next]_vars
        => [payouts' > payouts =>
              /\ balance' >= ApexStart
              /\ phase' = "breached_pa" => seen.high >= ApexStart + Drawdown]_vars
  <2> SUFFICES ASSUME IInv, Next, payouts' > payouts
               PROVE  /\ balance' >= ApexStart
                      /\ phase' = "breached_pa" => seen.high >= ApexStart + Drawdown
    OBVIOUS
  <2>1. /\ balance' \in Int /\ balance' >= ApexStart
        /\ phase' = IF balance' <= threshold THEN "breached_pa" ELSE "pa"
    BY OnlyPayoutPays, PayoutStep
  <2>2. seen.high \in Int /\ threshold = Lower(SafetyNet, seen.high - Drawdown)
    BY DEF IInv, Numbers, Safe, ThresholdTrails
  <2>3. threshold \in Int /\ threshold <= seen.high - Drawdown
    BY <2>2 DEF Lower, SafetyNet
  <2> QED
    BY <2>1, <2>2, <2>3
<1> QED
  BY <1>1, Invariance, PTL DEF Spec, PayoutTakesProfit

\* No payout is granted on sessions an earlier one was already granted on.
THEOREM PayoutAlwaysEarned == Spec => PayoutIsEarned
<1>1. IInv /\ [Next]_vars => [payouts' > payouts => seen.sessions >= QualDays]_vars
  <2> SUFFICES ASSUME IInv, Next, payouts' > payouts PROVE seen.sessions >= QualDays
    OBVIOUS
  <2>1. qualDays >= QualDays
    BY OnlyPayoutPays DEF RequestPayout, PayoutEligible
  <2>2. seen.sessions >= qualDays /\ seen.sessions \in Int /\ qualDays \in Int
    BY DEF IInv, Safe, DaysAreSessions, Numbers
  <2> QED
    BY <2>1, <2>2
<1> QED
  BY <1>1, Invariance, PTL DEF Spec, PayoutIsEarned

\* What a step of the account is for TrailingAccount.
LEMMA StepTrails == IInv /\ IInv' /\ Next => [Trailing!Next]_(Trailing!vars)
<1> SUFFICES ASSUME IInv, IInv', Next PROVE [Trailing!Next]_(Trailing!vars)
  OBVIOUS
<1>o. (phase \in Active => balance > threshold) /\ (phase' \in Active => balance' > threshold')
  BY DEF IInv, Safe, OpenAboveThreshold
<1>1. ASSUME phase = "eval", ActivatePa, UNCHANGED payouts PROVE Trailing!Next
  BY <1>1, <1>o DEF ActivatePa, Active, Trailing!Next, Trailing!Pass, Trailing!Fresh
<1>2. ASSUME NEW t \in ApexTrades, Update(t) PROVE Trailing!Next
  <2>1. CASE PassesEval(t)
    BY <1>1, <1>2, <2>1 DEF Update, PassesEval
  <2>2. CASE ~PassesEval(t)
    <3>1. ApplyTrade(t) /\ phase \in Active /\ UNCHANGED payouts
      BY <1>2, <2>2 DEF Update
    <3>2. threshold' >= threshold
      BY <3>1, TradeThreshold DEF ApplyTrade
    <3>3. (phase' \in Active) = (balance' > threshold')
      BY <3>1, TradeStep
    <3>4. (phase' \in {"pa", "breached_pa"}) = (phase \in {"pa", "breached_pa"})
      BY <3>1 DEF ApplyTrade, Active
    <3> QED
      BY <3>1, <3>2, <3>3, <3>4 DEF Trailing!Next, Trailing!Trade
  <2> QED
    BY <2>1, <2>2
<1>3. CASE CloseEvalDay /\ ActivatePa
  BY <1>1, <1>3 DEF CloseEvalDay
<1>4. CASE (CloseEvalDay /\ ~ActivatePa) \/ ClosePaDay
  <2>1. /\ phase' = phase /\ phase \in Active
        /\ UNCHANGED <<variant, phase, balance, peak, payouts>>
        /\ threshold' = ThresholdAtClose
    BY <1>4 DEF CloseEvalDay, ClosePaDay, Active
  <2>2. seen'.high = SeenAtClose
    <3>1. CASE ClosePaDay
      BY <3>1 DEF ClosePaDay
    <3>2. CASE CloseEvalDay /\ ~ActivatePa
      <4>1. SeenAtClose \in Int /\ Numbers
        BY DEF IInv, Numbers, SeenAtClose, Higher
      <4> QED
        BY <3>2, <4>1, SeenHigh DEF CloseEvalDay
    <3> QED
      BY <1>4, <3>1, <3>2
  <2>3. threshold' >= threshold
    BY <2>1, <2>2, CloseThreshold
  <2> QED
    BY <1>o, <2>1, <2>3 DEF Trailing!Next, Trailing!Trade
<1>5. CASE CloseTerminalDay
  BY <1>5 DEF CloseTerminalDay, Trailing!vars
<1>6. CASE RequestPayout
  <2>1. /\ phase = "pa" /\ payouts' = payouts + 1 /\ UNCHANGED threshold
        /\ threshold \in Int /\ balance' < balance
        /\ phase' \in {"breached_pa", "pa"}
    BY <1>6, PayoutStep DEF IInv, Numbers
  <2>2. threshold' >= threshold
    BY <2>1
  <2> QED
    BY <1>o, <2>1, <2>2 DEF Active, Trailing!Next, Trailing!Payout
<1> QED
  BY <1>2, <1>3, <1>4, <1>5, <1>6 DEF Next, CloseDay

\* Through every sequence of trades, closes and payouts, in either variant, the
\* account behaves as TrailingAccount specifies.
THEOREM ImplementsTrailing == Spec => Trails
<1>1. Init => Trailing!Init
  BY DEF Init, Active, InitialThreshold, Trailing!Init
<1>2. IInv /\ IInv' /\ [Next]_vars => [Trailing!Next]_(Trailing!vars)
  <2>1. UNCHANGED vars => UNCHANGED Trailing!vars
    BY DEF vars, Trailing!vars
  <2> QED
    BY <2>1, StepTrails
<1> QED
  BY <1>1, <1>2, Invariance, PTL DEF Spec, Trails, Trailing!Spec

-----------------------------------------------------------------------------
(* The drivers                                                               *)

HIDE ApexAssumption
HIDE ApexBoundsAssumption

Steps == {"day", "trades", "close", "payout", "done"}

\* Where a driver is, what the result says and what phase the account is in agree; a
\* session begins, and a payout is asked for, on an account that trades.
DriverInv ==
    /\ at = "hand" \/ (at \in Steps /\ driver # "hand")
    /\ gross \in Int
    /\ at \in {"day", "trades", "close", "payout"} => result = IF Funded THEN {"passed"} ELSE {}
    /\ at \in {"day", "trades", "payout"} => phase \in Active /\ ~locked
    /\ at = "close" => phase \in Active
    /\ at = "payout" => phase = "pa"

\* The status of an account by its phase and its lock, before and after a step.
LEMMA StatusOf ==
    /\ phase \notin Active => Status = "breached"
    /\ phase \in Active /\ locked => Status = "locked"
    /\ phase \in Active /\ ~locked => Status = "open"
    /\ Funded <=> phase \in {"pa", "breached_pa"}
<1>1. phase \notin Active => Status = "breached"
  BY DEF Status
<1>2. phase \in Active /\ locked => Status = "locked"
  BY DEF Status
<1>3. phase \in Active /\ ~locked => Status = "open"
  BY DEF Status
<1> QED BY <1>1, <1>2, <1>3 DEF Funded

\* The only flag besides "passed" is the reason.
LEMMA OneReason ==
    ASSUME NEW flags, NEW r \in Contract!Reasons,
           flags = {r} \/ flags = {"passed", r}
    PROVE  flags \ {"passed"} = {r} /\ Contract!Cardinality({r}) = 1
<1>1. r # "passed"
  BY DEF Contract!Reasons
<1>2. Cardinality({r}) = 1
  BY FS_Singleton
<1>3. Contract!Cardinality({r}) = Cardinality({r})
  BY DEF Contract!Cardinality, Cardinality
<1> QED BY <1>1, <1>2, <1>3

\* What a trade may make of the account.
LEMMA TradeEffect ==
    ASSUME IInv, NEW t \in ApexTrades, Update(t)
    PROVE  /\ payouts' = payouts /\ phase \in Active /\ ~locked
           /\ \/ phase' = phase
              \/ ~locked' /\ phase = "eval" /\ phase' \in {"pa", "breached_eval"}
              \/ ~locked' /\ phase = "pa" /\ phase' = "breached_pa"
<1>1. CASE PassesEval(t)
  BY <1>1 DEF Update, PassesEval, ActivatePa
<1>2. CASE ~PassesEval(t)
  BY <1>2 DEF Update, ApplyTrade, Active
<1> QED BY <1>1, <1>2

\* What a close may make of an account that is not over.
LEMMA CloseEffect ==
    ASSUME CloseDay, phase \in Active
    PROVE  /\ payouts' = payouts /\ ~locked'
           /\ phase = "eval" => phase' \in {"eval", "pa"}
           /\ phase = "pa" => phase' = "pa"
BY DEF CloseDay, CloseEvalDay, ClosePaDay, CloseTerminalDay, ActivatePa, Active

\* What a payout makes of it: request_payout may close it.
LEMMA PayoutEffect ==
    ASSUME IInv, RequestPayout
    PROVE  /\ payouts' = payouts + 1 /\ phase = "pa" /\ phase' \in {"pa", "breached_pa"} /\ locked' = locked
           /\ balance \in Int /\ balance' \in Int /\ balance' < balance
<1>1. balance \in Int
  BY DEF IInv, Numbers
<1>2. locked' = locked
  BY DEF RequestPayout
<1> QED BY <1>1, <1>2, PayoutStep

\* A driver goes on, without a flag or with one.
LEMMA GotoEffect ==
    ASSUME NEW step, NEW flags, Goto(step, flags)
    PROVE  at' = step /\ result' = result \union flags /\ driver' = driver
BY DEF Goto

-----------------------------------------------------------------------------
(* Kinds of steps: each keeps DriverInv and is a step of AttemptContract      *)

Kept == DriverInv' /\ Contract!Next

\* A session begins.
LEMMA Begins ==
    ASSUME DriverInv, at = "day", at' = "trades", driver # "hand", driver' = driver,
           UNCHANGED <<account, gross, result>>
    PROVE  Kept
<1>1. phase' = phase /\ locked' = locked /\ payouts' = payouts
  BY DEF account, vars
<1>2. Status = "open" /\ Status' = Status /\ Funded' = Funded
  BY <1>1, StatusOf DEF DriverInv, Status, Funded
<1>3. DriverInv'
  BY <1>1, <1>2 DEF DriverInv, Steps
<1>4. Contract!Begin
  BY <1>1, <1>2 DEF Contract!Begin
<1> QED BY <1>3, <1>4 DEF Kept, Contract!Next

\* A trade after which the session goes on, or is over.
LEMMA Trades1 ==
    ASSUME DriverInv, at = "trades", at' \in {"trades", "close"}, driver # "hand", driver' = driver,
           phase' = phase, at' = "trades" => ~locked',
           UNCHANGED <<payouts, gross, result>>
    PROVE  Kept
<1>1. Status = "open" /\ Funded' = Funded /\ phase \in Active
  BY StatusOf DEF DriverInv, Funded
<1>2. Status' \in {"open", "locked"} /\ (at' = "trades" => Status' = "open")
  BY <1>1 DEF Status
<1>3. DriverInv'
  BY <1>1 DEF DriverInv, Steps
<1>4. Contract!Trade
  BY <1>1, <1>2 DEF Contract!Trade
<1> QED BY <1>3, <1>4 DEF Kept, Contract!Next

\* A trade that passes the evaluation.
LEMMA TradePasses ==
    ASSUME DriverInv, at = "trades", at' = "day", driver # "hand", driver' = driver,
           phase = "eval", phase' = "pa", ~locked', result' = result \union {"passed"},
           UNCHANGED <<payouts, gross>>
    PROVE  Kept
<1>1. Status = "open" /\ ~Funded /\ Funded' /\ result = {}
  BY StatusOf DEF DriverInv, Funded
<1>2. Status' = "open" /\ result' = {"passed"}
  BY <1>1 DEF Status, Active
<1>3. DriverInv'
  BY <1>1, <1>2 DEF DriverInv, Steps, Active
<1>4. Contract!Trade
  BY <1>1, <1>2 DEF Contract!Trade
<1> QED BY <1>3, <1>4 DEF Kept, Contract!Next

\* The close of a day.
LEMMA Closes ==
    ASSUME DriverInv, at = "close", driver # "hand", driver' = driver, CloseDay,
           at' = IF phase = "pa" THEN "payout" ELSE "day",
           result' = result \union IF phase' = "pa" THEN {"passed"} ELSE {},
           UNCHANGED gross
    PROVE  Kept
<1>1. /\ phase \in Active /\ payouts' = payouts /\ ~locked'
      /\ phase' \in Active /\ (phase = "pa" => phase' = "pa")
  BY CloseEffect DEF DriverInv, Active
<1>2. Status' = "open" /\ (Funded <=> phase = "pa") /\ (Funded' <=> phase' = "pa")
  BY <1>1 DEF Status, Funded, Active
<1>3. result' = IF Funded' THEN {"passed"} ELSE {}
  BY <1>1, <1>2 DEF DriverInv
<1>4. DriverInv'
  BY <1>1, <1>2, <1>3 DEF DriverInv, Steps
<1>5. Contract!Close
  BY <1>1, <1>2, <1>3 DEF Contract!Close
<1> QED BY <1>4, <1>5 DEF Kept, Contract!Next

\* A payout that is refused.
LEMMA PaysNot ==
    ASSUME DriverInv, at = "payout", at' = "day", driver # "hand", driver' = driver,
           phase' = "pa", locked' = locked, result' = result, payouts' = payouts, gross' = gross
    PROVE  Kept
<1>1. Status = "open" /\ Funded /\ Status' = "open" /\ Funded'
  BY StatusOf DEF DriverInv, Funded, Status, Active
<1>2. DriverInv'
  BY <1>1 DEF DriverInv, Steps, Active
<1>3. Contract!Payout
  BY <1>1 DEF Contract!Payout, Contract!Paid
<1> QED BY <1>2, <1>3 DEF Kept, Contract!Next

\* A payout that is paid, and does not end the attempt.
LEMMA Pays ==
    ASSUME DriverInv, at = "payout", at' = "day", driver # "hand", driver' = driver,
           phase' = "pa", locked' = locked, result' = result,
           payouts' = payouts + 1, gross' > gross, gross' \in Int
    PROVE  Kept
<1>1. Status = "open" /\ Funded /\ Status' = "open" /\ Funded'
  BY StatusOf DEF DriverInv, Funded, Status, Active
<1>2. DriverInv'
  BY <1>1 DEF DriverInv, Steps, Active
<1>3. Contract!Payout
  BY <1>1 DEF Contract!Payout, Contract!Paid
<1> QED BY <1>2, <1>3 DEF Kept, Contract!Next

\* The end of the attempt, for one reason.
LEMMA Finishes ==
    ASSUME DriverInv, at \in {"day", "trades", "payout"}, at' = "done",
           driver # "hand", driver' = driver, Funded' = Funded,
           NEW r \in Contract!Reasons, result' = result \union {r},
           \/ UNCHANGED <<payouts, gross>> /\ gross' \in Int
           \/ at = "payout" /\ payouts' = payouts + 1 /\ gross' > gross /\ gross' \in Int,
           Funded <=> r \notin {"eval_breach", "eval_timeout"},
           Status' = "breached" <=> r \in {"eval_breach", "closed"},
           Status' # "retired"
    PROVE  Kept
<1>1. result' = IF Funded THEN {"passed", r} ELSE {r}
  BY DEF DriverInv
<1>2. result' \ {"passed"} = {r} /\ Contract!Cardinality({r}) = 1 /\ r # "passed"
  BY <1>1, OneReason DEF Contract!Reasons
<1>3. "passed" \in result' <=> Funded'
  BY <1>1, <1>2
<1>4. Contract!Verdict(result' \ {"passed"}, Funded', Status')
  <2>1. /\ {r} \cap {"eval_breach", "eval_timeout"} = {} <=> r \notin {"eval_breach", "eval_timeout"}
        /\ {r} \cap {"eval_breach", "closed"} # {} <=> r \in {"eval_breach", "closed"}
        /\ {r} \subseteq Contract!Reasons
    OBVIOUS
  <2>2. Funded' <=> {r} \cap {"eval_breach", "eval_timeout"} = {}
    BY <2>1
  <2>3. Status' = "breached" <=> {r} \cap {"eval_breach", "closed"} # {}
    BY <2>1
  <2>4. Contract!Verdict({r}, Funded', Status')
    BY <1>2, <2>1, <2>2, <2>3, Zenon DEF Contract!Verdict
  <2> QED BY <1>2, <2>4
<1>5. Contract!Finish
  <2>1. Contract!Paid /\ (payouts' # payouts => at = "payout")
    BY DEF Contract!Paid
  <2> QED BY <1>3, <1>4, <2>1 DEF Contract!Finish
<1>6. DriverInv'
  BY DEF DriverInv, Steps
<1> QED BY <1>5, <1>6 DEF Kept, Contract!Next

-----------------------------------------------------------------------------
(* The pipeline's and the replay's steps                                     *)

\* A trade of either phase, by either driver.
LEMMA TradeKept ==
    ASSUME IInv, DriverInv, at = "trades", driver # "hand", NEW t \in ApexTrades, Update(t), gross' = gross,
           \/ phase' = "breached_eval" /\ Goto("done", {"eval_breach"})
           \/ phase = "eval" /\ phase' = "pa" /\ Goto("day", {"passed"})
           \/ phase' = "breached_pa" /\ Goto("done", {"closed"})
           \/ phase' = phase /\ locked' /\ Goto("close", {})
           \/ phase' = phase /\ ~locked' /\ NextTrade
    PROVE  Kept
<1>1. /\ payouts' = payouts /\ phase \in Active /\ ~locked
      /\ \/ phase' = phase
         \/ ~locked' /\ phase = "eval" /\ phase' \in {"pa", "breached_eval"}
         \/ ~locked' /\ phase = "pa" /\ phase' = "breached_pa"
  BY TradeEffect
<1>2. CASE phase' = "breached_eval" /\ Goto("done", {"eval_breach"})
  <2>1. at' = "done" /\ result' = result \union {"eval_breach"} /\ driver' = driver
    BY <1>2, GotoEffect
  <2>2. ~Funded /\ ~Funded' /\ Funded' = Funded /\ Status' = "breached"
    BY <1>1, <1>2 DEF Funded, Status, Active
  <2>3. gross' \in Int
    BY DEF DriverInv
  <2> QED BY <1>1, <2>1, <2>2, <2>3, Finishes DEF Contract!Reasons
<1>3. CASE phase = "eval" /\ phase' = "pa" /\ Goto("day", {"passed"})
  BY <1>1, <1>3, GotoEffect, TradePasses
<1>4. CASE phase' = "breached_pa" /\ Goto("done", {"closed"})
  <2>1. at' = "done" /\ result' = result \union {"closed"} /\ driver' = driver
    BY <1>4, GotoEffect
  <2>2. Funded /\ Funded' /\ Funded' = Funded /\ Status' = "breached"
    BY <1>1, <1>4 DEF Funded, Status, Active
  <2>3. gross' \in Int
    BY DEF DriverInv
  <2> QED BY <1>1, <2>1, <2>2, <2>3, Finishes DEF Contract!Reasons
<1>5. CASE phase' = phase /\ locked' /\ Goto("close", {})
  <2>1. at' = "close" /\ result' = result /\ driver' = driver
    BY <1>5, GotoEffect
  <2> QED BY <1>1, <1>5, <2>1, Trades1
<1>6. CASE phase' = phase /\ ~locked' /\ NextTrade
  <2>1. at' \in {"trades", "close"} /\ result' = result /\ driver' = driver
    BY <1>6 DEF NextTrade
  <2> QED BY <1>1, <1>6, <2>1, Trades1
<1> QED BY <1>2, <1>3, <1>4, <1>5, <1>6

\* An attempt on an account that trades is over, for a reason the account bears out.
LEMMA TimesOut ==
    ASSUME DriverInv, at \in {"day", "payout"}, driver # "hand", UNCHANGED account, gross' = gross,
           NEW r \in {"eval_timeout", "funded_timeout", "capped"},
           Goto("done", {r}), Funded <=> r # "eval_timeout"
    PROVE  Kept
<1>1. phase' = phase /\ locked' = locked /\ payouts' = payouts
  BY DEF account, vars
<1>2. at' = "done" /\ result' = result \union {r} /\ driver' = driver
  BY GotoEffect
<1>3. Funded' = Funded /\ Status' = Status /\ Status = "open"
  BY <1>1, StatusOf DEF DriverInv, Funded, Status
<1>4. gross' \in Int /\ r \in Contract!Reasons
  BY DEF DriverInv, Contract!Reasons
<1> QED BY <1>1, <1>2, <1>3, <1>4, Finishes

\* Passed is what the driver keeps of the phase.
LEMMA PassedIsFunded ==
    ASSUME DriverInv, at \in {"day", "trades", "close", "payout"}
    PROVE  /\ Passed <=> Funded
           /\ at \in {"day", "trades", "close"} => (Passed <=> phase = "pa") /\ (~Passed <=> phase = "eval")
BY DEF DriverInv, Passed, Funded, Active

\* A session begins.
LEMMA BeginKept ==
    ASSUME DriverInv, at = "day", driver # "hand", UNCHANGED account, BeginEvalDay \/ BeginFundedDay
    PROVE  Kept
<1>1. at' = "trades" /\ driver' = driver /\ UNCHANGED <<gross, result>>
  BY DEF BeginEvalDay, BeginFundedDay
<1> QED BY <1>1, Begins

\* The close of a session.
LEMMA CloseKept ==
    ASSUME DriverInv, at = "close", driver # "hand", gross' = gross, CloseDay,
           \/ phase = "eval" /\ Goto("day", IF phase' = "pa" THEN {"passed"} ELSE {})
           \/ phase = "pa" /\ Goto("payout", {})
    PROVE  Kept
<1>1. CASE phase = "eval" /\ Goto("day", IF phase' = "pa" THEN {"passed"} ELSE {})
  <2>1. /\ at' = "day" /\ result' = result \union IF phase' = "pa" THEN {"passed"} ELSE {}
        /\ driver' = driver
    BY <1>1, GotoEffect
  <2> QED BY <1>1, <2>1, Closes
<1>2. CASE phase = "pa" /\ Goto("payout", {})
  <2>1. at' = "payout" /\ result' = result /\ driver' = driver
    BY <1>2, GotoEffect
  <2>2. phase' = "pa" /\ result = {"passed"}
    BY <1>2, CloseEffect DEF Active, DriverInv, Funded
  <2>3. result' = result \union IF phase' = "pa" THEN {"passed"} ELSE {}
    BY <2>1, <2>2
  <2> QED BY <1>2, <2>1, <2>3, Closes
<1> QED BY <1>1, <1>2

\* A payout that was refused.
LEMMA RefusedKept ==
    ASSUME DriverInv, at = "payout", driver # "hand", UNCHANGED account, gross' = gross, Goto("day", {})
    PROVE  Kept
<1>1. at' = "day" /\ result' = result /\ driver' = driver
  BY GotoEffect
<1>2. phase' = phase /\ locked' = locked /\ payouts' = payouts /\ phase = "pa"
  BY DEF account, vars, DriverInv
<1>3. phase' = "pa" /\ locked' = locked /\ result' = result /\ payouts' = payouts
  BY <1>1, <1>2
<1> QED BY <1>1, <1>3, PaysNot

\* What was paid is counted.
LEMMA GrossGrows ==
    ASSUME NEW g \in Int, NEW b \in Int, NEW c \in Int, c < b
    PROVE  g + b - c \in Int /\ g + b - c > g
OBVIOUS

\* A payout that was made: the account stays open, and the attempt ends at the cap; or
\* it closed the account, which ends the attempt too.
LEMMA PaidKept ==
    ASSUME IInv, DriverInv, at = "payout", driver # "hand", RequestPayout,
           gross' = gross + balance - balance',
           \/ phase' = "breached_pa" /\ Goto("done", {"closed"})
           \/ phase' = "pa" /\ (Goto("done", {"capped"}) \/ Goto("day", {}))
    PROVE  Kept
<1>1. /\ payouts' = payouts + 1 /\ phase = "pa" /\ locked' = locked
      /\ balance \in Int /\ balance' \in Int /\ balance' < balance
  BY PayoutEffect
<1>g. gross' = gross + balance - balance'
  OBVIOUS
<1>2. gross' > gross /\ gross' \in Int
  <2>1. gross \in Int
    BY DEF DriverInv
  <2> QED BY <1>1, <1>g, <2>1, GrossGrows
<1>3. CASE phase' = "pa" /\ Goto("day", {})
  <2>1. at' = "day" /\ result' = result /\ driver' = driver
    BY <1>3, GotoEffect
  <2> QED BY <1>1, <1>2, <1>3, <2>1, Pays
<1>4. CASE phase' = "pa" /\ Goto("done", {"capped"})
  <2>1. at' = "done" /\ result' = result \union {"capped"} /\ driver' = driver
    BY <1>4, GotoEffect
  <2>2. phase = "pa" /\ ~locked
    BY <1>1 DEF DriverInv
  <2>3. Funded /\ Funded' /\ Funded' = Funded /\ Status' = "open"
    BY <1>1, <1>4, <2>2 DEF Funded, Status, Active
  <2> QED BY <1>1, <1>2, <2>1, <2>3, Finishes DEF Contract!Reasons
<1>5. CASE phase' = "breached_pa" /\ Goto("done", {"closed"})
  <2>1. at' = "done" /\ result' = result \union {"closed"} /\ driver' = driver
    BY <1>5, GotoEffect
  <2>2. Funded /\ Funded' /\ Funded' = Funded /\ Status' = "breached"
    BY <1>1, <1>5 DEF Funded, Status, Active
  <2> QED BY <1>1, <1>2, <2>1, <2>2, Finishes DEF Contract!Reasons
<1> QED BY <1>3, <1>4, <1>5

\* simulate_apex_pipeline.
LEMMA PipelineKept ==
    ASSUME IInv, DriverInv, PipelineNext
    PROVE  Kept
<1>p. driver # "hand"
  BY DEF PipelineNext, PipelineEvalDay, PipelineEvalTrade, PipelineEvalClose, PipelinePaDay,
         PipelinePaTrade, PipelinePaClose, PipelineRefused, PipelinePayout, Pipeline
<1>1. CASE PipelineEvalDay
  <2>1. at = "day" /\ ~Funded
    BY <1>1, PassedIsFunded DEF PipelineEvalDay, Pipeline
  <2> QED BY <1>1, <1>p, <2>1, BeginKept, TimesOut DEF PipelineEvalDay
<1>2. CASE PipelineEvalTrade
  <2>1. at = "trades" /\ phase = "eval" /\ gross' = gross
    BY <1>2, PassedIsFunded DEF PipelineEvalTrade, Pipeline
  <2>2. PICK t \in ApexTrades : Update(t)
    BY <1>2 DEF PipelineEvalTrade
  <2>3. /\ locked' => phase' = phase
        /\ phase' \in {"eval", "pa", "breached_eval"}
    BY <2>1, <2>2, TradeEffect
  <2>4. \/ phase' = "breached_eval" /\ Goto("done", {"eval_breach"})
        \/ phase = "eval" /\ phase' = "pa" /\ Goto("day", {"passed"})
        \/ phase' = phase /\ locked' /\ Goto("close", {})
        \/ phase' = phase /\ ~locked' /\ NextTrade
    BY <1>2, <2>1, <2>3 DEF PipelineEvalTrade
  <2> QED BY <1>p, <2>1, <2>2, <2>4, TradeKept
<1>3. CASE PipelineEvalClose
  <2>1. at = "close" /\ phase = "eval"
    BY <1>3, PassedIsFunded DEF PipelineEvalClose, Pipeline
  <2> QED BY <1>3, <1>p, <2>1, CloseKept DEF PipelineEvalClose
<1>4. CASE PipelinePaDay
  <2>1. at = "day" /\ phase = "pa" /\ Funded
    BY <1>4, PassedIsFunded DEF PipelinePaDay, Pipeline
  <2>2. \/ BeginFundedDay
        \/ gross' = gross /\ Goto("done", {"funded_timeout"} \union {})
    BY <1>4, <2>1 DEF PipelinePaDay, Breach
  <2>3. UNCHANGED account
    BY <1>4 DEF PipelinePaDay
  <2>4. {"funded_timeout"} \union {} = {"funded_timeout"}
    OBVIOUS
  <2> QED BY <1>p, <2>1, <2>2, <2>3, <2>4, BeginKept, TimesOut
<1>5. CASE PipelinePaTrade
  <2>1. at = "trades" /\ phase = "pa" /\ gross' = gross
    BY <1>5, PassedIsFunded DEF PipelinePaTrade, Pipeline
  <2>2. PICK t \in ApexTrades : Update(t)
    BY <1>5 DEF PipelinePaTrade
  <2>3. /\ locked' => phase' = phase
        /\ phase' \in {"pa", "breached_pa"}
    BY <2>1, <2>2, TradeEffect
  <2>4. \/ phase' = "breached_pa" /\ Goto("done", {"closed"})
        \/ phase' = phase /\ locked' /\ Goto("close", {})
        \/ phase' = phase /\ ~locked' /\ NextTrade
    BY <1>5, <2>1, <2>3 DEF PipelinePaTrade
  <2> QED BY <1>p, <2>1, <2>2, <2>4, TradeKept
<1>6. CASE PipelineRefused
  <2>1. at = "payout" /\ Goto("day", {}) /\ gross' = gross /\ UNCHANGED account
    BY <1>6 DEF PipelineRefused, Pipeline
  <2> QED BY <1>p, <2>1, RefusedKept
<1>7. CASE PipelinePaClose
  <2>1. at = "close" /\ phase = "pa"
    BY <1>7, PassedIsFunded DEF PipelinePaClose, Pipeline
  <2> QED BY <1>7, <1>p, <2>1, CloseKept DEF PipelinePaClose
<1>8. CASE PipelinePayout
  <2>1. at = "payout" /\ RequestPayout /\ gross' = gross + balance - balance'
    BY <1>8 DEF PipelinePayout, Pipeline
  <2>2. phase' \in {"pa", "breached_pa"}
    BY <2>1, PayoutEffect
  <2>3. CASE phase' = "breached_pa"
    <3>1. Goto("done", {"closed"})
      BY <1>8, <2>3 DEF PipelinePayout
    <3> QED BY <1>p, <2>1, <2>3, <3>1, PaidKept
  <2>4. CASE phase' = "pa"
    <3>1. Goto("done", {"capped"}) \/ Goto("day", {})
      BY <1>8, <2>4 DEF PipelinePayout
    <3> QED BY <1>p, <2>1, <2>4, <3>1, PaidKept
  <2> QED BY <2>2, <2>3, <2>4
<1> QED BY <1>1, <1>2, <1>3, <1>4, <1>5, <1>6, <1>7, <1>8 DEF PipelineNext

\* simulate_apex_trade_replay.
LEMMA ReplayKept ==
    ASSUME IInv, DriverInv, ReplayNext
    PROVE  Kept
<1>p. driver # "hand"
  BY DEF ReplayNext, ReplayDay, ReplayEnds, ReplayNoMoreTrades, ReplayEvalTrade, ReplayEvalClose,
         ReplayPaTrade, ReplayPaClose, ReplayRefused, ReplayPayout, Replay
<1>1. CASE ReplayDay
  BY <1>1, <1>p, BeginKept DEF ReplayDay, Replay
<1>2. CASE ReplayEnds
  <2>1. at = "day" /\ UNCHANGED account /\ gross' = gross
    BY <1>2 DEF ReplayEnds, Replay
  <2>2. (Passed <=> Funded) /\ phase = IF Passed THEN "pa" ELSE "eval"
    BY <2>1, PassedIsFunded DEF DriverInv, Active
  <2>3. CASE ~Passed
    <3>1. Goto("done", {"eval_timeout"})
      BY <1>2, <2>2, <2>3 DEF ReplayEnds
    <3> QED BY <1>p, <2>1, <2>2, <2>3, <3>1, TimesOut
  <2>4. CASE Passed
    <3>1. Goto("done", {"funded_timeout"})
      BY <1>2, <2>2, <2>4 DEF ReplayEnds
    <3> QED BY <1>p, <2>1, <2>2, <2>4, <3>1, TimesOut
  <2> QED BY <2>3, <2>4
<1>3. CASE ReplayNoMoreTrades
  <2>1. at = "trades" /\ gross' = gross /\ phase' = phase /\ payouts' = payouts
    BY <1>3 DEF ReplayNoMoreTrades, Replay, account, vars
  <2>2. at' = "close" /\ result' = result /\ driver' = driver
    BY <1>3, GotoEffect DEF ReplayNoMoreTrades
  <2> QED BY <1>p, <2>1, <2>2, Trades1
<1>4. CASE ReplayEvalTrade
  <2>1. at = "trades" /\ phase = "eval" /\ gross' = gross
    BY <1>4 DEF ReplayEvalTrade, Replay
  <2>2. PICK t \in ApexTrades : Update(t)
    BY <1>4 DEF ReplayEvalTrade
  <2>3. /\ locked' => phase' = phase
        /\ phase' \in {"eval", "pa", "breached_eval"}
    BY <2>1, <2>2, TradeEffect
  <2>4. \/ phase' = "breached_eval" /\ Goto("done", {"eval_breach"})
        \/ phase = "eval" /\ phase' = "pa" /\ Goto("day", {"passed"})
        \/ phase' = phase /\ locked' /\ Goto("close", {})
        \/ phase' = phase /\ ~locked' /\ NextTrade
    BY <1>4, <2>1, <2>3 DEF ReplayEvalTrade
  <2> QED BY <1>p, <2>1, <2>2, <2>4, TradeKept
<1>5. CASE ReplayEvalClose
  BY <1>5, <1>p, CloseKept DEF ReplayEvalClose, Replay
<1>6. CASE ReplayPaTrade
  <2>1. at = "trades" /\ phase = "pa" /\ gross' = gross
    BY <1>6 DEF ReplayPaTrade, Replay
  <2>2. PICK t \in ApexTrades : Update(t)
    BY <1>6 DEF ReplayPaTrade
  <2>3. /\ locked' => phase' = phase
        /\ phase' \in {"pa", "breached_pa"}
    BY <2>1, <2>2, TradeEffect
  <2>4. \/ phase' = "breached_pa" /\ Goto("done", {"closed"})
        \/ phase' = phase /\ locked' /\ Goto("close", {})
        \/ phase' = phase /\ ~locked' /\ NextTrade
    BY <1>6, <2>1, <2>3 DEF ReplayPaTrade
  <2> QED BY <1>p, <2>1, <2>2, <2>4, TradeKept
<1>7. CASE ReplayPaClose
  BY <1>7, <1>p, CloseKept DEF ReplayPaClose, Replay
<1>8. CASE ReplayRefused
  <2>1. at = "payout" /\ gross' = gross /\ UNCHANGED account
    BY <1>8 DEF ReplayRefused, Replay
  <2>2. Funded
    BY <2>1 DEF DriverInv, Funded
  <2>3. CASE Goto("done", {"capped"})
    BY <1>p, <2>1, <2>2, <2>3, TimesOut
  <2>4. CASE Goto("day", {})
    BY <1>p, <2>1, <2>4, RefusedKept
  <2> QED BY <1>8, <2>3, <2>4 DEF ReplayRefused
<1>9. CASE ReplayPayout
  <2>1. at = "payout" /\ RequestPayout /\ gross' = gross + balance - balance'
    BY <1>9 DEF ReplayPayout, Replay
  <2>2. phase' \in {"pa", "breached_pa"}
    BY <2>1, PayoutEffect
  <2>3. CASE phase' = "breached_pa"
    <3>1. Goto("done", {"closed"})
      BY <1>9, <2>3 DEF ReplayPayout
    <3> QED BY <1>p, <2>1, <2>3, <3>1, PaidKept
  <2>4. CASE phase' = "pa"
    <3>1. Goto("done", {"capped"}) \/ Goto("day", {})
      BY <1>9, <2>4 DEF ReplayPayout
    <3> QED BY <1>p, <2>1, <2>4, <3>1, PaidKept
  <2> QED BY <2>2, <2>3, <2>4
<1> QED BY <1>1, <1>2, <1>3, <1>4, <1>5, <1>6, <1>7, <1>8, <1>9 DEF ReplayNext

-----------------------------------------------------------------------------
(* The theorems about the drivers                                            *)

\* A driver uses the account by its operations only.
LEMMA AccountStep == AttemptsNext => [Next]_vars
<1>1. ByHand => [Next]_vars
  BY DEF ByHand
<1>2. PipelineNext => [Next]_vars
  BY DEF PipelineNext, PipelineEvalDay, PipelineEvalTrade, PipelineEvalClose, PipelinePaDay,
         PipelinePaTrade, PipelinePaClose, PipelineRefused, PipelinePayout, account, Next
<1>3. ReplayNext => [Next]_vars
  BY DEF ReplayNext, ReplayDay, ReplayEnds, ReplayNoMoreTrades, ReplayEvalTrade, ReplayEvalClose,
         ReplayPaTrade, ReplayPaClose, ReplayRefused, ReplayPayout, account, Next
<1> QED BY <1>1, <1>2, <1>3 DEF AttemptsNext

\* Whatever a driver does with it, the account is one of ApexAccount: what is proved
\* of the account holds in every attempt.
THEOREM DriversUseAccount == AttemptsSpec => Spec
<1>1. AttemptsInit => Init
  BY DEF AttemptsInit
<1>2. [AttemptsNext]_<<vars, attempt>> => [Next]_vars
  BY AccountStep
<1> QED BY <1>1, <1>2, PTL DEF AttemptsSpec, Spec

\* An attempt begins before its first session, with an account in the evaluation.
LEMMA InitKept == AttemptsInit => DriverInv /\ Contract!Init
<1> SUFFICES ASSUME AttemptsInit PROVE DriverInv /\ Contract!Init
  OBVIOUS
<1>1. /\ phase = "eval" /\ locked = FALSE /\ payouts = 0 /\ gross = 0 /\ result = {}
      /\ at = "hand" \/ (at = "day" /\ driver # "hand")
  BY DEF AttemptsInit, Init, AttemptInit
<1>2. ~Funded /\ Status = "open"
  BY <1>1 DEF Funded, Status, Active
<1>3. DriverInv
  BY <1>1, <1>2 DEF DriverInv, Steps, Active
<1>4. Contract!Init
  BY <1>1, <1>2 DEF Contract!Init
<1> QED BY <1>3, <1>4

\* Every step of a driver keeps the invariant and is a step of the contract.
LEMMA StepKept ==
    ASSUME IInv, DriverInv, [AttemptsNext]_<<vars, attempt>>
    PROVE  DriverInv' /\ [Contract!Next]_(Contract!vars)
<1>1. CASE ByHand
  <2>1. at = "hand" /\ at' = "hand" /\ gross' = gross
    BY <1>1 DEF ByHand, attempt
  <2>2. DriverInv'
    BY <2>1 DEF DriverInv
  <2> QED BY <2>1, <2>2 DEF Contract!Next, Contract!ByHand
<1>2. CASE PipelineNext
  BY <1>2, PipelineKept DEF Kept
<1>3. CASE ReplayNext
  BY <1>3, ReplayKept DEF Kept
<1>4. CASE UNCHANGED <<vars, attempt>>
  <2>1. UNCHANGED <<phase, locked, payouts, gross, result, at, driver>>
    BY <1>4 DEF vars, attempt
  <2>2. Status' = Status /\ Funded' = Funded
    BY <2>1 DEF Status, Funded
  <2>3. DriverInv'
    BY <2>1, <2>2 DEF DriverInv
  <2> QED BY <2>1, <2>2, <2>3 DEF Contract!vars
<1> QED BY <1>1, <1>2, <1>3, <1>4 DEF AttemptsNext

\* Both drivers implement AttemptContract: no trade is sent to an account that would
\* refuse it, no session mixes the evaluation and the PA, payouts fall between sessions,
\* and the attempt ends for the one reason the account bears out.
THEOREM DriversKeepContract == AttemptsSpec => KeepsContract
<1>1. AttemptsInit => DriverInv /\ Contract!Init
  BY InitKept
<1>2. IInv /\ DriverInv /\ [AttemptsNext]_<<vars, attempt>>
        => DriverInv' /\ [Contract!Next]_(Contract!vars)
  BY StepKept
<1>3. AttemptsSpec => []IInv
  BY DriversUseAccount, Invariance, PTL
<1> QED BY <1>1, <1>2, <1>3, PTL DEF AttemptsSpec, KeepsContract, Contract!Spec

-----------------------------------------------------------------------------
(* The accounts of AltFirms                                                  *)

AltStages == AltActive \union {"breached", "failed"}
Alts == [balance : Int, floor : Int, peak : Int, locked : BOOLEAN]

AltTypeOK ==
    /\ stage \in AltStages /\ alt \in Alts
    /\ cycle \in [sum : Int, best : Int, n : Int]
    /\ settling \in BOOLEAN /\ paid \in 0..AltMaxPayouts

\* An account that may trade is above its floor; Tradeify's is never over the lock, and
\* MFFU's is what the highest balance makes it.
AltFloorOK ==
    /\ stage \in AltActive => alt.balance > alt.floor
    /\ stage = "lightning" => alt.floor <= AltLockedFloor
    /\ stage = "rapid" =>
          alt.floor = IF alt.locked THEN AltLockedFloor ELSE alt.peak - AltMaxLoss
    /\ stage = "rapid" /\ ~alt.locked => alt.peak < AltLock

AltInv == AltTypeOK /\ AltFloorOK

\* What the amounts are.
LEMMA AltAmounts ==
    /\ AltLock \in Int /\ AltMaxLoss \in Int /\ AltMaxLoss > 0
    /\ AltLockedFloor \in Nat /\ AltLockedFloor < AltLock /\ AltLock - AltMaxLoss = AltLockedFloor
    /\ AltPayoutAt \in Int /\ AltPayoutAt > AltLock
    /\ AltMinGross \in Int /\ AltMinGross > 0 /\ AltMaxPayouts \in Nat
    /\ AltCaps[1] \in Int /\ AltCaps[2] \in Int
    /\ AltSessions \subseteq Int
BY AltAssumption

\* A fresh account, and no sessions.
LEMMA AltFreshType ==
    /\ [balance |-> 0, floor |-> -AltMaxLoss, peak |-> 0, locked |-> FALSE] \in Alts
    /\ NoSessions \in [sum : Int, best : Int, n : Int]
BY AltAmounts DEF Alts, NoSessions

\* A step of AltFirms, as TrailingAccount sees it.
Stepped == AltInv' /\ AltTrailing!Next

\* A new account of either firm.
LEMMA AltInitInv == AltInit => AltInv /\ AltTrailing!Init
<1> SUFFICES ASSUME AltInit PROVE AltInv /\ AltTrailing!Init
  OBVIOUS
<1> USE AltAmounts
<1>0. /\ stage \in {"lightning", "rapid_eval"} /\ settling = FALSE /\ paid = 0 /\ cycle = NoSessions
      /\ alt.balance = 0 /\ alt.floor = -AltMaxLoss /\ alt \in Alts
  BY AltFreshType DEF AltInit
<1>1. AltTypeOK
  <2>1. stage \in AltStages /\ settling \in BOOLEAN
    BY <1>0 DEF AltStages, AltActive
  <2>2. paid \in 0..AltMaxPayouts
    BY <1>0
  <2> QED BY <1>0, <2>1, <2>2, AltFreshType DEF AltTypeOK
<1>2. AltFloorOK
  BY <1>0 DEF AltFloorOK, AltActive
<1>3. AltTrailing!Init
  BY DEF AltInit, AltActive, AltTrailing!Init
<1> QED BY <1>1, <1>2, <1>3 DEF AltInv

\* The fields that arithmetic is done with.
LEMMA AltFields ==
    ASSUME AltTypeOK
    PROVE  /\ alt.balance \in Int /\ alt.floor \in Int /\ alt.peak \in Int
           /\ alt.locked \in BOOLEAN /\ cycle.sum \in Int /\ cycle.best \in Int /\ cycle.n \in Int
           /\ paid \in Int /\ stage \in AltStages
           /\ alt = [balance |-> alt.balance, floor |-> alt.floor, peak |-> alt.peak,
                     locked |-> alt.locked]
BY AltAmounts DEF AltTypeOK, Alts

\* The sums stay integers.
LEMMA WithType ==
    ASSUME AltTypeOK, NEW q \in Int PROVE With(q) \in [sum : Int, best : Int, n : Int]
BY AltFields DEF With, Higher, Lower

\* A Lightning floor that moves neither falls nor reaches the balance.
LEMMA LightningFloorMoves ==
    ASSUME NEW b \in Int, alt.floor \in Int, alt.floor <= AltLockedFloor, b > alt.floor
    PROVE  /\ LightningFloor(b) \in Int /\ LightningFloor(b) >= alt.floor
           /\ LightningFloor(b) <= AltLockedFloor /\ b > LightningFloor(b)
BY AltAmounts DEF LightningFloor, Higher

\* A session of Tradeify's account.
LEMMA LightningSessionStep ==
    ASSUME AltInv, NEW q \in AltSessions, LightningSession(q) PROVE Stepped
<1>1. AltTypeOK /\ AltFloorOK /\ stage = "lightning" /\ q \in Int
  BY AltAmounts DEF AltInv, LightningSession
<1> DEFINE b == alt.balance + q
<1>2. b \in Int /\ alt.balance \in Int /\ alt.floor \in Int /\ alt.floor <= AltLockedFloor
  BY <1>1, AltFields DEF AltFloorOK
<1>3. CASE b <= alt.floor
  <2>1. stage' = "breached" /\ alt' = [alt EXCEPT !.balance = b] /\ UNCHANGED <<cycle, settling, paid>>
    BY <1>3 DEF LightningSession
  <2>2. alt' \in Alts /\ alt'.balance = b /\ alt'.floor = alt.floor
    BY <1>1, <1>2, <2>1 DEF AltTypeOK, Alts
  <2>3. AltInv'
    BY <1>1, <2>1, <2>2 DEF AltInv, AltTypeOK, AltFloorOK, AltStages, AltActive
  <2>4. AltTrailing!Trade
    BY <1>1, <1>2, <1>3, <2>1, <2>2 DEF AltTrailing!Trade, AltActive
  <2> QED BY <2>3, <2>4 DEF Stepped, AltTrailing!Next
<1>4. CASE ~(b <= alt.floor)
  <2>1. /\ alt' = [alt EXCEPT !.balance = b, !.floor = LightningFloor(b)]
        /\ cycle' = With(q) /\ settling' = TRUE /\ stage' = stage /\ paid' = paid
    BY <1>4 DEF LightningSession
  <2>2. /\ LightningFloor(b) \in Int /\ LightningFloor(b) >= alt.floor
        /\ LightningFloor(b) <= AltLockedFloor /\ b > LightningFloor(b)
    BY <1>2, <1>4, LightningFloorMoves
  <2>3. alt' \in Alts /\ alt'.balance = b /\ alt'.floor = LightningFloor(b)
    BY <1>1, <1>2, <2>1, <2>2 DEF AltTypeOK, Alts
  <2>4. AltInv'
    BY <1>1, <2>1, <2>2, <2>3, WithType DEF AltInv, AltTypeOK, AltFloorOK, AltStages, AltActive
  <2>5. AltTrailing!Trade
    BY <1>1, <2>1, <2>2, <2>3 DEF AltTrailing!Trade, AltActive
  <2> QED BY <2>4, <2>5 DEF Stepped, AltTrailing!Next
<1> QED BY <1>3, <1>4

\* A payout that is not made changes nothing that TrailingAccount sees.
LEMMA NoPayout ==
    ASSUME AltInv, settling' = FALSE, UNCHANGED <<stage, alt, cycle, paid>>
    PROVE  AltInv' /\ UNCHANGED AltTrailing!vars
<1>1. AltInv'
  BY DEF AltInv, AltTypeOK, AltFloorOK
<1> QED BY <1>1 DEF AltTrailing!vars

\* The payout after it, or none yet.
LEMMA LightningPayoutStep ==
    ASSUME AltInv, LightningPayout PROVE Stepped \/ (AltInv' /\ UNCHANGED AltTrailing!vars)
<1>1. AltTypeOK /\ AltFloorOK /\ stage = "lightning" /\ settling' = FALSE
  BY DEF AltInv, LightningPayout
<1>2. CASE ~LightningDue /\ UNCHANGED <<stage, alt, cycle, paid>>
  BY <1>1, <1>2, NoPayout
<1>3. CASE LightningDue
  <2>1. /\ paid < AltMaxPayouts /\ alt' = [alt EXCEPT !.balance = @ - LightningGross]
        /\ cycle' = NoSessions /\ paid' = paid + 1
        /\ stage' = IF alt'.balance <= alt.floor THEN "breached" ELSE stage
    BY <1>3 DEF LightningPayout
  <2>2. LightningGross \in Int /\ LightningGross > 0
    <3>1. LightningGross \in Int
      BY <1>1, AltFields, AltAmounts DEF LightningGross, Lower
    <3>2. LightningGross >= AltMinGross
      BY <1>3 DEF LightningDue
    <3> QED BY <3>1, <3>2, AltAmounts
  <2>3. /\ alt' \in Alts /\ alt'.balance = alt.balance - LightningGross /\ alt'.floor = alt.floor
        /\ alt.balance \in Int /\ alt.floor \in Int /\ paid' \in 0..AltMaxPayouts
    BY <1>1, <2>1, <2>2, AltFields, AltAmounts DEF AltTypeOK, Alts
  <2>4. AltInv'
    <3>1. AltTypeOK'
      BY <1>1, <2>1, <2>3, AltFreshType DEF AltTypeOK, AltStages, AltActive
    <3>2. AltFloorOK'
      <4>1. stage' \in {"lightning", "breached"} /\ (stage' = "lightning" => alt'.balance > alt'.floor)
        <5>1. alt'.balance \in Int /\ alt'.floor \in Int
          BY <2>2, <2>3
        <5>2. alt'.balance <= alt'.floor => stage' = "breached"
          BY <2>1, <2>3
        <5>3. ~(alt'.balance <= alt'.floor) => stage' = stage
          BY <2>1, <2>3
        <5>4. ~(alt'.balance <= alt'.floor) => alt'.balance > alt'.floor
          BY <5>1
        <5> QED BY <1>1, <5>2, <5>3, <5>4
      <4>2. alt'.floor <= AltLockedFloor
        BY <1>1, <2>3 DEF AltFloorOK
      <4> QED BY <4>1, <4>2 DEF AltFloorOK, AltActive
    <3> QED BY <3>1, <3>2 DEF AltInv
  <2>5. AltTrailing!Payout
    BY <1>1, <2>1, <2>2, <2>3 DEF AltTrailing!Payout, AltActive
  <2> QED BY <2>4, <2>5 DEF Stepped, AltTrailing!Next
<1> QED BY <1>2, <1>3 DEF LightningPayout

\* A session of MFFU's evaluation: failed, funded or still trading.
LEMMA RapidEvalStep ==
    ASSUME AltInv, NEW q \in AltSessions, RapidEvalSession(q) PROVE Stepped
<1>1. AltTypeOK /\ AltFloorOK /\ stage = "rapid_eval" /\ q \in Int /\ UNCHANGED <<settling, paid>>
  BY AltAmounts DEF AltInv, RapidEvalSession
<1> DEFINE b == alt.balance + q
<1>2. b \in Int /\ alt.balance \in Int /\ alt.floor \in Int
  BY <1>1, AltFields
<1>3. CASE b <= alt.floor /\ stage' = "failed" /\ alt' = [alt EXCEPT !.balance = b] /\ cycle' = cycle
  <2>1. alt' \in Alts /\ alt'.balance = b /\ alt'.floor = alt.floor
    BY <1>1, <1>2, <1>3 DEF AltTypeOK, Alts
  <2>2. AltInv'
    BY <1>1, <1>3, <2>1 DEF AltInv, AltTypeOK, AltFloorOK, AltStages, AltActive
  <2>3. AltTrailing!Trade
    BY <1>1, <1>2, <1>3, <2>1 DEF AltTrailing!Trade, AltActive
  <2> QED BY <2>2, <2>3 DEF Stepped, AltTrailing!Next
<1>4. CASE /\ stage' = "rapid" /\ cycle' = NoSessions
           /\ alt' = [balance |-> 0, floor |-> -AltMaxLoss, peak |-> 0, locked |-> FALSE]
  <2>0. /\ alt' \in Alts /\ cycle' \in [sum : Int, best : Int, n : Int]
        /\ alt'.balance = 0 /\ alt'.floor = -AltMaxLoss /\ alt'.peak = 0 /\ alt'.locked = FALSE
    BY <1>4, AltFreshType
  <2>1. AltInv'
    <3>1. AltTypeOK'
      BY <1>1, <1>4, <2>0 DEF AltTypeOK, AltStages, AltActive
    <3>2. AltFloorOK'
      BY <1>4, <2>0, AltAmounts DEF AltFloorOK, AltActive
    <3> QED BY <3>1, <3>2 DEF AltInv
  <2>2. AltTrailing!Pass
    BY <1>1, <1>4, <2>0, AltAmounts DEF AltTrailing!Pass, AltTrailing!Fresh, AltActive
  <2> QED BY <2>1, <2>2 DEF Stepped, AltTrailing!Next
<1>5. CASE /\ b > alt.floor /\ stage' = stage /\ cycle' = With(q)
           /\ alt' = [alt EXCEPT !.balance = b, !.floor = Higher(@, b - AltMaxLoss)]
  <2>1. /\ Higher(alt.floor, b - AltMaxLoss) \in Int
        /\ Higher(alt.floor, b - AltMaxLoss) >= alt.floor
        /\ b > Higher(alt.floor, b - AltMaxLoss)
    BY <1>2, <1>5, AltAmounts DEF Higher
  <2>2. alt' \in Alts /\ alt'.balance = b /\ alt'.floor = Higher(alt.floor, b - AltMaxLoss)
    BY <1>1, <1>2, <1>5, <2>1 DEF AltTypeOK, Alts
  <2>3. AltInv'
    BY <1>1, <1>5, <2>1, <2>2, WithType DEF AltInv, AltTypeOK, AltFloorOK, AltStages, AltActive
  <2>4. AltTrailing!Trade
    BY <1>1, <1>5, <2>1, <2>2 DEF AltTrailing!Trade, AltActive
  <2> QED BY <2>3, <2>4 DEF Stepped, AltTrailing!Next
<1> QED BY <1>3, <1>4, <1>5 DEF RapidEvalSession

\* What the funded Rapid account's floor is after a session.
RapidPeak(q) == Higher(alt.peak, alt.balance + q)
RapidFloor(q) ==
    IF alt.locked THEN alt.floor
    ELSE IF RapidPeak(q) >= AltLock THEN AltLockedFloor ELSE RapidPeak(q) - AltMaxLoss

\* The floor follows the peak until it is locked, and no higher than the lock.
LEMMA RapidFloorMoves ==
    ASSUME AltInv, stage = "rapid", NEW q \in Int
    PROVE  /\ RapidPeak(q) \in Int /\ RapidFloor(q) \in Int /\ RapidFloor(q) >= alt.floor
           /\ RapidFloor(q) = IF alt.locked \/ RapidPeak(q) >= AltLock
                              THEN AltLockedFloor ELSE RapidPeak(q) - AltMaxLoss
<1>1. RapidPeak(q) \in Int /\ RapidPeak(q) >= alt.peak
  BY AltFields DEF AltInv, RapidPeak, Higher
<1>2. /\ alt.floor \in Int /\ alt.peak \in Int
      /\ alt.floor = IF alt.locked THEN AltLockedFloor ELSE alt.peak - AltMaxLoss
      /\ ~alt.locked => alt.peak < AltLock
  BY AltFields DEF AltInv, AltFloorOK
<1>3. CASE alt.locked
  BY <1>1, <1>2, <1>3, AltAmounts DEF RapidFloor
<1>4. CASE ~alt.locked
  BY <1>1, <1>2, <1>4, AltAmounts DEF RapidFloor
<1> QED BY <1>3, <1>4

\* A session of MFFU's funded account.
LEMMA RapidSessionStep ==
    ASSUME AltInv, NEW q \in AltSessions, RapidSession(q) PROVE Stepped
<1>1. AltTypeOK /\ AltFloorOK /\ stage = "rapid" /\ q \in Int
  BY AltAmounts DEF AltInv, RapidSession
<1> DEFINE b == alt.balance + q
<1>2. b \in Int /\ alt.balance \in Int /\ alt.floor \in Int
  BY <1>1, AltFields
<1>3. /\ RapidPeak(q) \in Int /\ RapidFloor(q) \in Int /\ RapidFloor(q) >= alt.floor
      /\ RapidFloor(q) = IF alt.locked \/ RapidPeak(q) >= AltLock
                         THEN AltLockedFloor ELSE RapidPeak(q) - AltMaxLoss
  BY <1>1, RapidFloorMoves
<1>4. /\ alt' = [balance |-> b, floor |-> RapidFloor(q), peak |-> RapidPeak(q),
                 locked |-> alt.locked \/ RapidPeak(q) >= AltLock]
      /\ stage' = IF b <= RapidFloor(q) THEN "breached" ELSE stage
      /\ settling' = (b > RapidFloor(q)) /\ UNCHANGED <<cycle, paid>>
  BY DEF RapidSession, RapidFloor, RapidPeak
<1>5. /\ alt' \in Alts /\ alt'.balance = b /\ alt'.floor = RapidFloor(q) /\ alt'.peak = RapidPeak(q)
      /\ alt'.locked <=> (alt.locked \/ RapidPeak(q) >= AltLock)
  BY <1>2, <1>3, <1>4, AltFields, <1>1 DEF Alts
<1>6. AltTypeOK'
  BY <1>1, <1>4, <1>5 DEF AltTypeOK, AltStages, AltActive
<1>7. AltFloorOK'
  <2>1. stage' \in {"rapid", "breached"} /\ (stage' = "rapid" => alt'.balance > alt'.floor)
    BY <1>1, <1>2, <1>3, <1>4, <1>5
  <2>2. alt'.floor = IF alt'.locked THEN AltLockedFloor ELSE alt'.peak - AltMaxLoss
    BY <1>3, <1>5
  <2>3. ~alt'.locked => alt'.peak < AltLock
    BY <1>3, <1>5, AltAmounts
  <2> QED BY <2>1, <2>2, <2>3 DEF AltFloorOK, AltActive
<1>8. AltTrailing!Trade
  BY <1>1, <1>2, <1>3, <1>4, <1>5 DEF AltTrailing!Trade, AltActive
<1> QED BY <1>6, <1>7, <1>8 DEF Stepped, AltInv, AltTrailing!Next

\* The payout after it, or none.
LEMMA RapidPayoutStep ==
    ASSUME AltInv, RapidPayout PROVE Stepped \/ (AltInv' /\ UNCHANGED AltTrailing!vars)
<1>1. AltTypeOK /\ AltFloorOK /\ stage = "rapid" /\ settling' = FALSE /\ UNCHANGED <<stage, cycle>>
  BY DEF AltInv, RapidPayout
<1>2. CASE UNCHANGED <<alt, paid>>
  BY <1>1, <1>2, NoPayout
<1>3. CASE /\ alt.balance >= AltPayoutAt /\ paid < AltMaxPayouts /\ paid' = paid + 1
           /\ alt' = [alt EXCEPT !.balance = AltLock]
  <2>1. /\ alt' \in Alts /\ alt'.balance = AltLock /\ alt'.floor = alt.floor
        /\ alt'.peak = alt.peak /\ alt'.locked = alt.locked
        /\ alt.balance \in Int /\ alt.floor \in Int /\ alt.peak \in Int
        /\ paid' \in 0..AltMaxPayouts
    BY <1>1, <1>3, AltFields, AltAmounts DEF AltTypeOK, Alts
  <2>2. alt.floor < AltLock /\ alt'.balance < alt.balance
    BY <1>1, <1>3, <2>1, AltAmounts DEF AltFloorOK
  <2>3. AltInv'
    BY <1>1, <1>3, <2>1, <2>2 DEF AltInv, AltTypeOK, AltFloorOK, AltStages, AltActive
  <2>4. AltTrailing!Payout
    BY <1>1, <1>3, <2>1, <2>2 DEF AltTrailing!Payout, AltActive
  <2> QED BY <2>3, <2>4 DEF Stepped, AltTrailing!Next
<1> QED BY <1>2, <1>3 DEF RapidPayout

\* Whatever the step.
LEMMA AltStep ==
    ASSUME AltInv, [AltNext]_altVars
    PROVE  AltInv' /\ [AltTrailing!Next]_(AltTrailing!vars)
<1>1. CASE AltNext
  BY <1>1, LightningSessionStep, RapidEvalStep, RapidSessionStep, LightningPayoutStep,
     RapidPayoutStep DEF AltNext, Stepped
<1>2. CASE UNCHANGED altVars
  <2>1. AltInv'
    BY <1>2 DEF AltInv, AltTypeOK, AltFloorOK, altVars
  <2> QED BY <1>2, <2>1 DEF altVars, AltTrailing!vars
<1> QED BY <1>1, <1>2

\* Tradeify's and MFFU's accounts are trailing accounts: whatever the sessions make, the
\* floor never falls, the account is open as long as its balance is above it, and no
\* payout leaves it open at or under the floor.
THEOREM OthersImplementTrailing == AltSpec => AltTrailing!Spec
<1>1. AltInit => AltInv /\ AltTrailing!Init
  BY AltInitInv
<1>2. AltInv /\ [AltNext]_altVars => AltInv' /\ [AltTrailing!Next]_(AltTrailing!vars)
  BY AltStep
<1> QED BY <1>1, <1>2, PTL DEF AltSpec, AltTrailing!Spec

-----------------------------------------------------------------------------
(* LucidFlex is written three times: the account of the pipeline,            *)
(* simulate_lucidflex_eval and LucidFlexFundedAccount.  The invariant says   *)
(* what the simulation holds while the pipeline's evaluation goes on.        *)

USE LucidAssumption, LucidBoundsAssumption

\* The phases of an account whose evaluation is passed.
FundedPhases == {"funded", "max_payouts", "breached_funded"}

\* The types of what the implementations compute with.
TwinTypes ==
    /\ lBalance \in Int /\ mll \in Int /\ lDay \in Int /\ lBest \in Nat
    /\ profDays \in Nat /\ lCycleStart \in Int /\ lPayouts \in Nat

\* A driver's attempt is passed when the account is funded, and a payout is asked for
\* when the day is closed.
TwinDriver ==
    /\ at = "hand" <=> driver = "hand"
    /\ at = "payout" => lDay = 0 /\ Passed
    /\ driver # "hand" => (Passed <=> lPhase \in FundedPhases)

\* The simulation sees the account; while it runs the account stands at no target, so
\* that it cannot pass but on a trade; and it ends with the pipeline, for its reason.
InStep ==
    /\ simBalance = lBalance /\ simMll = mll
    /\ simOpen = lBalance - lDay /\ simBest = lBest
Unended == simResult = "running" => ~Lucid!EvalCanPass(lBalance, lBest, lDay)
SameEnd ==
    /\ simResult \in {"running", "breached", "timed_out"}
    /\ simResult = "breached" <=> "eval_breach" \in result
    /\ simResult = "timed_out" <=> "eval_timeout" \in result
    /\ simResult # "running" => at = "done"
TwinSim ==
    driver = "pipeline" =>
        IF Passed THEN simResult = "passed" ELSE InStep /\ Unended /\ SameEnd

\* The invariant, of the attempts that are played with LucidFlex.
TwinParts == TwinTypes /\ TwinDriver /\ TwinSim
TwinInv == firm = "lucid" => TwinParts

\* What the account rules make of integers.
LEMMA TwinAmounts ==
    ASSUME NEW a \in Int, NEW b \in Int
    PROVE  /\ Higher(a, b) \in Int /\ Lower(a, b) \in Int /\ LucidTrail(a, b) \in Int
           /\ LucidRequest(a) \in Int
           /\ Lucid!InitialMll \in Int
           /\ (b \in Nat => Higher(b, a) \in Nat)
           /\ (b \in Nat => Higher(Higher(b, a), 0) = Higher(b, a))
<1>1. Higher(a, b) \in Int /\ Lower(a, b) \in Int
  BY DEF Higher, Lower
<1>2. LucidTrail(a, b) \in Int
  BY DEF Higher, Lower, LucidTrail
<1>3. a \div 2 \in Int
  OBVIOUS
<1>4. LucidRequest(a) \in Int
  BY <1>3 DEF LucidRequest, Lower
<1>5. Lucid!InitialMll \in Int
  BY DEF Lucid!InitialMll
<1>6. b \in Nat => Higher(b, a) \in Nat /\ Higher(Higher(b, a), 0) = Higher(b, a)
  BY DEF Higher
<1> QED BY <1>1, <1>2, <1>4, <1>5, <1>6

\* The rules of the account are those the twins are written with.
LEMMA SameRules ==
    /\ \A a, b : Lucid!Higher(a, b) = Higher(a, b) /\ Lucid!Lower(a, b) = Lower(a, b)
    /\ \A a, b : Lucid!LucidTrail(a, b) = LucidTrail(a, b)
    /\ \A a : Lucid!LucidRequest(a) = LucidRequest(a)
    /\ \A a, b : Lucid!LucidConsistencyOk(a, b) <=> LucidConsistencyOk(a, b)
    /\ Lucid!InitialMll = InitialMll
BY DEF Lucid!Higher, Higher, Lucid!Lower, Lower, Lucid!LucidTrail, LucidTrail,
       Lucid!LucidRequest, LucidRequest, Lucid!LucidConsistencyOk, LucidConsistencyOk,
       Lucid!InitialMll, InitialMll

HIDE LucidAssumption
HIDE LucidBoundsAssumption

\* What a trade does to the account.
LEMMA TwinUpdate ==
    ASSUME TwinTypes, NEW t \in LucidTrades, Lucid!Update(t)
    PROVE  /\ TwinTypes' /\ lPhase \in {"eval", "funded"}
           /\ \/ /\ lPhase = "eval" /\ lPhase' = "funded" /\ Lucid!Passes(t)
              \/ /\ ~Lucid!Passes(t) /\ Lucid!ApplyTrade(t)
                 /\ \/ lBalance' > mll /\ lPhase' = lPhase
                    \/ lBalance' <= mll /\ lPhase = "eval" /\ lPhase' = "breached_eval"
                    \/ lBalance' <= mll /\ lPhase = "funded" /\ lPhase' = "breached_funded"
<1> USE LucidAssumption, LucidBoundsAssumption
<1>1. t \in Int /\ lPhase \in {"eval", "funded"}
  BY DEF Lucid!Update, Lucid!Active
<1>2. CASE Lucid!Passes(t) /\ Lucid!StartOver("funded")
  BY <1>1, <1>2 DEF Lucid!Update, Lucid!Passes, Lucid!StartOver, TwinTypes, Lucid!InitialMll
<1>3. CASE ~Lucid!Passes(t) /\ Lucid!ApplyTrade(t)
  <2>1. /\ lBalance' = lBalance + t /\ lDay' = lDay + t
        /\ UNCHANGED <<mll, lBest, profDays, lCycleStart, lPayouts>>
    BY <1>3 DEF Lucid!ApplyTrade, Lucid!Update
  <2>2. TwinTypes'
    BY <1>1, <2>1 DEF TwinTypes
  <2>3. lPhase' = IF lBalance' > mll THEN lPhase
                  ELSE IF lPhase = "eval" THEN "breached_eval" ELSE "breached_funded"
    BY <1>3 DEF Lucid!ApplyTrade
  <2>4. lBalance' > mll \/ lBalance' <= mll
    BY <2>2 DEF TwinTypes
  <2> QED BY <1>1, <1>3, <2>2, <2>3, <2>4
<1> QED BY <1>2, <1>3 DEF Lucid!Update

\* What a close does to it.
LEMMA TwinClose ==
    ASSUME TwinTypes, Lucid!CloseDay
    PROVE  /\ TwinTypes' /\ lPhase \in {"eval", "funded"} /\ lDay' = 0
           /\ \/ lPhase' = lPhase
              \/ lPhase = "eval" /\ lPhase' = "funded"
<1> USE LucidAssumption, LucidBoundsAssumption
<1>1. LucidTrail(lBalance, mll) \in Int /\ Higher(lBest, lDay) \in Nat
  BY TwinAmounts DEF TwinTypes
<1>2. CASE Lucid!CloseFundedDay
  BY <1>1, <1>2, SameRules DEF Lucid!CloseFundedDay, TwinTypes, Lucid!Lower, Lower
<1>3. CASE Lucid!CloseEvalDay
  <2>1. CASE Lucid!StartOver("funded")
    BY <1>3, <2>1 DEF Lucid!CloseEvalDay, Lucid!StartOver, TwinTypes, Lucid!InitialMll
  <2>2. CASE ~Lucid!StartOver("funded")
    BY <1>1, <1>3, <2>2, SameRules DEF Lucid!CloseEvalDay, TwinTypes
  <2> QED BY <2>1, <2>2
<1> QED BY <1>2, <1>3 DEF Lucid!CloseDay

\* What a payout does to it.
LEMMA TwinPayout ==
    ASSUME TwinTypes, Lucid!RequestPayout
    PROVE  /\ TwinTypes' /\ lPhase = "funded" /\ lDay' = 0
           /\ lPhase' \in FundedPhases
<1> USE LucidAssumption, LucidBoundsAssumption
<1>1. LucidRequest(lBalance - LucidStart) \in Int
  BY TwinAmounts DEF TwinTypes
<1>2. lBalance' = lBalance - LucidRequest(lBalance - LucidStart)
  BY SameRules DEF Lucid!RequestPayout, Lucid!Request
<1>3. /\ lBalance' \in Int /\ mll' \in Int /\ lDay' = 0 /\ lBest' = lBest
      /\ profDays' = 0 /\ lCycleStart' = lBalance' /\ lPayouts' = lPayouts + 1
  BY <1>1, <1>2 DEF Lucid!RequestPayout, TwinTypes
<1>4. lPhase = "funded" /\ lPhase' \in FundedPhases
  BY DEF Lucid!RequestPayout, Lucid!PayoutEligible, FundedPhases
<1> QED BY <1>3, <1>4 DEF TwinTypes

\* What a reset does to it.
LEMMA TwinReset ==
    ASSUME TwinTypes, Lucid!AttemptReset
    PROVE  TwinTypes'
BY LucidAssumption DEF Lucid!AttemptReset, Lucid!StartOver, TwinTypes, Lucid!InitialMll

\* The account is left alone.
LEMMA TwinRests ==
    ASSUME TwinTypes, UNCHANGED Lucid!account
    PROVE  TwinTypes' /\ UNCHANGED lucidVars
BY DEF Lucid!account, Lucid!vars, TwinTypes, lucidVars

\* Whatever happens to a funded account is a step of LucidFunded.
LEMMA FundedTwin ==
    ASSUME TwinTypes, lPhase = "funded",
           \/ \E t \in LucidTrades : Lucid!Update(t)
           \/ Lucid!CloseDay
           \/ Lucid!RequestPayout /\ lDay = 0
    PROVE  Twin!Next
<1> USE DEF TwinTypes
<1>1. CASE \E t \in LucidTrades : Lucid!Update(t)
  <2>1. PICK t \in LucidTrades : Lucid!Update(t)
    BY <1>1
  <2>2. ~Lucid!Passes(t)
    BY DEF Lucid!Passes
  <2>3. Lucid!ApplyTrade(t) /\ lBalance + t - LucidStart <= LucidMaxProfit
        /\ lPayouts' = lPayouts
    BY <2>1, <2>2 DEF Lucid!Update
  <2>4. lPhase' = "breached_funded" <=> lBalance' <= mll
    BY <2>1, TwinUpdate
  <2>5. Twin!ApplyTrade(t)
    BY <2>3, <2>4 DEF Twin!ApplyTrade, Lucid!ApplyTrade
  <2> QED BY <2>5 DEF Twin!Next
<1>2. CASE Lucid!CloseDay
  <2>1. Lucid!CloseFundedDay
    BY <1>2 DEF Lucid!CloseDay, Lucid!CloseEvalDay
  <2>2. Twin!CloseDay
    BY <2>1 DEF Lucid!CloseFundedDay, Twin!CloseDay, Lucid!LucidTrail, Twin!LucidTrail,
                Lucid!Higher, Twin!Higher, Lucid!Lower, Twin!Lower
  <2> QED BY <2>2 DEF Twin!Next
<1>3. CASE Lucid!RequestPayout /\ lDay = 0
  <2>1. lPayouts < MaxSimPayouts /\ profDays >= ProfitDays /\ lBalance > lCycleStart
        /\ Lucid!Request > 0
    BY <1>3 DEF Lucid!RequestPayout, Lucid!PayoutEligible
  <2>2. PICK r : r = LucidRequest(lBalance - LucidStart)
    OBVIOUS
  <2>3. Lucid!Request = r
    BY <2>2, SameRules DEF Lucid!Request
  <2>4. Twin!LucidRequest(lBalance - LucidStart) = r
    BY <2>2 DEF Twin!LucidRequest, LucidRequest, Twin!Lower, Lower
  <2>5. ~(lPayouts >= MaxSimPayouts) /\ ~(profDays < ProfitDays) /\ ~(lBalance <= lCycleStart)
    BY <2>1, LucidAssumption
  <2>6. Twin!EligibleRequest = r
    BY <2>5, <2>4 DEF Twin!EligibleRequest
  <2>7. lBalance' = lBalance - r /\ lPayouts' = lPayouts + 1 /\ lDay' = 0 /\ profDays' = 0
        /\ lCycleStart' = lBalance' /\ mll' = LockedMll
    BY <1>3, <2>3 DEF Lucid!RequestPayout
  <2>8. lPhase' = "breached_funded" <=> lBalance' <= mll'
    BY <1>3 DEF Lucid!RequestPayout
  <2>9. Twin!RequestPayout
    BY <1>3, <2>1, <2>3, <2>6, <2>7, <2>8 DEF Twin!RequestPayout
  <2> QED BY <2>9 DEF Twin!Next
<1> QED BY <1>1, <1>2, <1>3

\* What a driver may do to a funded account.
FundedStep == lPhase = "funded" => Twin!Next \/ UNCHANGED lucidVars

\* Where a driver goes.
LEMMA TwinGoes ==
    ASSUME NEW step, NEW flags, Lucid!Goto(step, flags)
    PROVE  at' = step /\ driver' = driver /\ result' = result \union flags
BY DEF Lucid!Goto

\* ... and where it is after a trade.
LEMMA TwinNextTrade ==
    ASSUME Lucid!NextTrade
    PROVE  at' \in {"trades", "close"} /\ driver' = driver /\ result' = result
BY DEF Lucid!NextTrade

\* A step of a driver that keeps what is said of it.
TwinKept == TwinTypes' /\ TwinDriver' /\ FundedStep

\* A trade of a driver, whichever: it is passed when the account is funded.
LEMMA TwinTrade ==
    ASSUME TwinTypes, TwinDriver, driver # "hand", driver' = driver,
           NEW t \in LucidTrades, Lucid!Update(t),
           at' \in {"day", "trades", "close", "done"},
           Passed' <=> (Passed \/ lPhase' = "funded")
    PROVE  TwinKept
<1>1. TwinTypes' /\ lPhase \in {"eval", "funded"}
      /\ lPhase' \in {"eval", "funded", "breached_eval", "breached_funded"}
      /\ (lPhase = "eval" => lPhase' \in {"eval", "funded", "breached_eval"})
      /\ (lPhase = "funded" => lPhase' \in {"funded", "breached_funded"})
  <2>1. \/ lPhase = "eval" /\ lPhase' = "funded"
        \/ lPhase' = lPhase
        \/ lPhase = "eval" /\ lPhase' = "breached_eval"
        \/ lPhase = "funded" /\ lPhase' = "breached_funded"
    BY TwinUpdate
  <2> QED BY <2>1, TwinUpdate
<1>2. Passed <=> lPhase \in FundedPhases
  BY DEF TwinDriver
<1>3. Passed' <=> lPhase' \in FundedPhases
  BY <1>1, <1>2 DEF FundedPhases
<1>4. TwinDriver'
  BY <1>3 DEF TwinDriver
<1>5. FundedStep
  BY FundedTwin DEF FundedStep
<1> QED BY <1>1, <1>4, <1>5 DEF TwinKept

\* A close of a driver.
LEMMA TwinCloses ==
    ASSUME TwinTypes, TwinDriver, driver # "hand", driver' = driver,
           Lucid!CloseDay, at' = "day" \/ (at' = "payout" /\ Passed),
           Passed' <=> (Passed \/ lPhase' = "funded")
    PROVE  TwinKept
<1>1. /\ TwinTypes' /\ lPhase \in {"eval", "funded"} /\ lDay' = 0
      /\ lPhase' \in {"eval", "funded"} /\ (lPhase = "funded" => lPhase' = "funded")
  BY TwinClose
<1>2. Passed <=> lPhase \in FundedPhases
  BY DEF TwinDriver
<1>3. Passed' <=> lPhase' \in FundedPhases
  BY <1>1, <1>2 DEF FundedPhases
<1>4. TwinDriver'
  BY <1>1, <1>3 DEF TwinDriver
<1>5. FundedStep
  BY FundedTwin DEF FundedStep
<1> QED BY <1>1, <1>4, <1>5 DEF TwinKept

\* A payout of a driver.
LEMMA TwinPays ==
    ASSUME TwinTypes, TwinDriver, driver # "hand", driver' = driver,
           Lucid!RequestPayout, at = "payout", at' \in {"day", "done"},
           Passed' <=> Passed
    PROVE  TwinKept
<1>1. TwinTypes' /\ lPhase = "funded" /\ lPhase' \in FundedPhases
  BY TwinPayout
<1>2. lDay = 0 /\ (Passed <=> lPhase \in FundedPhases)
  BY DEF TwinDriver
<1>3. Passed'
  BY <1>1, <1>2 DEF FundedPhases
<1>4. TwinDriver'
  BY <1>1, <1>3 DEF TwinDriver
<1>5. FundedStep
  BY <1>2, FundedTwin DEF FundedStep
<1> QED BY <1>1, <1>4, <1>5 DEF TwinKept

\* A step of a driver that leaves the account alone.
LEMMA TwinWaits ==
    ASSUME TwinTypes, TwinDriver, driver # "hand", driver' = driver,
           UNCHANGED Lucid!account, at' \in {"day", "trades", "close", "done"},
           Passed' <=> Passed
    PROVE  TwinKept
<1>1. TwinTypes' /\ UNCHANGED lucidVars
  BY TwinRests
<1>2. lPhase' = lPhase
  BY <1>1 DEF lucidVars
<1>3. TwinDriver'
  BY <1>2 DEF TwinDriver
<1> QED BY <1>1, <1>3 DEF TwinKept, FundedStep

-----------------------------------------------------------------------------
\* The replay.
LEMMA TwinReplay ==
    ASSUME TwinTypes, TwinDriver, Lucid!ReplayNext
    PROVE  TwinKept /\ driver = "replay" /\ driver' = driver
<1> USE DEF Lucid!Replay, Lucid!Passed, Passed
<1>1. CASE Lucid!ReplayDay
  <2>1. driver = "replay" /\ driver' = driver /\ at' = "trades" /\ result' = result
        /\ UNCHANGED Lucid!account
    BY <1>1 DEF Lucid!ReplayDay, Lucid!BeginEvalDay, Lucid!BeginFundedDay
  <2> QED BY <2>1, TwinWaits
<1>2. CASE Lucid!ReplayEnds
  <2>1. PICK flags : Lucid!Goto("done", flags) /\ "passed" \notin flags
    <3>1. PICK flags : /\ Lucid!Goto("done", flags)
                       /\ flags = IF ~Passed THEN {"eval_timeout"}
                                  ELSE IF lPhase = "funded" THEN {"funded_timeout"}
                                  ELSE IF lPhase = "max_payouts" THEN {"capped"}
                                  ELSE Lucid!Breach
      BY <1>2 DEF Lucid!ReplayEnds
    <3>2. "passed" \notin flags
      BY <3>1 DEF Lucid!Breach
    <3> QED BY <3>1, <3>2
  <2>2. driver = "replay" /\ driver' = driver /\ at' = "done" /\ UNCHANGED Lucid!account
        /\ result' = result \union flags
    BY <1>2, <2>1, TwinGoes DEF Lucid!ReplayEnds
  <2> QED BY <2>1, <2>2, TwinWaits
<1>3. CASE Lucid!ReplayNoMoreTrades
  <2>1. driver = "replay" /\ driver' = driver /\ at' = "close" /\ UNCHANGED Lucid!account
        /\ result' = result
    BY <1>3, TwinGoes DEF Lucid!ReplayNoMoreTrades
  <2> QED BY <2>1, TwinWaits
<1>4. CASE Lucid!ReplayEvalTrade
  <2>1. PICK t \in LucidTrades : Lucid!Update(t)
    BY <1>4 DEF Lucid!ReplayEvalTrade
  <2>2. \/ lPhase' = "breached_eval" /\ Lucid!Goto("done", {"eval_breach"})
        \/ lPhase' = "funded" /\ Lucid!Goto("day", {"passed"})
        \/ lPhase' # "funded" /\ Lucid!NextTrade
    BY <1>4 DEF Lucid!ReplayEvalTrade
  <2>3. driver' = driver /\ at' \in {"day", "trades", "close", "done"}
        /\ (Passed' <=> (Passed \/ lPhase' = "funded"))
    BY <2>2, TwinGoes, TwinNextTrade
  <2> QED BY <1>4, <2>1, <2>3, TwinTrade DEF Lucid!ReplayEvalTrade
<1>5. CASE Lucid!ReplayEvalClose
  <2>1. driver' = driver /\ at' = "day" /\ (Passed' <=> (Passed \/ lPhase' = "funded"))
    BY <1>5, TwinGoes DEF Lucid!ReplayEvalClose
  <2> QED BY <1>5, <2>1, TwinCloses DEF Lucid!ReplayEvalClose
<1>6. CASE Lucid!ReplayFundedTrade
  <2>1. PICK t \in LucidTrades : Lucid!Update(t)
    BY <1>6 DEF Lucid!ReplayFundedTrade
  <2>2. driver' = driver /\ at' \in {"day", "trades", "close", "done"} /\ (Passed' <=> Passed)
    BY <1>6, TwinGoes, TwinNextTrade DEF Lucid!ReplayFundedTrade
  <2>3. Passed
    BY <1>6 DEF TwinDriver, Lucid!ReplayFundedTrade, FundedPhases
  <2> QED BY <1>6, <2>1, <2>2, <2>3, TwinTrade DEF Lucid!ReplayFundedTrade
<1>7. CASE Lucid!ReplayFundedClose
  <2>1. driver' = driver /\ at' = "payout" /\ (Passed' <=> Passed) /\ lPhase = "funded"
    BY <1>7, TwinGoes DEF Lucid!ReplayFundedClose
  <2>2. Passed
    BY <1>7, <2>1 DEF TwinDriver, Lucid!ReplayFundedClose, FundedPhases
  <2> QED BY <1>7, <2>1, <2>2, TwinCloses DEF Lucid!ReplayFundedClose
<1>8. CASE Lucid!ReplayRefused
  <2>1. driver = "replay" /\ driver' = driver /\ at' = "day" /\ UNCHANGED Lucid!account
        /\ result' = result
    BY <1>8, TwinGoes DEF Lucid!ReplayRefused
  <2> QED BY <2>1, TwinWaits
<1>9. CASE Lucid!ReplayPayout
  <2>1. driver' = driver /\ at' \in {"day", "done"} /\ (Passed' <=> Passed)
    BY <1>9, TwinGoes DEF Lucid!ReplayPayout
  <2> QED BY <1>9, <2>1, TwinPays DEF Lucid!ReplayPayout
<1>10. driver = "replay" /\ driver' = driver
  <2>1. driver = "replay"
    BY DEF Lucid!ReplayNext, Lucid!ReplayDay, Lucid!ReplayEnds, Lucid!ReplayNoMoreTrades,
           Lucid!ReplayEvalTrade, Lucid!ReplayEvalClose, Lucid!ReplayFundedTrade,
           Lucid!ReplayFundedClose, Lucid!ReplayRefused, Lucid!ReplayPayout
  <2>2. driver' = driver
    BY TwinGoes, TwinNextTrade
       DEF Lucid!ReplayNext, Lucid!ReplayDay, Lucid!ReplayEnds, Lucid!ReplayNoMoreTrades,
           Lucid!ReplayEvalTrade, Lucid!ReplayEvalClose, Lucid!ReplayFundedTrade,
           Lucid!ReplayFundedClose, Lucid!ReplayRefused, Lucid!ReplayPayout,
           Lucid!BeginEvalDay, Lucid!BeginFundedDay
  <2> QED BY <2>1, <2>2
<1> QED
  BY <1>1, <1>2, <1>3, <1>4, <1>5, <1>6, <1>7, <1>8, <1>9, <1>10 DEF Lucid!ReplayNext

\* The funded half of the pipeline.
LEMMA TwinFunded ==
    ASSUME TwinTypes, TwinDriver, Lucid!PipelineFunded
    PROVE  TwinKept /\ driver = "pipeline" /\ driver' = driver /\ Passed'
<1> USE DEF Lucid!Pipeline, Lucid!Passed, Passed
<1>1. CASE Lucid!PipelineFundedDay
  <2>1. driver = "pipeline" /\ UNCHANGED Lucid!account /\ Passed
    BY <1>1 DEF Lucid!PipelineFundedDay
  <2>2. CASE Lucid!BeginFundedDay
    <3>1. driver' = driver /\ at' = "trades" /\ result' = result
      BY <2>2 DEF Lucid!BeginFundedDay
    <3> QED BY <2>1, <3>1, TwinWaits
  <2>3. CASE Lucid!Goto("done", {"funded_timeout"} \union Lucid!Breach)
    <3>1. driver' = driver /\ at' = "done" /\ Passed'
      BY <2>1, <2>3, TwinGoes
    <3> QED BY <2>1, <3>1, TwinWaits
  <2> QED BY <1>1, <2>2, <2>3 DEF Lucid!PipelineFundedDay
<1>2. CASE Lucid!PipelineFundedTrade
  <2>1. PICK t \in LucidTrades : Lucid!Update(t)
    BY <1>2 DEF Lucid!PipelineFundedTrade
  <2>2. driver = "pipeline" /\ Passed
    BY <1>2 DEF Lucid!PipelineFundedTrade
  <2>3. driver' = driver /\ at' \in {"day", "trades", "close", "done"} /\ Passed'
    BY <1>2, <2>2, TwinGoes, TwinNextTrade DEF Lucid!PipelineFundedTrade
  <2> QED BY <2>1, <2>2, <2>3, TwinTrade
<1>3. CASE Lucid!PipelineFundedClose
  <2>1. driver = "pipeline" /\ Passed /\ Lucid!CloseDay
    BY <1>3 DEF Lucid!PipelineFundedClose
  <2>2. driver' = driver /\ at' = "payout" /\ Passed'
    BY <1>3, <2>1, TwinGoes DEF Lucid!PipelineFundedClose
  <2> QED BY <2>1, <2>2, TwinCloses
<1>4. CASE Lucid!PipelineRefused
  <2>1. driver = "pipeline" /\ driver' = driver /\ at' = "day" /\ UNCHANGED Lucid!account
        /\ result' = result /\ at = "payout"
    BY <1>4, TwinGoes DEF Lucid!PipelineRefused
  <2>2. TwinKept
    BY <2>1, TwinWaits
  <2>3. Passed
    BY <2>1 DEF TwinDriver
  <2> QED BY <2>1, <2>2, <2>3
<1>5. CASE Lucid!PipelinePayout
  <2>1. driver = "pipeline" /\ at = "payout" /\ Lucid!RequestPayout
    BY <1>5 DEF Lucid!PipelinePayout
  <2>2. driver' = driver /\ at' \in {"day", "done"} /\ (Passed' <=> Passed)
    BY <1>5, TwinGoes DEF Lucid!PipelinePayout
  <2>3. Passed
    BY <2>1, TwinPayout DEF TwinDriver, FundedPhases
  <2> QED BY <2>1, <2>2, <2>3, TwinPays
<1> QED BY <1>1, <1>2, <1>3, <1>4, <1>5 DEF Lucid!PipelineFunded

\* The evaluation of the pipeline, trade by trade beside the simulation.
LEMMA SimStarts ==
    ASSUME TwinParts, driver = "pipeline", ~Passed, at # "done"
    PROVE  /\ InStep /\ simResult = "running"
           /\ "eval_breach" \notin result /\ "eval_timeout" \notin result
           /\ ~Lucid!EvalCanPass(lBalance, lBest, lDay)
BY DEF TwinParts, TwinSim, Unended, SameEnd

\* The simulation's chance to pass is the account's.
LEMMA ChanceOf ==
    ASSUME NEW b, NEW d, b - simOpen = d, simBest = lBest
    PROVE  SimCanPass(b) <=> Lucid!EvalCanPass(b, lBest, d)
<1>1. SimCanPass(b) <=> LucidConsistencyOk(Higher(simBest, b - simOpen), b - LucidStart)
  BY DEF SimCanPass
<1>2. Lucid!EvalCanPass(b, lBest, d)
        <=> Lucid!LucidConsistencyOk(Lucid!Higher(lBest, d), b - LucidStart)
  BY DEF Lucid!EvalCanPass
<1>3. Higher(simBest, b - simOpen) = Lucid!Higher(lBest, d)
  BY SameRules
<1>4. \A h, p : LucidConsistencyOk(h, p) <=> Lucid!LucidConsistencyOk(h, p)
  BY SameRules
<1> QED BY <1>1, <1>2, <1>3, <1>4

\* ... on the balance that a trade would make.
LEMMA SameChance ==
    ASSUME TwinTypes, InStep, NEW t \in Int
    PROVE  SimCanPass(lBalance + t) <=> Lucid!EvalCanPass(lBalance + t, lBest, lDay + t)
<1>1. simBest = lBest
  BY DEF InStep
<1>2. ASSUME NEW b, NEW d, b = lBalance + t, d = lDay + t
      PROVE  SimCanPass(lBalance + t) <=> Lucid!EvalCanPass(lBalance + t, lBest, lDay + t)
  <2>1. b - simOpen = d
    BY <1>2 DEF InStep, TwinTypes
  <2>2. SimCanPass(b) <=> Lucid!EvalCanPass(b, lBest, d)
    BY <1>1, <2>1, ChanceOf
  <2> QED BY ONLY <2>2, b = lBalance + t, d = lDay + t
<1> QED BY ONLY <1>2

\* A trade of both.
LEMMA TwinEvalTrade ==
    ASSUME TwinParts, NEW t \in LucidTrades,
           Lucid!PipelineEvalTrade(t), simResult = "running" => SimTrade(t)
    PROVE  TwinParts' /\ FundedStep /\ driver' = driver
<1> USE DEF Lucid!Pipeline, Lucid!Passed, Passed
<1>1. driver = "pipeline" /\ at = "trades" /\ ~Passed /\ Lucid!Update(t)
  BY DEF Lucid!PipelineEvalTrade
<1>2. InStep /\ simResult = "running" /\ "eval_breach" \notin result /\ "eval_timeout" \notin result
  BY <1>1, SimStarts
<1>3. TwinTypes /\ TwinDriver /\ SimTrade(t) /\ t \in Int
  BY <1>2, LucidBoundsAssumption DEF TwinParts
<1>4. lPhase = "eval"
  BY <1>1, <1>3, TwinUpdate DEF TwinDriver, FundedPhases
<1>5. \/ lPhase' = "breached_eval" /\ Lucid!Goto("done", {"eval_breach"})
      \/ lPhase' = "funded" /\ Lucid!Goto("day", {"passed"})
      \/ lPhase' # "funded" /\ lPhase' # "breached_eval" /\ Lucid!NextTrade
  BY DEF Lucid!PipelineEvalTrade
<1>6. driver' = driver /\ at' \in {"day", "trades", "close", "done"}
      /\ (Passed' <=> (Passed \/ lPhase' = "funded"))
  BY <1>5, TwinGoes, TwinNextTrade
<1>7. TwinKept
  BY <1>1, <1>3, <1>6, TwinTrade
<1>8. Lucid!Passes(t) <=> ~(lBalance + t <= mll) /\ SimCanPass(lBalance + t)
  <2>1. SimCanPass(lBalance + t) <=> Lucid!EvalCanPass(lBalance + t, lBest, lDay + t)
    BY <1>2, <1>3, SameChance
  <2>2. lBalance + t > mll <=> ~(lBalance + t <= mll)
    BY <1>3 DEF TwinTypes
  <2> QED BY <1>4, <2>1, <2>2 DEF Lucid!Passes
<1>9. simBalance + t = lBalance + t /\ simMll = mll
  BY <1>2 DEF InStep
<1>10. CASE Lucid!Passes(t)
  <2>1. lPhase' = "funded"
    BY <1>10, <1>1, <1>3, TwinUpdate
  <2>2. simResult' = "passed"
    BY <1>8, <1>9, <1>10, <1>3 DEF SimTrade
  <2>3. TwinSim'
    BY <1>6, <2>1, <2>2 DEF TwinSim
  <2> QED BY <1>6, <1>7, <2>3 DEF TwinKept, TwinParts
<1>11. CASE ~Lucid!Passes(t)
  <2>1. /\ Lucid!ApplyTrade(t)
        /\ \/ lBalance' > mll /\ lPhase' = "eval"
           \/ lBalance' <= mll /\ lPhase' = "breached_eval"
    BY <1>1, <1>3, <1>4, <1>11, TwinUpdate
  <2>2. lBalance' = lBalance + t /\ lDay' = lDay + t /\ mll' = mll /\ lBest' = lBest
    BY <2>1 DEF Lucid!ApplyTrade
  <2>3. simBalance' = lBalance + t /\ simMll' = simMll /\ simOpen' = simOpen /\ simBest' = simBest
    BY <1>3, <1>8, <1>9, <1>11 DEF SimTrade
  <2>10. /\ lBalance + t <= mll => simResult' = "breached"
         /\ ~(lBalance + t <= mll) => simResult' = "running"
    BY <1>3, <1>8, <1>9, <1>11 DEF SimTrade
  <2>4. InStep'
    BY <1>2, <1>3, <2>2, <2>3 DEF InStep, TwinTypes
  <2>5. ~Passed'
    BY <1>1, <1>6, <2>1
  <2>6. ASSUME lBalance' <= mll PROVE SameEnd' /\ Unended'
    <3>1. lPhase' = "breached_eval"
      BY <2>1, <2>6, <1>3, <1>7 DEF TwinKept, TwinTypes
    <3>2. Lucid!Goto("done", {"eval_breach"})
      BY <3>1, <1>5
    <3>3. at' = "done" /\ result' = result \union {"eval_breach"}
      BY <3>2, TwinGoes
    <3>4. simResult' = "breached"
      BY <2>2, <2>10, <2>6
    <3> QED BY <1>2, <3>3, <3>4 DEF SameEnd, Unended
  <2>7. ASSUME ~(lBalance' <= mll) PROVE SameEnd' /\ Unended'
    <3>1. lPhase' = "eval"
      BY <2>1, <2>7
    <3>2. at' \in {"trades", "close"} /\ result' = result
      BY <3>1, <1>5, TwinNextTrade
    <3>3. simResult' = "running"
      BY <2>2, <2>10, <2>7
    <3>4. ~Lucid!EvalCanPass(lBalance + t, lBest, lDay + t)
      BY <1>2, <1>3, <1>8, <1>11, <2>2, <2>7, SameChance
    <3>5. Unended'
      BY <2>2, <3>4 DEF Unended, Lucid!EvalCanPass
    <3> QED BY <1>2, <3>2, <3>3, <3>5 DEF SameEnd
  <2>8. SameEnd' /\ Unended'
    BY <2>6, <2>7
  <2>9. TwinSim'
    BY <2>4, <2>5, <2>8 DEF TwinSim
  <2> QED BY <1>6, <1>7, <2>9 DEF TwinKept, TwinParts
<1> QED BY <1>10, <1>11

\* A chance at the close is the chance after the day's last trade.
LEMMA ChanceAtClose ==
    ASSUME TwinTypes
    PROVE  Lucid!EvalCanPass(lBalance, Higher(lBest, lDay), 0)
             <=> Lucid!EvalCanPass(lBalance, lBest, lDay)
<1>1. Higher(Higher(lBest, lDay), 0) = Higher(lBest, lDay)
  BY TwinAmounts DEF TwinTypes
<1>2. Lucid!Higher(Higher(lBest, lDay), 0) = Lucid!Higher(lBest, lDay)
  BY <1>1, SameRules
<1> QED BY <1>2 DEF Lucid!EvalCanPass

\* A close of both: nobody passes at it.
LEMMA TwinEvalClose ==
    ASSUME TwinParts, Lucid!PipelineEvalClose, simResult = "running" => SimClose
    PROVE  TwinParts' /\ FundedStep /\ driver' = driver
<1> USE DEF Lucid!Pipeline, Lucid!Passed, Passed
<1>1. driver = "pipeline" /\ at = "close" /\ ~Passed /\ Lucid!CloseDay
  BY DEF Lucid!PipelineEvalClose
<1>2. InStep /\ simResult = "running" /\ "eval_breach" \notin result /\ "eval_timeout" \notin result
  BY <1>1, SimStarts
<1>3. TwinTypes /\ TwinDriver /\ SimClose
  BY <1>2 DEF TwinParts
<1>4. lPhase = "eval"
  BY <1>1, <1>3, TwinClose DEF TwinDriver, FundedPhases
<1>5. Lucid!CloseEvalDay
  BY <1>1, <1>4 DEF Lucid!CloseDay, Lucid!CloseFundedDay
<1>6. ~Lucid!EvalCanPass(lBalance, Higher(lBest, lDay), 0)
  <2>1. ~Lucid!EvalCanPass(lBalance, lBest, lDay)
    BY <1>1, SimStarts
  <2> QED BY <1>3, <2>1, ChanceAtClose
<1>7. /\ mll' = LucidTrail(lBalance, mll) /\ lDay' = 0 /\ lBest' = Higher(lBest, lDay)
      /\ lPhase' = lPhase /\ lBalance' = lBalance
  <2>1. Lucid!Higher(lBest, lDay) = Higher(lBest, lDay)
        /\ Lucid!LucidTrail(lBalance, mll) = LucidTrail(lBalance, mll)
    BY SameRules
  <2> QED BY <1>5, <1>6, <2>1 DEF Lucid!CloseEvalDay
<1>8. Lucid!Goto("day", {})
  BY <1>4, <1>7 DEF Lucid!PipelineEvalClose
<1>9. driver' = driver /\ at' = "day" /\ result' = result
  BY <1>8, TwinGoes
<1>10. TwinKept
  BY <1>1, <1>3, <1>4, <1>7, <1>9, TwinCloses
<1>11. InStep'
  <2>1. simBalance - simOpen = lDay /\ simBalance = lBalance /\ simMll = mll /\ simBest = lBest
    BY <1>2, <1>3 DEF InStep, TwinTypes
  <2>2. simBalance' = lBalance /\ simMll' = LucidTrail(lBalance, mll)
        /\ simBest' = Higher(lBest, lDay) /\ simOpen' = lBalance
    BY <1>3, <2>1 DEF SimClose
  <2> QED BY <1>3, <1>7, <2>2 DEF InStep, TwinTypes
<1>12. Unended'
  BY <1>6, <1>7 DEF Unended, Lucid!EvalCanPass
<1>13. SameEnd'
  BY <1>2, <1>3, <1>9 DEF SameEnd, SimClose
<1>14. TwinSim'
  BY <1>1, <1>9, <1>11, <1>12, <1>13 DEF TwinSim
<1> QED BY <1>9, <1>10, <1>14 DEF TwinKept, TwinParts

\* A day begins, or the days are over.
LEMMA TwinEvalDay ==
    ASSUME TwinParts, Lucid!PipelineEvalDay,
           simResult = "running" => IF at' = "done" THEN SimTimeout ELSE UNCHANGED simVars
    PROVE  TwinParts' /\ FundedStep /\ driver' = driver
<1> USE DEF Lucid!Pipeline, Lucid!Passed, Passed
<1>1. driver = "pipeline" /\ at = "day" /\ ~Passed /\ UNCHANGED Lucid!account
  BY DEF Lucid!PipelineEvalDay
<1>2. InStep /\ simResult = "running" /\ "eval_breach" \notin result /\ "eval_timeout" \notin result
  BY <1>1, SimStarts
<1>3. TwinTypes /\ TwinDriver /\ (IF at' = "done" THEN SimTimeout ELSE UNCHANGED simVars)
  BY <1>2 DEF TwinParts
<1>4. UNCHANGED lucidVars
  BY <1>1, <1>3, TwinRests
<1>5. InStep' /\ Unended'
  <2>1. simBalance' = simBalance /\ simMll' = simMll /\ simOpen' = simOpen /\ simBest' = simBest
    BY <1>3 DEF SimTimeout, simVars
  <2>2. lBalance' = lBalance /\ mll' = mll /\ lDay' = lDay /\ lBest' = lBest
    BY <1>4 DEF lucidVars
  <2>3. InStep'
    BY <1>2, <2>1, <2>2 DEF InStep
  <2>4. ~Lucid!EvalCanPass(lBalance, lBest, lDay)
    BY <1>1, SimStarts
  <2>5. Unended'
    BY <2>2, <2>4 DEF Unended, Lucid!EvalCanPass
  <2> QED BY <2>3, <2>5
<1>6. CASE Lucid!BeginEvalDay
  <2>1. driver' = driver /\ at' = "trades" /\ result' = result
    BY <1>6 DEF Lucid!BeginEvalDay
  <2>2. simResult' = simResult
    BY <1>3, <2>1 DEF simVars
  <2>3. SameEnd'
    BY <1>2, <2>1, <2>2 DEF SameEnd
  <2>4. TwinKept
    BY <1>1, <1>3, <2>1, TwinWaits
  <2>5. TwinSim'
    BY <1>1, <1>5, <2>1, <2>3 DEF TwinSim
  <2> QED BY <2>1, <2>4, <2>5 DEF TwinKept, TwinParts
<1>7. CASE Lucid!Goto("done", {"eval_timeout"})
  <2>1. driver' = driver /\ at' = "done" /\ result' = result \union {"eval_timeout"}
    BY <1>7, TwinGoes
  <2>2. simResult' = "timed_out"
    BY <1>3, <2>1 DEF SimTimeout
  <2>3. SameEnd'
    BY <1>2, <2>1, <2>2 DEF SameEnd
  <2>4. TwinKept
    BY <1>1, <1>3, <2>1, TwinWaits
  <2>5. TwinSim'
    BY <1>1, <1>5, <2>1, <2>3 DEF TwinSim
  <2> QED BY <2>1, <2>4, <2>5 DEF TwinKept, TwinParts
<1> QED BY <1>6, <1>7 DEF Lucid!PipelineEvalDay

\* An account used by hand keeps its types.
LEMMA TwinByHand ==
    ASSUME TwinParts, Lucid!ByHand
    PROVE  TwinParts' /\ driver = "hand"
<1>1. at = "hand" /\ Lucid!Next /\ UNCHANGED attempt
  BY DEF Lucid!ByHand, Lucid!attempt, attempt
<1>2. driver = "hand" /\ TwinTypes
  BY <1>1 DEF TwinParts, TwinDriver
<1>3. TwinTypes'
  BY <1>1, <1>2, TwinUpdate, TwinClose, TwinPayout, TwinReset DEF Lucid!Next
<1>4. at' = "hand" /\ driver' = "hand"
  BY <1>1, <1>2 DEF attempt
<1>5. TwinDriver' /\ TwinSim'
  BY <1>4 DEF TwinDriver, TwinSim
<1> QED BY <1>2, <1>3, <1>5 DEF TwinParts

-----------------------------------------------------------------------------
\* A step of the account and its simulation.
LEMMA TwinLucidStep ==
    ASSUME TwinParts, LucidNext
    PROVE  TwinParts' /\ (driver # "hand" => FundedStep)
<1>1. CASE TwinEval
  <2>1. CASE \E t \in LucidTrades : Lucid!PipelineEvalTrade(t) /\ Simulated(SimTrade(t))
    <3>1. PICK t \in LucidTrades : Lucid!PipelineEvalTrade(t) /\ Simulated(SimTrade(t))
      BY <2>1
    <3>2. simResult = "running" => SimTrade(t)
      BY <3>1 DEF Simulated
    <3> QED BY <3>1, <3>2, TwinEvalTrade
  <2>2. CASE Lucid!PipelineEvalClose /\ Simulated(SimClose)
    <3>1. simResult = "running" => SimClose
      BY <2>2 DEF Simulated
    <3> QED BY <2>2, <3>1, TwinEvalClose
  <2>3. CASE /\ Lucid!PipelineEvalDay
             /\ Simulated(IF at' = "done" THEN SimTimeout ELSE UNCHANGED simVars)
    <3>1. simResult = "running" => IF at' = "done" THEN SimTimeout ELSE UNCHANGED simVars
      BY <2>3 DEF Simulated
    <3> QED BY <2>3, <3>1, TwinEvalDay
  <2> QED BY <1>1, <2>1, <2>2, <2>3 DEF TwinEval
<1>2. CASE Lucid!PipelineFunded /\ UNCHANGED simVars
  <2>1. TwinKept /\ driver = "pipeline" /\ driver' = driver /\ Passed'
    BY <1>2, TwinFunded DEF TwinParts
  <2>2. Passed
    BY <1>2, TwinPayout
       DEF Lucid!PipelineFunded, Lucid!PipelineFundedDay, Lucid!PipelineFundedTrade,
           Lucid!PipelineFundedClose, Lucid!PipelineRefused, Lucid!PipelinePayout,
           Lucid!Pipeline, Lucid!Passed, Passed, TwinParts, TwinDriver
  <2>3. simResult' = "passed"
    BY <1>2, <2>1, <2>2 DEF TwinParts, TwinSim, simVars
  <2>4. TwinSim'
    BY <2>1, <2>3 DEF TwinSim
  <2> QED BY <2>1, <2>4 DEF TwinKept, TwinParts
<1>3. CASE Lucid!ReplayNext /\ UNCHANGED simVars
  <2>1. TwinKept /\ driver = "replay" /\ driver' = driver
    BY <1>3, TwinReplay DEF TwinParts
  <2>2. TwinSim'
    BY <2>1 DEF TwinSim
  <2> QED BY <2>1, <2>2 DEF TwinKept, TwinParts
<1>4. CASE Lucid!ByHand
  BY <1>4, TwinByHand
<1> QED BY <1>1, <1>2, <1>3, <1>4 DEF LucidNext

\* An attempt begins with a simulation that sees what its account sees.
LEMMA TwinInitInv == MCInit => TwinInv
<1> SUFFICES ASSUME MCInit, firm = "lucid" PROVE TwinParts
  BY DEF TwinInv
<1> USE LucidAssumption
<1>1. Lucid!AttemptsInit /\ SimInit
  BY DEF MCInit
<1>2. /\ lPhase = "eval" /\ lBalance = LucidStart /\ mll = LucidStart - LucidMaxLoss
      /\ lDay = 0 /\ lBest = 0 /\ profDays = 0 /\ lCycleStart = LucidStart /\ lPayouts = 0
  BY <1>1 DEF Lucid!AttemptsInit, Lucid!Init, Lucid!InitialMll
<1>3. /\ driver \in {"hand", "pipeline", "replay"} /\ result = {}
      /\ driver = "hand" => at = "hand"
      /\ driver # "hand" => at = "day"
  BY <1>1 DEF Lucid!AttemptsInit, Lucid!AttemptInit
<1>4. /\ simBalance = LucidStart /\ simMll = LucidStart - LucidMaxLoss
      /\ simOpen = LucidStart /\ simBest = 0 /\ simResult = "running"
  BY <1>1 DEF SimInit, InitialMll
<1>5. TwinTypes
  BY <1>2 DEF TwinTypes
<1>6. TwinDriver
  BY <1>2, <1>3 DEF TwinDriver, Passed, FundedPhases
<1>7. ~Lucid!EvalCanPass(lBalance, lBest, lDay)
  BY <1>2 DEF Lucid!EvalCanPass, Lucid!LucidConsistencyOk
<1>8. InStep
  BY <1>2, <1>4 DEF InStep
<1>9. SameEnd /\ Unended
  BY <1>3, <1>4, <1>7 DEF SameEnd, Unended
<1>10. TwinSim
  BY <1>8, <1>9, <1>3 DEF TwinSim, Passed
<1> QED BY <1>5, <1>6, <1>10 DEF TwinParts

\* The variables of the composition.
allVars == <<firm, vars, lucidVars, simVars, altVars, attempt, mcVars>>

\* Nothing that the twins read changes.
LEMMA TwinStays ==
    ASSUME TwinInv, UNCHANGED <<firm, lucidVars, simVars, attempt>>
    PROVE  TwinInv'
BY DEF TwinInv, TwinParts, TwinTypes, TwinDriver, TwinSim, InStep, Unended, SameEnd, Passed,
       lucidVars, simVars, attempt, Lucid!EvalCanPass

\* Every step of the composition keeps the invariant, and what a driver does to a funded
\* LucidFlex account is a step of LucidFlexFundedAccount.
LEMMA TwinStep ==
    TwinInv /\ [MCNext]_allVars
      => /\ TwinInv'
         /\ [firm = "lucid" /\ driver # "hand" /\ lPhase = "funded" => Twin!Next]_lucidVars
<1> SUFFICES ASSUME TwinInv, [MCNext]_allVars
             PROVE  /\ TwinInv'
                    /\ \/ firm = "lucid" /\ driver # "hand" /\ lPhase = "funded" => Twin!Next
                       \/ UNCHANGED lucidVars
  OBVIOUS
<1>1. CASE LucidNext
  <2>1. firm = "lucid" /\ firm' = firm
    BY <1>1 DEF LucidNext
  <2>2. TwinParts
    BY <2>1 DEF TwinInv
  <2>3. TwinParts' /\ (driver # "hand" => FundedStep)
    BY <1>1, <2>2, TwinLucidStep
  <2> QED BY <2>1, <2>3 DEF TwinInv, FundedStep
<1>2. CASE firm # "lucid" /\ firm' = firm /\ UNCHANGED lucidVars
  BY <1>2 DEF TwinInv
<1>3. CASE UNCHANGED allVars
  <2>1. UNCHANGED <<firm, lucidVars, simVars, attempt>>
    BY <1>3 DEF allVars
  <2> QED BY <2>1, TwinStays
<1>4. MCNext => LucidNext \/ (firm # "lucid" /\ firm' = firm /\ UNCHANGED lucidVars)
  BY DEF MCNext, ApexNext, AltFirmsNext, SimulationsNext
<1> QED BY <1>1, <1>2, <1>3, <1>4

\* The invariant says that the simulation agrees.
LEMMA TwinSimAgrees == TwinInv => SimAgrees
BY DEF TwinInv, TwinParts, TwinSim, InStep, SameEnd, SimAgrees

\* On every sequence of trades the three implementations of LucidFlex agree: the
\* evaluation that simulate_lucidflex_eval plays has the balance, the MLL and the end of
\* the pipeline's, and every driver's step on a funded account is one that
\* LucidFlexFundedAccount makes.
THEOREM TwinsAlwaysAgree == MCSpec => TwinsAgree
<1>1. MCInit => TwinInv
  BY TwinInitInv
<1>2. TwinInv /\ [MCNext]_allVars
        => /\ TwinInv'
           /\ [firm = "lucid" /\ driver # "hand" /\ lPhase = "funded" => Twin!Next]_lucidVars
  BY TwinStep
<1>3. TwinInv => SimAgrees
  BY TwinSimAgrees
<1> QED
  BY <1>1, <1>2, <1>3, PTL DEF MCSpec, TwinsAgree, FundedAgrees, allVars

-----------------------------------------------------------------------------
(* The composition: in every attempt each firm's account is one of its own   *)
(* specification, whichever firm is played, and has what is proved of it.    *)

\* The theorems of LucidFlex_proofs, about the LucidFlex account of MCFirms.
LucidProofs == INSTANCE LucidFlex_proofs
                 WITH phase <- lPhase, balance <- lBalance, day <- lDay, best <- lBest,
                      cycleStart <- lCycleStart, payouts <- lPayouts, seen <- lSeen

\* The LucidFlex account of MCFirms is the one of LucidFlex_proofs.
LEMMA SameAccount ==
    /\ LucidProofs!Init <=> Lucid!Init
    /\ LucidProofs!Next <=> Lucid!Next
    /\ LucidProofs!vars = lucidVars
BY DEF lucidVars, Lucid!Lower, LucidProofs!Lower, Lucid!Higher, LucidProofs!Higher,
       Lucid!InitialMll, LucidProofs!InitialMll, Lucid!LucidTrail,
       LucidProofs!LucidTrail, Lucid!LucidConsistencyOk,
       LucidProofs!LucidConsistencyOk, Lucid!LucidRequest, LucidProofs!LucidRequest,
       Lucid!vars, LucidProofs!vars, Lucid!Active, LucidProofs!Active, Lucid!Fresh,
       LucidProofs!Fresh, Lucid!OneMore, LucidProofs!OneMore, Lucid!StartOver,
       LucidProofs!StartOver, Lucid!EvalCanPass, LucidProofs!EvalCanPass, Lucid!Passes,
       LucidProofs!Passes, Lucid!ApplyTrade, LucidProofs!ApplyTrade, Lucid!Update,
       LucidProofs!Update, Lucid!CloseEvalDay, LucidProofs!CloseEvalDay,
       Lucid!CloseFundedDay, LucidProofs!CloseFundedDay, Lucid!CloseDay,
       LucidProofs!CloseDay, Lucid!Request, LucidProofs!Request, Lucid!PayoutEligible,
       LucidProofs!PayoutEligible, Lucid!RequestPayout, LucidProofs!RequestPayout,
       Lucid!AttemptReset, LucidProofs!AttemptReset, Lucid!Next, LucidProofs!Next,
       Lucid!Init, LucidProofs!Init

\* ... and so are its drivers.
LEMMA SameDrivers ==
    /\ LucidProofs!AttemptsInit <=> Lucid!AttemptsInit
    /\ LucidProofs!AttemptsNext <=> Lucid!AttemptsNext
BY DEF Lucid!Lower, LucidProofs!Lower, Lucid!Higher, LucidProofs!Higher,
       Lucid!InitialMll, LucidProofs!InitialMll, Lucid!LucidTrail,
       LucidProofs!LucidTrail, Lucid!LucidConsistencyOk,
       LucidProofs!LucidConsistencyOk, Lucid!LucidRequest, LucidProofs!LucidRequest,
       Lucid!vars, LucidProofs!vars, Lucid!Active, LucidProofs!Active, Lucid!Fresh,
       LucidProofs!Fresh, Lucid!OneMore, LucidProofs!OneMore, Lucid!StartOver,
       LucidProofs!StartOver, Lucid!EvalCanPass, LucidProofs!EvalCanPass, Lucid!Passes,
       LucidProofs!Passes, Lucid!ApplyTrade, LucidProofs!ApplyTrade, Lucid!Update,
       LucidProofs!Update, Lucid!CloseEvalDay, LucidProofs!CloseEvalDay,
       Lucid!CloseFundedDay, LucidProofs!CloseFundedDay, Lucid!CloseDay,
       LucidProofs!CloseDay, Lucid!Request, LucidProofs!Request, Lucid!PayoutEligible,
       LucidProofs!PayoutEligible, Lucid!RequestPayout, LucidProofs!RequestPayout,
       Lucid!AttemptReset, LucidProofs!AttemptReset, Lucid!Next, LucidProofs!Next,
       Lucid!Init, LucidProofs!Init, Lucid!account, LucidProofs!account,
       Lucid!Pipeline, LucidProofs!Pipeline, Lucid!Replay, LucidProofs!Replay,
       Lucid!Breach, LucidProofs!Breach, Lucid!Goto, LucidProofs!Goto, Lucid!NextTrade,
       LucidProofs!NextTrade, Lucid!BeginEvalDay, LucidProofs!BeginEvalDay,
       Lucid!BeginFundedDay, LucidProofs!BeginFundedDay, Lucid!Passed,
       LucidProofs!Passed, Lucid!attempt, LucidProofs!attempt, Lucid!PipelineEvalDay,
       LucidProofs!PipelineEvalDay, Lucid!PipelineEvalTrade,
       LucidProofs!PipelineEvalTrade, Lucid!PipelineEvalClose,
       LucidProofs!PipelineEvalClose, Lucid!PipelineFundedDay,
       LucidProofs!PipelineFundedDay, Lucid!PipelineFundedTrade,
       LucidProofs!PipelineFundedTrade, Lucid!PipelineFundedClose,
       LucidProofs!PipelineFundedClose, Lucid!PipelineRefused,
       LucidProofs!PipelineRefused, Lucid!PipelinePayout, LucidProofs!PipelinePayout,
       Lucid!PipelineEval, LucidProofs!PipelineEval, Lucid!PipelineFunded,
       LucidProofs!PipelineFunded, Lucid!ReplayDay, LucidProofs!ReplayDay,
       Lucid!ReplayEnds, LucidProofs!ReplayEnds, Lucid!ReplayNoMoreTrades,
       LucidProofs!ReplayNoMoreTrades, Lucid!ReplayEvalTrade,
       LucidProofs!ReplayEvalTrade, Lucid!ReplayEvalClose, LucidProofs!ReplayEvalClose,
       Lucid!ReplayFundedTrade, LucidProofs!ReplayFundedTrade, Lucid!ReplayFundedClose,
       LucidProofs!ReplayFundedClose, Lucid!ReplayRefused, LucidProofs!ReplayRefused,
       Lucid!ReplayPayout, LucidProofs!ReplayPayout, Lucid!ReplayNext,
       LucidProofs!ReplayNext, Lucid!ByHand, LucidProofs!ByHand, Lucid!AttemptsNext,
       LucidProofs!AttemptsNext, Lucid!AttemptInit, LucidProofs!AttemptInit,
       Lucid!AttemptsInit, LucidProofs!AttemptsInit

\* The pipeline's evaluation is the same beside the simulation.
LEMMA PlaysLucid == TwinEval => Lucid!AttemptsNext
BY DEF TwinEval, Lucid!AttemptsNext, Lucid!PipelineEval

\* A step with LucidFlex is one of the LucidFlex drivers.
LEMMA LucidPlayed == LucidNext => LucidProofs!AttemptsNext
BY SameDrivers, PlaysLucid DEF LucidNext, Lucid!AttemptsNext

\* The Apex account is one of ApexAccount, also while it rests ...
LEMMA UsesApex == MCSpec => Spec
<1>1. MCInit => Init
  BY DEF MCInit, AttemptsInit, ApexRests
<1>2. [MCNext]_allVars => [Next]_vars
  BY AccountStep DEF allVars, MCNext, ApexNext, LucidNext, AltFirmsNext, SimulationsNext
<1> QED BY <1>1, <1>2, PTL DEF MCSpec, Spec, allVars

\* ... the LucidFlex account one of LucidFlexAccount ...
LEMMA UsesLucid == MCSpec => LucidProofs!Spec
<1> USE LucidAssumption, LucidBoundsAssumption, AttemptAssumption
<1>1. MCInit => LucidProofs!Init
  <2>1. MCInit => Lucid!Init
    BY DEF MCInit, Lucid!AttemptsInit, LucidRests
  <2> QED BY <2>1, SameAccount
<1>2. [MCNext]_allVars => [LucidProofs!Next]_(LucidProofs!vars)
  <2>1. LucidNext => [LucidProofs!Next]_(LucidProofs!vars)
    BY LucidPlayed, LucidProofs!AccountStep
  <2>2. UNCHANGED lucidVars => UNCHANGED LucidProofs!vars
    BY SameAccount DEF lucidVars, LucidProofs!vars
  <2>3. ApexNext \/ AltFirmsNext \/ SimulationsNext \/ UNCHANGED allVars => UNCHANGED lucidVars
    BY DEF allVars, ApexNext, AltFirmsNext, SimulationsNext
  <2> QED BY <2>1, <2>2, <2>3 DEF MCNext
<1> QED BY <1>1, <1>2, PTL DEF MCSpec, LucidProofs!Spec, allVars

\* ... and the third one of AltFirms.
LEMMA UsesAlt == MCSpec => AltSpec
<1>1. MCInit => AltInit
  BY DEF MCInit, AltRests
<1>2. [MCNext]_allVars => [AltNext]_altVars
  BY DEF allVars, MCNext, ApexNext, LucidNext, AltFirmsNext, SimulationsNext
<1> QED BY <1>1, <1>2, PTL DEF MCSpec, AltSpec, allVars

\* Whichever firm is played, no driver is paid twice for the same sessions: a payout
\* starts the count of sessions again, in Apex's account and in LucidFlex's.
THEOREM PayoutsAlwaysEarned == MCSpec => PayoutsAreEarned
<1> USE LucidAssumption, LucidBoundsAssumption, AttemptAssumption
<1>1. LucidProofs!Spec => LucidProofs!PayoutIsEarned
  BY LucidProofs!PayoutAlwaysEarned, PTL
<1>2. LucidProofs!PayoutIsEarned => Lucid!PayoutIsEarned
  BY PTL DEF LucidProofs!PayoutIsEarned, Lucid!PayoutIsEarned, LucidProofs!vars, Lucid!vars
<1> QED BY <1>1, <1>2, UsesApex, UsesLucid, PayoutAlwaysEarned, PTL DEF PayoutsAreEarned

\* Whatever a driver does, the LucidFlex evaluation takes two days at least, and a
\* LucidFlex payout breaches nothing although it lifts the MLL to the lock.
THEOREM LucidAlwaysPassesAndPays == MCSpec => LucidPassAndPayouts
<1> USE LucidAssumption, LucidBoundsAssumption, AttemptAssumption
<1>1. LucidProofs!Spec => LucidProofs!PassTakesTwoDays /\ LucidProofs!PayoutKeepsOpen
  BY LucidProofs!PassAlwaysTakesTwoDays, LucidProofs!PayoutNeverBreaches, PTL
<1>2. LucidProofs!PassTakesTwoDays => Lucid!PassTakesTwoDays
  BY PTL DEF LucidProofs!PassTakesTwoDays, Lucid!PassTakesTwoDays, LucidProofs!vars, Lucid!vars
<1>3. LucidProofs!PayoutKeepsOpen => Lucid!PayoutKeepsOpen
  BY PTL DEF LucidProofs!PayoutKeepsOpen, Lucid!PayoutKeepsOpen, LucidProofs!vars, Lucid!vars
<1> QED BY <1>1, <1>2, <1>3, UsesLucid, PTL DEF LucidPassAndPayouts

\* The two instances mean the same trailing account.
LEMMA SameTrailing == LucidProofs!Trails => Lucid!Trails
<1>1. LucidProofs!Trailing!Init <=> Lucid!Trailing!Init
  BY DEF LucidProofs!Trailing!Init, Lucid!Trailing!Init, LucidProofs!Active, Lucid!Active
<1>2. LucidProofs!Trailing!Next <=> Lucid!Trailing!Next
  BY Zenon DEF LucidProofs!Trailing!Next, Lucid!Trailing!Next, LucidProofs!Active, Lucid!Active,
     LucidProofs!Trailing!Trade, Lucid!Trailing!Trade, LucidProofs!Trailing!Pass, Lucid!Trailing!Pass,
     LucidProofs!Trailing!Payout, Lucid!Trailing!Payout, LucidProofs!Trailing!Restart,
     Lucid!Trailing!Restart, LucidProofs!Trailing!Fresh, Lucid!Trailing!Fresh
<1>3. UNCHANGED LucidProofs!Trailing!vars <=> UNCHANGED Lucid!Trailing!vars
  BY Zenon DEF LucidProofs!Trailing!vars, Lucid!Trailing!vars, LucidProofs!Active, Lucid!Active
<1> QED BY <1>1, <1>2, <1>3, PTL DEF LucidProofs!Trails, Lucid!Trails,
     LucidProofs!Trailing!Spec, Lucid!Trailing!Spec

\* The accounts of LucidFlex, Tradeify and MFFU are trailing accounts in every attempt,
\* and the LucidFlex MLL moved step by step is the published one.
THEOREM OthersAlwaysTrail == MCSpec => OthersTrail
<1> USE LucidAssumption, LucidBoundsAssumption, AttemptAssumption
<1>1. LucidProofs!Spec => []LucidProofs!MllTrails /\ LucidProofs!Trails
  BY LucidProofs!MllAlwaysTrails, LucidProofs!ImplementsTrailing, PTL
<1>2. LucidProofs!MllTrails <=> Lucid!MllTrails
  BY DEF LucidProofs!MllTrails, Lucid!MllTrails, LucidProofs!Lower, Lucid!Lower
<1> QED BY <1>1, <1>2, SameTrailing, UsesLucid, UsesAlt, OthersImplementTrailing, PTL DEF
     OthersTrail

\* While Apex is played the composition's contract is that of the Apex drivers ...
LEMMA ApexContract ==
    ASSUME firm = "apex"
    PROVE  /\ Contract!Init => Contracted!Init
           /\ firm' = firm /\ [Contract!Next]_(Contract!vars) => [Contracted!Next]_(Contracted!vars)
<1>1. Contract!Init => Contracted!Init
  BY DEF Contract!Init, Contracted!Init
<1>2. ASSUME firm' = firm, Contract!Next
      PROVE  Contracted!Next
  BY <1>2 DEF Contract!Next, Contracted!Next, Contract!ByHand, Contracted!ByHand,
         Contract!Begin, Contracted!Begin, Contract!Trade, Contracted!Trade,
         Contract!Close, Contracted!Close, Contract!Payout, Contracted!Payout,
         Contract!Reactivate, Contracted!Reactivate, Contract!Finish, Contracted!Finish,
         Contract!Paid, Contracted!Paid, Contract!Verdict, Contracted!Verdict,
         Contract!Reasons, Contracted!Reasons, Contract!Cardinality, Contracted!Cardinality
<1>3. ASSUME firm' = firm, UNCHANGED Contract!vars
      PROVE  UNCHANGED Contracted!vars
  BY <1>3 DEF Contract!vars, Contracted!vars
<1> QED BY <1>1, <1>2, <1>3

\* ... and otherwise that of the LucidFlex drivers.
LEMMA LucidContract ==
    ASSUME firm # "apex"
    PROVE  /\ LucidProofs!Contract!Init => Contracted!Init
           /\ firm' = firm /\ [LucidProofs!Contract!Next]_(LucidProofs!Contract!vars) => [Contracted!Next]_(Contracted!vars)
<1>1. LucidProofs!Contract!Init => Contracted!Init
  BY DEF LucidProofs!Contract!Init, Contracted!Init, LucidProofs!Status, Lucid!Status,
       LucidProofs!Funded, Lucid!Funded, LucidProofs!Active, Lucid!Active
<1>2. ASSUME firm' = firm, LucidProofs!Contract!Next
      PROVE  Contracted!Next
  BY <1>2 DEF LucidProofs!Contract!Next, Contracted!Next, LucidProofs!Contract!ByHand,
         Contracted!ByHand, LucidProofs!Contract!Begin, Contracted!Begin,
         LucidProofs!Contract!Trade, Contracted!Trade, LucidProofs!Contract!Close,
         Contracted!Close, LucidProofs!Contract!Payout, Contracted!Payout,
         LucidProofs!Contract!Reactivate, Contracted!Reactivate,
         LucidProofs!Contract!Finish, Contracted!Finish, LucidProofs!Contract!Paid,
         Contracted!Paid, LucidProofs!Contract!Verdict, Contracted!Verdict,
         LucidProofs!Contract!Reasons, Contracted!Reasons,
         LucidProofs!Contract!Cardinality, Contracted!Cardinality, LucidProofs!Status,
         Lucid!Status, LucidProofs!Funded, Lucid!Funded, LucidProofs!Active, Lucid!Active
<1>3. ASSUME firm' = firm, UNCHANGED LucidProofs!Contract!vars
      PROVE  UNCHANGED Contracted!vars
  BY <1>3 DEF LucidProofs!Contract!vars, Contracted!vars, LucidProofs!Status, Lucid!Status,
       LucidProofs!Funded, Lucid!Funded, LucidProofs!Active, Lucid!Active
<1> QED BY <1>1, <1>2, <1>3

\* The driver plays with one of the two accounts, and is idle beside the others.
FirmsInv ==
    /\ firm = "apex" => IInv /\ DriverInv
    /\ firm = "lucid" => LucidProofs!IInv /\ LucidProofs!DriverInv

\* An attempt begins as the contract says ...
LEMMA FirmsInit == MCInit => FirmsInv /\ Contracted!Init
<1> USE LucidAssumption, LucidBoundsAssumption, AttemptAssumption
<1> SUFFICES ASSUME MCInit PROVE FirmsInv /\ Contracted!Init
  OBVIOUS
<1>1. CASE firm = "apex"
  <2>1. AttemptsInit /\ Init
    BY <1>1 DEF MCInit, AttemptsInit
  <2> QED BY <1>1, <2>1, InitInv, InitKept, ApexContract DEF FirmsInv
<1>2. CASE firm = "lucid"
  <2>1. Lucid!AttemptsInit
    BY <1>2 DEF MCInit
  <2>2. LucidProofs!AttemptsInit
    BY <2>1, SameDrivers
  <2>3. LucidProofs!Init
    BY <2>2 DEF LucidProofs!AttemptsInit
  <2> QED BY <1>2, <2>2, <2>3, LucidProofs!InitInv, LucidProofs!InitKept, LucidContract DEF FirmsInv
<1>3. CASE firm \notin {"apex", "lucid"}
  <2>1. Lucid!Init /\ AttemptInit /\ driver = "hand"
    BY <1>3 DEF MCInit, LucidRests, NoAttempt
  <2>2. Lucid!Status = "open" /\ ~Lucid!Funded /\ lPayouts = 0
    BY <2>1 DEF Lucid!Init, Lucid!Status, Lucid!Funded, Lucid!Active
  <2>3. at = "hand" /\ gross = 0 /\ result = {}
    BY <2>1 DEF AttemptInit
  <2> QED BY <1>3, <2>2, <2>3 DEF FirmsInv, Contracted!Init
<1> QED BY <1>1, <1>2, <1>3

\* ... and goes on as it says, whichever firm is played.
LEMMA FirmsStep ==
    ASSUME FirmsInv, [MCNext]_allVars
    PROVE  FirmsInv' /\ [Contracted!Next]_(Contracted!vars)
<1> USE LucidAssumption, LucidBoundsAssumption, AttemptAssumption
<1>1. firm' = firm
  BY DEF MCNext, ApexNext, LucidNext, AltFirmsNext, SimulationsNext, allVars
<1>2. CASE firm = "apex"
  <2>1. [AttemptsNext]_<<vars, attempt>>
    BY <1>2 DEF MCNext, ApexNext, LucidNext, AltFirmsNext, SimulationsNext, allVars
  <2>2. IInv'
    BY <1>2, <2>1, AccountStep, NextInv DEF FirmsInv, vars
  <2>3. DriverInv' /\ [Contract!Next]_(Contract!vars)
    BY <1>2, <2>1, StepKept DEF FirmsInv
  <2> QED BY <1>1, <1>2, <2>2, <2>3, ApexContract DEF FirmsInv
<1>3. CASE firm = "lucid"
  <2>1. [LucidProofs!AttemptsNext]_<<LucidProofs!vars, LucidProofs!attempt>>
    <3>1. CASE LucidNext
      BY <3>1, LucidPlayed
    <3>2. CASE UNCHANGED allVars
      BY <3>2 DEF allVars, lucidVars, attempt, LucidProofs!vars, LucidProofs!attempt
    <3> QED BY <1>3, <3>1, <3>2 DEF MCNext, ApexNext, AltFirmsNext, SimulationsNext
  <2>2. LucidProofs!IInv'
    BY <1>3, <2>1, LucidProofs!AccountStep, LucidProofs!NextInv DEF FirmsInv
  <2>3. LucidProofs!DriverInv' /\ [LucidProofs!Contract!Next]_(LucidProofs!Contract!vars)
    BY <1>3, <2>1, LucidProofs!StepKept DEF FirmsInv
  <2> QED BY <1>1, <1>3, <2>2, <2>3, LucidContract DEF FirmsInv
<1>4. CASE firm \notin {"apex", "lucid"}
  <2>1. UNCHANGED <<lPhase, lPayouts, at, gross, result>>
    BY <1>4 DEF MCNext, ApexNext, LucidNext, AltFirmsNext, SimulationsNext, allVars,
         lucidVars, attempt
  <2>2. UNCHANGED Contracted!vars
    BY <1>1, <1>4, <2>1 DEF Contracted!vars, Lucid!Status, Lucid!Funded, Lucid!Active
  <2> QED BY <1>1, <1>4, <2>2 DEF FirmsInv
<1> QED BY <1>2, <1>3, <1>4

\* Whichever firm and driver, an attempt keeps AttemptContract: a closed account is not
\* traded again, a payout whose breach is not looked for breaches nothing, and the
\* attempt ends once, for the one reason that the account bears out.
THEOREM FirmsAlwaysKeepContract == MCSpec => FirmsKeepContract
<1>1. MCInit => FirmsInv /\ Contracted!Init
  BY FirmsInit
<1>2. FirmsInv /\ [MCNext]_allVars => FirmsInv' /\ [Contracted!Next]_(Contracted!vars)
  BY FirmsStep
<1> QED BY <1>1, <1>2, PTL DEF MCSpec, FirmsKeepContract, Contracted!Spec, allVars

-----------------------------------------------------------------------------
(* The Monte Carlo                                                           *)

USE MonteCarloAssumption

\* A set of naturals has a least member: what a value of a recursive function is
\* shown by, at the first place where it would fail.
LEMMA LeastNatural ==
    ASSUME NEW T, T \subseteq Nat, T # {}
    PROVE  \E x \in T : \A y \in T : x <= y
<1>1. PICK x \in T : \A y \in T : ~ (<<y, x>> \in OpToRel(<, Nat))
  BY NatLessThanWellFounded, WFMin, Zenon
<1>2. \A y \in T : <<y, x>> \in OpToRel(<, Nat) <=> y < x
  BY DEF OpToRel
<1>3. \A y \in T : x \in Nat /\ y \in Nat /\ ~(y < x)
  BY <1>1, <1>2
<1> QED BY <1>3


\* One more trade of a simulation by itself, or none after its end.
PlaysOn(s, stream, st) ==
    IF Ended(st.acct, st.n) THEN st
    ELSE LET t == SampleTrade(s, st.last, st.acct, stream, st.n)
         IN  [acct |-> Traded(st.acct, t.pnl), last |-> t.last, n |-> st.n + t.use]
\* The start of a course, and f as the course of d trades.
Begun == [acct |-> NewAccount, last |-> "none", n |-> 0]
Plays(f, s, stream, d) ==
    f = [k \in 0..d |-> IF k = 0 THEN Begun ELSE PlaysOn(s, stream, f[k - 1])]

\* A course begins with a new account, and each trade goes on from the one before ...
LEMMA PlaysValues ==
    ASSUME NEW f, NEW s, NEW stream, NEW d \in Nat, Plays(f, s, stream, d)
    PROVE  f[0] = Begun /\ \A n \in 1..d : f[n] = PlaysOn(s, stream, f[n - 1])
<1>1. f = [k \in 0..d |-> IF k = 0 THEN Begun ELSE PlaysOn(s, stream, f[k - 1])]
  BY DEF Plays
<1>2. 0 \in 0..d /\ \A n \in 1..d : n \in 0..d /\ n # 0
  OBVIOUS
<1>3. f[0] = Begun
  BY <1>1, <1>2
<1>4. \A n \in 1..d : f[n] = PlaysOn(s, stream, f[n - 1])
  BY <1>1, <1>2
<1> QED BY <1>3, <1>4

\* ... and there is one, of any length.
LEMMA PlaysExists ==
    ASSUME NEW s, NEW stream, NEW d \in Nat
    PROVE  \E f : Plays(f, s, stream, d)
<1> DEFINE Without == {n \in Nat : ~ \E f : Plays(f, s, stream, n)}
<1> SUFFICES ASSUME d \in Without PROVE FALSE
  OBVIOUS
<1>1. PICK m \in Without : \A n \in Without : m <= n
  <2>1. Without \subseteq Nat /\ Without # {}
    OBVIOUS
  <2> HIDE DEF Without
  <2> QED BY <2>1, LeastNatural
<1>2. m \in Nat /\ ~ \E f : Plays(f, s, stream, m)
  BY <1>1
<1>3. m # 0
  <2> DEFINE f == [n \in 0..0 |-> Begun]
  <2>1. \A n \in 0..0 : n = 0
    OBVIOUS
  <2>2. f = [n \in 0..0 |-> IF n = 0 THEN Begun ELSE PlaysOn(s, stream, f[n - 1])]
    BY <2>1
  <2>3. Plays(f, s, stream, 0)
    BY <2>2 DEF Plays
  <2> HIDE DEF f
  <2> QED BY <1>2, <2>3
<1>4. m - 1 \in Nat /\ m - 1 \notin Without
  BY <1>1, <1>2, <1>3
<1>5. PICK g : Plays(g, s, stream, m - 1)
  BY <1>4
<1>6. g[0] = Begun /\ \A n \in 1..m - 1 : g[n] = PlaysOn(s, stream, g[n - 1])
  BY <1>4, <1>5, PlaysValues
<1> DEFINE h == [n \in 0..m |-> IF n = m THEN PlaysOn(s, stream, g[m - 1]) ELSE g[n]]
<1>7. \A n \in 0..m : h[n] = IF n = 0 THEN Begun ELSE PlaysOn(s, stream, h[n - 1])
  <2> SUFFICES ASSUME NEW n \in 0..m PROVE h[n] = IF n = 0 THEN Begun ELSE PlaysOn(s, stream, h[n - 1])
    OBVIOUS
  <2>1. CASE n = 0
    BY <1>2, <1>3, <1>6, <2>1
  <2>2. CASE n = m
    <3>1. m - 1 \in 0..m /\ m - 1 # m
      BY <1>2, <1>3
    <3>2. h[m - 1] = g[m - 1]
      BY <3>1
    <3> QED BY <1>3, <2>2, <3>2
  <2>3. CASE n # 0 /\ n # m
    <3>1. n \in 1..m - 1 /\ n - 1 \in 0..m /\ n - 1 # m
      BY <1>2, <2>3
    <3>2. h[n] = g[n] /\ h[n - 1] = g[n - 1]
      BY <2>3, <3>1
    <3> QED BY <1>6, <2>3, <3>1, <3>2
  <2> QED BY <2>1, <2>2, <2>3
<1>8. h = [n \in 0..m |-> h[n]]
  OBVIOUS
<1> HIDE DEF h
<1>9. h = [n \in 0..m |-> IF n = 0 THEN Begun ELSE PlaysOn(s, stream, h[n - 1])]
  BY <1>7, <1>8
<1> QED BY <1>2, <1>9 DEF Plays

\* What a simulation by itself has come to after k trades.
Course(s, stream) == CHOOSE f : Plays(f, s, stream, Draws)

\* Alone is the account at the end of that course.
LEMMA CourseIs ==
    ASSUME NEW s, NEW stream
    PROVE  /\ Course(s, stream)[0] = Begun
           /\ \A k \in 1..Draws : Course(s, stream)[k] = PlaysOn(s, stream, Course(s, stream)[k - 1])
           /\ Alone(s, stream) = Course(s, stream)[Draws].acct
<1>1. Plays(Course(s, stream), s, stream, Draws)
  BY PlaysExists DEF Course
<1>2. Alone(s, stream) = Course(s, stream)[Draws].acct
  BY DEF Alone, Course, Plays, PlaysOn, Begun
<1> QED BY <1>1, <1>2, PlaysValues

\* After its end it stays what it is.
LEMMA CourseEnds ==
    ASSUME NEW s, NEW stream, NEW k \in 0..Draws,
           Ended(Course(s, stream)[k].acct, Course(s, stream)[k].n)
    PROVE  Course(s, stream)[Draws] = Course(s, stream)[k]
<1> DEFINE f == Course(s, stream)
           Moves == {j \in k..Draws : f[j] # f[k]}
<1> SUFFICES ASSUME Moves # {} PROVE FALSE
  <2>1. Draws \in k..Draws
    OBVIOUS
  <2> QED BY <2>1
<1>1. PICK m \in Moves : \A j \in Moves : m <= j
  <2>1. Moves \subseteq Nat
    OBVIOUS
  <2> HIDE DEF Moves
  <2> QED BY <2>1, LeastNatural
<1>2. m \in k..Draws /\ f[m] # f[k]
  BY <1>1
<1>3. m \in 1..Draws /\ m - 1 \in k..Draws
  BY <1>2
<1>4. f[m - 1] = f[k]
  <2>1. m - 1 \notin Moves
    BY <1>1, <1>3
  <2> HIDE DEF f
  <2> QED BY <1>3, <2>1
<1>5. f[m] = PlaysOn(s, stream, f[m - 1])
  BY <1>3, CourseIs
<1> QED BY <1>2, <1>4, <1>5 DEF PlaysOn

\* A trade uses a number or two.
LEMMA TradeUses ==
    ASSUME NEW s, NEW last, NEW a, NEW stream, NEW n
    PROVE  SampleTrade(s, last, a, stream, n).use \in {1, 2}
BY DEF SampleTrade

\* The simulation in progress is on the course that its strategy and its seed give.
OnCourse ==
    \E k \in 0..Draws :
        /\ k <= drawn
        /\ Course(strategy, numbers[Len(results) + 1])[k] = [acct |-> acct, last |-> lastWin, n |-> drawn]
\* What the simulations come to by themselves, and what holds between any two steps.
Fates == {Alone(strategy, numbers[i]) : i \in Nat \ {0}}
SimsInv ==
    /\ drawn \in Nat /\ results \in Seq(Fates)
    /\ OnCourse /\ SeedDecides

\* run_monte_carlo begins a course, and every trade and every new simulation keeps to one:
\* _reset_strategy is what makes the next one begin where a new strategy does.
LEMMA SimsBegin == ASSUME SimsInit PROVE SimsInv
<1>1. drawn = 0 /\ results = <<>> /\ acct = NewAccount /\ lastWin = "none"
  BY DEF SimsInit
<1>2. Course(strategy, numbers[Len(results) + 1])[0] = [acct |-> acct, last |-> lastWin, n |-> drawn]
  BY <1>1, CourseIs DEF Begun
<1>3. OnCourse
  BY <1>1, <1>2 DEF OnCourse
<1>4. results \in Seq(Fates) /\ SeedDecides
  BY <1>1 DEF SeedDecides
<1> QED BY <1>1, <1>3, <1>4 DEF SimsInv

LEMMA SimsKeep == ASSUME SimsInv, [SimsNext]_simsVars PROVE SimsInv'
<1>1. CASE Trade
  <2>1. UNCHANGED <<strategy, numbers, results>> /\ ~Ended(acct, drawn)
    BY <1>1 DEF Trade
  <2> DEFINE stream == numbers[Len(results) + 1]
             f == Course(strategy, stream)
             t == SampleTrade(strategy, lastWin, acct, stream, drawn)
  <2>2. acct' = Traded(acct, t.pnl) /\ lastWin' = t.last /\ drawn' = drawn + t.use
    BY <1>1 DEF Trade
  <2>3. PICK k \in 0..Draws : k <= drawn /\ f[k] = [acct |-> acct, last |-> lastWin, n |-> drawn]
    BY DEF SimsInv, OnCourse
  <2>4. t.use \in {1, 2} /\ drawn \in Nat /\ drawn + 2 <= Draws
    BY <2>1, TradeUses DEF SimsInv, Ended
  <2>5. k + 1 \in 1..Draws /\ k + 1 <= drawn' /\ drawn' \in Nat
    BY <2>2, <2>3, <2>4
  <2>6. f[k + 1] = PlaysOn(strategy, stream, f[k])
    <3>1. k + 1 - 1 = k
      OBVIOUS
    <3> HIDE DEF stream
    <3> QED BY <2>5, <3>1, CourseIs
  <2>7. f[k + 1] = [acct |-> acct', last |-> lastWin', n |-> drawn']
    <3> HIDE DEF f, stream
    <3>1. Ended(f[k].acct, f[k].n) <=> Ended(acct, drawn)
      BY <2>3
    <3> QED BY <2>1, <2>2, <2>3, <2>6, <3>1 DEF PlaysOn
  <2>8. OnCourse'
    <3>1. Course(strategy', numbers'[Len(results') + 1])[k + 1] = [acct |-> acct', last |-> lastWin', n |-> drawn']
      BY <2>1, <2>7
    <3> QED BY <2>5, <3>1 DEF OnCourse
  <2>9. results' \in Seq(Fates') /\ SeedDecides'
    <3>1. Fates' = Fates
      BY <2>1 DEF Fates
    <3> QED BY <2>1, <3>1 DEF SimsInv, SeedDecides
  <2> QED BY <2>5, <2>8, <2>9 DEF SimsInv
<1>2. CASE NextSimulation
  <2>1. /\ Ended(acct, drawn) /\ results' = Append(results, acct) /\ UNCHANGED <<strategy, numbers>>
        /\ drawn' = 0 /\ acct' = NewAccount /\ lastWin' = "none"
    BY <1>2 DEF NextSimulation
  <2>0. results \in Seq(Fates) /\ Len(results) \in Nat
    BY DEF SimsInv
  <2> DEFINE stream == numbers[Len(results) + 1]
             f == Course(strategy, stream)
  <2>2. PICK k \in 0..Draws : f[k] = [acct |-> acct, last |-> lastWin, n |-> drawn]
    BY DEF SimsInv, OnCourse
  <2>3. f[Draws] = f[k]
    <3>1. f[k].acct = acct /\ f[k].n = drawn
      BY <2>2
    <3>2. Ended(f[k].acct, f[k].n)
      BY <2>1, <3>1
    <3> HIDE DEF stream
    <3> QED BY <3>2, CourseEnds
  <2>4. acct = Alone(strategy, numbers[Len(results) + 1])
    BY <2>2, <2>3, CourseIs
  <2>5. acct \in Fates
    BY <2>0, <2>4 DEF Fates
  <2>6. results' \in Seq(Fates')
    <3>1. Fates' = Fates
      BY <2>1 DEF Fates
    <3> QED BY <2>0, <2>1, <2>5, <3>1
  <2>7. SeedDecides'
    <3> SUFFICES ASSUME NEW i \in DOMAIN results' PROVE results'[i] = Alone(strategy, numbers[i])
      BY <2>1 DEF SeedDecides
    <3>1. i \in 1..Len(results) + 1
      BY <2>0, <2>1, <2>5
    <3>2. CASE i = Len(results) + 1
      BY <2>0, <2>1, <2>4, <2>5, <3>2
    <3>3. CASE i \in 1..Len(results)
      <4>1. results'[i] = results[i] /\ i \in DOMAIN results
        BY <2>0, <2>1, <2>5, <3>3
      <4> QED BY <4>1 DEF SimsInv, SeedDecides
    <3> QED BY <2>0, <3>1, <3>2, <3>3
  <2>8. OnCourse'
    <3>1. Course(strategy', numbers'[Len(results') + 1])[0] = [acct |-> acct', last |-> lastWin', n |-> drawn']
      BY <2>1, CourseIs DEF Begun
    <3> QED BY <2>1, <3>1 DEF OnCourse
  <2> QED BY <2>1, <2>6, <2>7, <2>8 DEF SimsInv
<1>3. CASE UNCHANGED simsVars
  <2>1. UNCHANGED <<strategy, lastWin, numbers, drawn, acct, results>>
    BY <1>3 DEF simsVars
  <2>2. Fates' = Fates
    BY <2>1 DEF Fates
  <2>3. OnCourse' /\ SeedDecides'
    BY <2>1 DEF OnCourse, SeedDecides, SimsInv
  <2> QED BY <2>1, <2>2, <2>3 DEF SimsInv
<1> QED BY <1>1, <1>2, <1>3 DEF SimsNext

\* Of a product.
LEMMA ProductGrows ==
    ASSUME NEW a \in Int, NEW b \in Int, NEW c \in Nat, a <= b
    PROVE  a * c <= b * c
<1>1. (b - a) * c \in Nat
  OBVIOUS
<1>2. b * c = a * c + (b - a) * c
  OBVIOUS
<1> QED BY <1>1, <1>2

\* A quotient and its remainder, and that no others make the number.
LEMMA Division ==
    ASSUME NEW a \in Nat, NEW b \in Nat \ {0}
    PROVE  /\ a \div b \in Nat /\ a % b \in 0..b - 1
           /\ a = (a \div b) * b + (a % b)
OBVIOUS

LEMMA DivisionIs ==
    ASSUME NEW q \in Nat, NEW b \in Nat \ {0}, NEW r \in 0..b - 1
    PROVE  (q * b + r) \div b = q /\ (q * b + r) % b = r
<1> DEFINE a == q * b + r
<1>1. a \in Nat
  OBVIOUS
<1>2. a \div b \in Nat /\ a % b \in 0..b - 1 /\ a = (a \div b) * b + (a % b)
  BY <1>1, Division
<1> DEFINE p == a \div b
           m == a % b
<1>3. p \in Nat /\ m \in 0..b - 1 /\ q * b + r = p * b + m
  BY <1>2
<1> HIDE DEF p, m, a
<1>4. ~(p < q)
  <2> SUFFICES ASSUME p < q PROVE FALSE
    OBVIOUS
  <2>1. p + 1 <= q
    BY <1>3
  <2>2. (p + 1) * b <= q * b
    BY <1>3, <2>1, ProductGrows
  <2>3. (p + 1) * b = p * b + b /\ p * b \in Int /\ q * b \in Int
    BY <1>3
  <2> QED BY <1>3, <2>2, <2>3
<1>5. ~(q < p)
  <2> SUFFICES ASSUME q < p PROVE FALSE
    OBVIOUS
  <2>1. q + 1 <= p
    BY <1>3
  <2>2. (q + 1) * b <= p * b
    BY <1>3, <2>1, ProductGrows
  <2>3. (q + 1) * b = q * b + b /\ p * b \in Int /\ q * b \in Int
    BY <1>3
  <2> QED BY <1>3, <2>2, <2>3
<1>6. p = q
  BY <1>3, <1>4, <1>5
<1>7. m = r
  BY <1>3, <1>6
<1> QED BY <1>6, <1>7 DEF p, m, a

\* The blocks of a replay, as many as cover it.
LEMMA BlocksCover ==
    ASSUME NEW T, NEW days \in Seq(T), days # <<>>, blockSize \in Nat \ {0}
    PROVE  /\ BlockOf(days) \in 1..Len(days) /\ Blocks(days) \in Nat \ {0}
           /\ Len(days) <= Blocks(days) * BlockOf(days)
           /\ \A j \in 1..Len(days) : (j - 1) \div BlockOf(days) \in 0..Blocks(days) - 1
<1>1. Len(days) \in Nat \ {0}
  OBVIOUS
<1>2. BlockOf(days) \in 1..Len(days)
  BY <1>1 DEF BlockOf, Least
<1> DEFINE l == Len(days)
           b == BlockOf(days)
           n == (l + b - 1) \div b
<1>3. Blocks(days) = n
  BY DEF Blocks
<1> HIDE DEF l, b
<1>4. l \in Nat \ {0} /\ b \in 1..l
  BY <1>1, <1>2 DEF l, b
<1>5. n \in Nat /\ (l + b - 1) % b \in 0..b - 1 /\ l + b - 1 = n * b + ((l + b - 1) % b)
  <2>1. l + b - 1 \in Nat /\ b \in Nat \ {0}
    BY <1>4
  <2> QED BY <2>1, Division
<1> HIDE DEF n
<1>6. l <= n * b
  <2>1. n * b \in Int
    BY <1>4, <1>5
  <2> QED BY <1>4, <1>5, <2>1
<1>7. n # 0
  BY <1>4, <1>6
<1>8. ASSUME NEW j \in 1..l
      PROVE  (j - 1) \div b \in 0..n - 1
  <2> DEFINE q == (j - 1) \div b
  <2>1. q \in Nat /\ (j - 1) % b \in 0..b - 1 /\ j - 1 = q * b + ((j - 1) % b)
    <3>1. j - 1 \in Nat /\ b \in Nat \ {0}
      BY <1>4
    <3> QED BY <3>1, Division
  <2> HIDE DEF q
  <2>2. ~(n <= q)
    <3> SUFFICES ASSUME n <= q PROVE FALSE
      OBVIOUS
    <3>1. n * b <= q * b
      BY <1>4, <1>5, <2>1, ProductGrows
    <3>2. n * b \in Int /\ q * b \in Int
      BY <1>4, <1>5, <2>1
    <3> QED BY <1>4, <1>6, <2>1, <3>1, <3>2
  <2>3. q \in 0..n - 1
    BY <1>5, <2>1, <2>2
  <2> QED BY <2>3 DEF q
<1> QED BY <1>1, <1>2, <1>3, <1>5, <1>6, <1>7, <1>8 DEF l, b

\* A part of a sequence, and a sequence of two parts.
LEMMA PartIs ==
    ASSUME NEW T, NEW days \in Seq(T), NEW a \in Nat, NEW c \in Nat, a + c <= Len(days)
    PROVE  /\ SubSeq(days, a + 1, a + c) \in Seq(T) /\ Len(SubSeq(days, a + 1, a + c)) = c
           /\ \A i \in 1..c : SubSeq(days, a + 1, a + c)[i] = days[a + i]
<1>1. Len(SubSeq(days, a + 1, a + c)) = c
  OBVIOUS
<1>2. ASSUME NEW i \in 1..c PROVE SubSeq(days, a + 1, a + c)[i] = days[a + i]
  OBVIOUS
<1>3. \A i \in 1..c : days[a + i] \in T
  OBVIOUS
<1>4. SubSeq(days, a + 1, a + c) \in Seq(T)
  OBVIOUS
<1> QED BY <1>1, <1>2, <1>4

\* Two sequences, one after the other.
LEMMA JoinIs ==
    ASSUME NEW T, NEW s \in Seq(T), NEW t \in Seq(T)
    PROVE  /\ s \o t \in Seq(T) /\ Len(s \o t) = Len(s) + Len(t)
           /\ \A i \in 1..Len(s) : (s \o t)[i] = s[i]
           /\ \A i \in 1..Len(t) : (s \o t)[Len(s) + i] = t[i]
OBVIOUS

\* The concatenation of blocks.
BlockAt(days, start, size) == SubSeq(days, start + 1, start + size)
Added(out, block) == out \o block
Chained(f, days, starts, size, d) ==
    f = [k \in 0..d |-> IF k = 0 THEN <<>> ELSE Added(f[k - 1], BlockAt(days, starts[k], size))]

\* One block more at each step, and there is such a chain.
LEMMA ChainedValues ==
    ASSUME NEW f, NEW days, NEW starts, NEW size, NEW d \in Nat, Chained(f, days, starts, size, d)
    PROVE  /\ f[0] = <<>>
           /\ \A k \in 1..d : f[k] = Added(f[k - 1], BlockAt(days, starts[k], size))
<1>1. f = [k \in 0..d |-> IF k = 0 THEN <<>> ELSE Added(f[k - 1], BlockAt(days, starts[k], size))]
  BY DEF Chained
<1>2. 0 \in 0..d /\ \A k \in 1..d : k \in 0..d /\ k # 0
  OBVIOUS
<1>3. f[0] = <<>>
  BY <1>1, <1>2
<1>4. \A k \in 1..d : f[k] = Added(f[k - 1], BlockAt(days, starts[k], size))
  BY <1>1, <1>2
<1> QED BY <1>3, <1>4

LEMMA ChainedExists ==
    ASSUME NEW days, NEW starts, NEW size, NEW d \in Nat
    PROVE  \E f : Chained(f, days, starts, size, d)
<1> DEFINE Without == {n \in Nat : ~ \E f : Chained(f, days, starts, size, n)}
<1> SUFFICES ASSUME d \in Without PROVE FALSE
  OBVIOUS
<1>0. ASSUME NEW f, NEW n, f = [k \in 0..n |-> IF k = 0 THEN <<>> ELSE Added(f[k - 1], BlockAt(days, starts[k], size))]
      PROVE  Chained(f, days, starts, size, n)
  BY <1>0 DEF Chained
<1>1. PICK m \in Without : \A n \in Without : m <= n
  <2>1. Without \subseteq Nat /\ Without # {}
    OBVIOUS
  <2> HIDE DEF Without
  <2> QED BY <2>1, LeastNatural
<1>2. m \in Nat /\ ~ \E f : Chained(f, days, starts, size, m)
  BY <1>1
<1>3. m # 0
  <2> DEFINE f == [n \in 0..0 |-> <<>>]
  <2>1. \A n \in 0..0 : n = 0
    OBVIOUS
  <2>2. f = [n \in 0..0 |-> IF n = 0 THEN <<>> ELSE Added(f[n - 1], BlockAt(days, starts[n], size))]
    BY <2>1
  <2>3. Chained(f, days, starts, size, 0)
    BY <1>0, <2>2
  <2> HIDE DEF f
  <2> QED BY <1>2, <2>3
<1>4. m - 1 \in Nat /\ m - 1 \notin Without
  BY <1>1, <1>2, <1>3
<1>5. PICK g : Chained(g, days, starts, size, m - 1)
  BY <1>4
<1>6. g[0] = <<>> /\ \A n \in 1..m - 1 : g[n] = Added(g[n - 1], BlockAt(days, starts[n], size))
  BY <1>4, <1>5, ChainedValues
<1> DEFINE h == [n \in 0..m |-> IF n = m THEN Added(g[m - 1], BlockAt(days, starts[m], size)) ELSE g[n]]
<1> HIDE DEF Without
<1>7. \A n \in 0..m : h[n] = IF n = 0 THEN <<>> ELSE Added(h[n - 1], BlockAt(days, starts[n], size))
  <2> SUFFICES ASSUME NEW n \in 0..m PROVE h[n] = IF n = 0 THEN <<>> ELSE Added(h[n - 1], BlockAt(days, starts[n], size))
    OBVIOUS
  <2>1. CASE n = 0
    BY <1>2, <1>3, <1>6, <2>1
  <2>2. CASE n = m
    <3>1. m - 1 \in 0..m /\ m - 1 # m
      BY <1>2, <1>3
    <3>2. h[m - 1] = g[m - 1]
      BY <3>1
    <3> QED BY <1>3, <2>2, <3>2
  <2>3. CASE n # 0 /\ n # m
    <3>1. n \in 1..m - 1 /\ n - 1 \in 0..m /\ n - 1 # m
      BY <1>2, <2>3
    <3>2. h[n] = g[n] /\ h[n - 1] = g[n - 1]
      BY <2>3, <3>1
    <3> QED BY <1>6, <2>3, <3>1, <3>2
  <2> QED BY <2>1, <2>2, <2>3
<1>8. h = [n \in 0..m |-> h[n]]
  OBVIOUS
<1> HIDE DEF h
<1>9. h = [n \in 0..m |-> IF n = 0 THEN <<>> ELSE Added(h[n - 1], BlockAt(days, starts[n], size))]
  BY <1>7, <1>8
<1>10. Chained(h, days, starts, size, m)
  BY <1>0, <1>9
<1> QED BY <1>2, <1>10

\* Where the j-th day of a concatenation comes from, counted from 0.
FitsBlocks(T, days, starts, b, d) ==
    d \in Nat /\ days \in Seq(T) /\ b \in 1..Len(days) /\ starts \in [1..d -> 0..Len(days) - b]
InBlocks(T, out, days, starts, b, k) ==
    /\ out \in Seq(T) /\ Len(out) = k * b
    /\ \A j \in 0..k * b - 1 : out[j + 1] = days[starts[(j \div b) + 1] + (j % b) + 1]
\* By the least number of blocks at which a chain would not be the days of its blocks.
LEMMA ChainedIs ==
    ASSUME NEW T, NEW days, NEW b, NEW d, NEW starts, NEW f,
           FitsBlocks(T, days, starts, b, d), Chained(f, days, starts, b, d)
    PROVE  \A k \in 0..d : InBlocks(T, f[k], days, starts, b, k)
<1>0. d \in Nat /\ days \in Seq(T) /\ b \in 1..Len(days) /\ starts \in [1..d -> 0..Len(days) - b]
  BY DEF FitsBlocks
<1> DEFINE Right(k) ==
              /\ f[k] \in Seq(T) /\ Len(f[k]) = k * b
              /\ \A j \in 0..k * b - 1 : f[k][j + 1] = days[starts[(j \div b) + 1] + (j % b) + 1]
           Wrong == {k \in 0..d : ~Right(k)}
<1> SUFFICES \A k \in 0..d : Right(k)
  BY DEF InBlocks
<1> USE <1>0
<1> HIDE DEF Right
<1> SUFFICES ASSUME Wrong # {} PROVE FALSE
  OBVIOUS
<1>1. PICK m \in Wrong : \A k \in Wrong : m <= k
  <2>1. Wrong \subseteq Nat
    OBVIOUS
  <2> HIDE DEF Wrong
  <2> QED BY <2>1, LeastNatural
<1>2. m \in 0..d /\ ~Right(m)
  BY <1>1
<1>3. m # 0
  <2>1. Right(0)
    <3>1. f[0] = <<>>
      BY ChainedValues
    <3>2. 0 * b = 0
      OBVIOUS
    <3> QED BY <3>1, <3>2 DEF Right
  <2> QED BY <1>2, <2>1
<1>4. m \in 1..d /\ m - 1 \in 0..d /\ m - 1 < m
  BY <1>2, <1>3
<1>5. Right(m - 1)
  <2>1. m - 1 \notin Wrong
    <3> HIDE DEF Wrong
    <3> QED BY <1>1, <1>4
  <2> QED BY <1>4, <2>1
<1> DEFINE g == f[m - 1]
           s == starts[m]
           Block == BlockAt(days, s, b)
<1> HIDE DEF Wrong
<1>5a. Len(g) = (m - 1) * b /\ g \in Seq(T)
  BY <1>5 DEF Right
<1>5b. \A j \in 0..(m - 1) * b - 1 : g[j + 1] = days[starts[(j \div b) + 1] + (j % b) + 1]
  BY <1>5 DEF Right
<1>6. f[m] = g \o Block
  <2>1. f[m] = Added(f[m - 1], BlockAt(days, starts[m], b))
    <3>0. Chained(f, days, starts, b, d) /\ d \in Nat
      BY <1>0
    <3>1. \A k \in 1..d : f[k] = Added(f[k - 1], BlockAt(days, starts[k], b))
      BY ONLY <3>0, ChainedValues
    <3> QED BY <1>4, <3>1
  <2> QED BY <2>1 DEF Added
<1>7. s \in 0..Len(days) - b /\ Len(days) \in Nat
  BY <1>4
<1>8. Block \in Seq(T) /\ Len(Block) = b /\ \A i \in 1..b : Block[i] = days[s + i]
  <2>1. Block = SubSeq(days, s + 1, s + b)
    BY DEF BlockAt
  <2> HIDE DEF s, Block
  <2>2. s \in Nat /\ b \in Nat /\ s + b <= Len(days)
    BY <1>7
  <2> QED BY <2>1, <2>2, PartIs
<1>9. (m - 1) * b \in Nat /\ m * b = (m - 1) * b + b
  <2>1. m \in Nat \ {0} /\ b \in Nat
    BY <1>4
  <2> QED BY ONLY <2>1
<1> HIDE DEF g, Block
<1>11. f[m] \in Seq(T) /\ Len(f[m]) = m * b
  <2>1. g \in Seq(T) /\ Block \in Seq(T) /\ Len(g) = (m - 1) * b /\ Len(Block) = b
    BY <1>5a, <1>8
  <2>2. g \o Block \in Seq(T) /\ Len(g \o Block) = Len(g) + Len(Block)
    BY ONLY <2>1, JoinIs
  <2> QED BY <1>6, <1>9, <2>1, <2>2
<1>12. ASSUME NEW j \in 0..m * b - 1
       PROVE  f[m][j + 1] = days[starts[(j \div b) + 1] + (j % b) + 1]
  <2>1. CASE j < (m - 1) * b
    <3>1. j \in 0..(m - 1) * b - 1
      BY <1>9, <2>1
    <3>2. g[j + 1] = days[starts[(j \div b) + 1] + (j % b) + 1]
      BY <1>5b, <3>1
    <3>3. f[m][j + 1] = g[j + 1]
      <4>1. j + 1 \in 1..Len(g)
        BY <1>9, <1>5a, <3>1
      <4> QED BY <1>6, <1>8, <1>5a, <4>1, JoinIs
    <3> QED BY <3>2, <3>3
  <2>2. CASE ~(j < (m - 1) * b)
    <3> DEFINE r == j - (m - 1) * b
    <3>1. r \in 0..b - 1 /\ j = (m - 1) * b + r
      BY <1>9, <2>2
    <3> HIDE DEF r
    <3>2. j \div b = m - 1 /\ j % b = r
      <4>1. m - 1 \in Nat /\ b \in Nat \ {0}
        BY <1>4
      <4> QED BY <3>1, <4>1, DivisionIs
    <3>3. f[m][j + 1] = Block[r + 1]
      <4>1. j + 1 = Len(g) + (r + 1) /\ r + 1 \in 1..Len(Block)
        BY <1>8, <1>9, <1>5a, <3>1
      <4>2. (g \o Block)[Len(g) + (r + 1)] = Block[r + 1]
        BY <1>8, <1>5a, <4>1, JoinIs
      <4> QED BY <1>6, <4>1, <4>2, Zenon
    <3>4. Block[r + 1] = days[s + (r + 1)]
      <4>1. r + 1 \in 1..b
        BY <3>1
      <4> HIDE DEF s
      <4> QED BY <1>8, <4>1
    <3>5. s + (r + 1) = starts[(j \div b) + 1] + (j % b) + 1
      <4>1. m - 1 + 1 = m
        BY <1>4
      <4>2. s \in Int /\ r \in Int
        BY <1>7, <3>1
      <4>3. starts[(j \div b) + 1] + (j % b) + 1 = s + r + 1
        BY <3>2, <4>1, Zenon
      <4> HIDE DEF s
      <4> QED BY <4>2, <4>3
    <3> QED BY <3>3, <3>4, <3>5
  <2> QED BY <1>9, <2>1, <2>2
<1>13. Right(m)
  BY <1>11, <1>12 DEF Right
<1> QED BY <1>2, <1>13

\* A resample in blocks has, on every day, the day of its block.
\* What block_bootstrap_replay_days is given.
Sampling(T, days, b, starts) ==
    /\ days \in Seq(T) /\ days # <<>> /\ blockSize \in Nat \ {0} /\ b = BlockOf(days)
    /\ starts \in [1..Blocks(days) -> 0..Len(days) - b]
DaysOfBlocks(days, b, starts) ==
    [j \in DOMAIN days |-> days[starts[((j - 1) \div b) + 1] + ((j - 1) % b) + 1]]
LEMMA Resampled ==
    ASSUME NEW T, NEW days, NEW b, NEW starts, Sampling(T, days, b, starts)
    PROVE  Bootstrap(days, starts) \in Seq(T) /\ Bootstrap(days, starts) = DaysOfBlocks(days, b, starts)
<1> DEFINE n == Blocks(days)
           l == Len(days)
           f == CHOOSE g : Chained(g, days, starts, b, n)
<1>0. /\ days \in Seq(T) /\ days # <<>> /\ blockSize \in Nat \ {0} /\ b = BlockOf(days)
      /\ starts \in [1..Blocks(days) -> 0..Len(days) - b]
  BY DEF Sampling
<1> USE <1>0
<1>1. b \in 1..l /\ n \in Nat \ {0} /\ l <= n * b /\ l \in Nat
  BY BlocksCover
<1>2. Len(starts) = n
  BY <1>1
<1>3. Bootstrap(days, starts) = SubSeq(f[n], 1, l)
  <2>1. Bootstrap(days, starts) = SubSeq((CHOOSE g : Chained(g, days, starts, b, Len(starts)))[Len(starts)], 1, l)
    BY DEF Bootstrap, Chained, Added, BlockAt
  <2> HIDE DEF n
  <2> QED BY <1>2, <2>1
<1>4. Chained(f, days, starts, b, n)
  BY <1>1, ChainedExists
<1> HIDE DEF f
<1>5. /\ f[n] \in Seq(T) /\ Len(f[n]) = n * b
      /\ \A j \in 0..n * b - 1 : f[n][j + 1] = days[starts[(j \div b) + 1] + (j % b) + 1]
  <2>1. n \in 0..n
    BY <1>1
  <2>2. FitsBlocks(T, days, starts, b, n)
    BY <1>1 DEF FitsBlocks
  <2> HIDE DEF n, l
  <2>3. \A k \in 0..n : InBlocks(T, f[k], days, starts, b, k)
    BY ONLY <1>4, <2>2, ChainedIs
  <2> QED BY <2>1, <2>3 DEF InBlocks
<1> HIDE DEF n
<1> DEFINE c == f[n]
<1>6. n * b \in Int
  BY <1>1
<1> HIDE DEF l
<1>7. /\ SubSeq(c, 1, l) \in Seq(T) /\ Len(SubSeq(c, 1, l)) = l
      /\ \A j \in 1..l : SubSeq(c, 1, l)[j] = c[j]
  <2> HIDE DEF c
  <2>1. c \in Seq(T) /\ Len(c) >= l
    BY <1>1, <1>5, <1>6 DEF c
  <2> QED BY <1>1, <2>1
<1>8. \A j \in 1..l : c[j] = days[starts[((j - 1) \div b) + 1] + ((j - 1) % b) + 1]
  <2> SUFFICES ASSUME NEW j \in 1..l
               PROVE  c[j] = days[starts[((j - 1) \div b) + 1] + ((j - 1) % b) + 1]
    OBVIOUS
  <2> DEFINE i == j - 1
  <2>1. i \in 0..n * b - 1 /\ i + 1 = j
    BY <1>1, <1>6
  <2> HIDE DEF i
  <2>2. c[i + 1] = days[starts[(i \div b) + 1] + (i % b) + 1]
    BY <1>5, <2>1
  <2> QED BY <2>1, <2>2 DEF i
<1>9. DOMAIN days = 1..l
  BY DEF l
<1>10. SubSeq(c, 1, l) = [j \in 1..l |-> SubSeq(c, 1, l)[j]]
  BY <1>1, <1>7
<1> QED BY <1>3, <1>7, <1>8, <1>9, <1>10 DEF DaysOfBlocks

\* Where sequential_replay_mc looks at the intervals, and what it finds before it may stop.
Checkpoints == {Least(NInit + k * NStep, NMax) : k \in 0..NMax}
Undecided(list, m) == ~DecisionClear(Summary(SubSeq(list, 1, m)))

\* The days of the k-th resample, from the numbers drawn.
ResampleOf(days, b, n, r, k) ==
    [j \in DOMAIN days |-> days[r[(k - 1) * n + ((j - 1) \div b) + 1] + ((j - 1) % b) + 1]]
\* What a replay may come to.
Outcomes == {PlayReplay(days) : days \in Seq(Seq(Int))}

\* What is drawn is the blocks of the resamples so far, and what is reported is what
\* they give ...
Drawn ==
    /\ replay \in Replays /\ blockSize \in BlockSizes
    /\ rng \in Seq(0..Len(replay) - BlockOf(replay))
    /\ accumulated \in Seq(Outcomes)
    /\ position = Len(rng) /\ position = Len(accumulated) * Blocks(replay)
    /\ \A k \in 1..Len(accumulated) :
          accumulated[k] = PlayReplay(ResampleOf(replay, BlockOf(replay), Blocks(replay), rng, k))
\* ... and no checkpoint passed was clear.
Decided ==
    /\ goal \in Checkpoints /\ Len(accumulated) <= goal
    /\ \A m \in Checkpoints : m < goal => m <= Len(accumulated) /\ Undecided(accumulated, m)
    /\ verdict # "running" => Len(accumulated) = goal
    /\ verdict # "running" => (verdict = "decision_clear" <=> DecisionClear(Summary(accumulated)))
    /\ verdict = "n_max" => goal = NMax
SeqInv == Drawn /\ Decided

\* A replay that is sampled from has days, and blocks that cover it.
LEMMA ReplayTyped ==
    ASSUME Drawn
    PROVE  /\ replay \in Seq(Seq(Int)) /\ replay # <<>> /\ blockSize \in Nat \ {0}
           /\ BlockOf(replay) \in 1..Len(replay) /\ Blocks(replay) \in Nat \ {0}
           /\ \A j \in 1..Len(replay) : (j - 1) \div BlockOf(replay) \in 0..Blocks(replay) - 1
<1>1. replay \in Seq(Seq(Int)) /\ replay # <<>> /\ blockSize \in Nat \ {0}
  BY DEF Drawn
<1>2. ASSUME NEW T, replay \in Seq(T), replay # <<>>, blockSize \in Nat \ {0}
      PROVE  /\ BlockOf(replay) \in 1..Len(replay) /\ Blocks(replay) \in Nat \ {0}
             /\ \A j \in 1..Len(replay) : (j - 1) \div BlockOf(replay) \in 0..Blocks(replay) - 1
  BY ONLY <1>2, BlocksCover
<1>3. /\ BlockOf(replay) \in 1..Len(replay) /\ Blocks(replay) \in Nat \ {0}
      /\ \A j \in 1..Len(replay) : (j - 1) \div BlockOf(replay) \in 0..Blocks(replay) - 1
  BY ONLY <1>1, <1>2
<1> QED BY <1>1, <1>3

\* The numbers drawn before, and those of one more resample.
Drawing(T, U, days, b, n, r, s, l) ==
    /\ days \in Seq(T) /\ n \in Nat /\ r \in Seq(U) /\ s \in Seq(U)
    /\ l \in Nat /\ Len(r) = l * n /\ Len(s) = n
    /\ \A j \in 1..Len(days) : (j - 1) \div b \in 0..n - 1

\* The resamples before it read the numbers they read.
LEMMA EarlierResamples ==
    ASSUME NEW T, NEW U, NEW days, NEW b, NEW n, NEW r, NEW s, NEW l,
           Drawing(T, U, days, b, n, r, s, l), NEW k, k \in 1..l
    PROVE  ResampleOf(days, b, n, r \o s, k) = ResampleOf(days, b, n, r, k)
<1>0. /\ days \in Seq(T) /\ n \in Nat /\ r \in Seq(U) /\ s \in Seq(U)
      /\ l \in Nat /\ Len(r) = l * n
      /\ \A j \in 1..Len(days) : (j - 1) \div b \in 0..n - 1
  BY DEF Drawing
<1> USE <1>0
<1> DEFINE i(j) == (k - 1) * n + ((j - 1) \div b) + 1
<1>1. ASSUME NEW j \in DOMAIN days
      PROVE  (r \o s)[i(j)] = r[i(j)]
  <2> DEFINE q == (j - 1) \div b
             p == (k - 1) * n
             e == k * n
  <2>1. q \in 0..n - 1
    BY <1>1
  <2> HIDE DEF q
  <2>2. e <= Len(r)
    BY ProductGrows
  <2>3. p + n = e /\ p \in Nat
    OBVIOUS
  <2> HIDE DEF p, e
  <2>4. p + q + 1 \in 1..Len(r)
    <3>1. Len(r) \in Nat /\ e \in Nat
      BY <2>3
    <3>2. n \in Nat
      BY <1>0
    <3> QED BY ONLY <2>1, <2>2, <2>3, <3>1, <3>2
  <2>5. (r \o s)[p + q + 1] = r[p + q + 1]
    BY <2>4, JoinIs
  <2> QED BY <2>5 DEF q, p
<1> HIDE DEF i
<1>2. [j \in DOMAIN days |-> days[(r \o s)[i(j)] + ((j - 1) % b) + 1]]
        = [j \in DOMAIN days |-> days[r[i(j)] + ((j - 1) % b) + 1]]
  BY <1>1
<1> QED BY <1>2, Zenon DEF ResampleOf, i

\* The next one reads the numbers it draws.
LEMMA NextResample ==
    ASSUME NEW T, NEW U, NEW days, NEW b, NEW n, NEW r, NEW s, NEW l,
           Drawing(T, U, days, b, n, r, s, l), NEW k, k = l + 1
    PROVE  ResampleOf(days, b, n, r \o s, k) = DaysOfBlocks(days, b, s)
<1>0. /\ days \in Seq(T) /\ n \in Nat /\ r \in Seq(U) /\ s \in Seq(U)
      /\ l \in Nat /\ Len(r) = l * n /\ Len(s) = n
      /\ \A j \in 1..Len(days) : (j - 1) \div b \in 0..n - 1
  BY DEF Drawing
<1> USE <1>0
<1> DEFINE i(j) == (k - 1) * n + ((j - 1) \div b) + 1
           o(j) == ((j - 1) \div b) + 1
<1>1. ASSUME NEW j \in DOMAIN days
      PROVE  (r \o s)[i(j)] = s[o(j)]
  <2> DEFINE q == (j - 1) \div b
  <2>1. q \in 0..n - 1
    BY <1>1
  <2> HIDE DEF q
  <2>2. k - 1 = l /\ l * n \in Nat
    OBVIOUS
  <2>3. (k - 1) * n + q + 1 = Len(r) + (q + 1) /\ q + 1 \in 1..Len(s)
    BY <2>1, <2>2
  <2>4. (r \o s)[Len(r) + (q + 1)] = s[q + 1]
    <3>1. r \in Seq(U) /\ s \in Seq(U)
      BY <1>0
    <3>2. \A c \in 1..Len(s) : (r \o s)[Len(r) + c] = s[c]
      BY ONLY <3>1, JoinIs
    <3> QED BY <2>3, <3>2
  <2>5. (r \o s)[(k - 1) * n + q + 1] = s[q + 1]
    BY <2>3, <2>4
  <2> QED BY <2>5 DEF q
<1> HIDE DEF i, o
<1>2. [j \in DOMAIN days |-> days[(r \o s)[i(j)] + ((j - 1) % b) + 1]]
        = [j \in DOMAIN days |-> days[s[o(j)] + ((j - 1) % b) + 1]]
  BY <1>1
<1> QED BY <1>2, Zenon DEF ResampleOf, DaysOfBlocks, i, o

\* Nothing is drawn at the start, and no checkpoint was passed.
LEMMA SeqBegin == ASSUME SeqInit PROVE SeqInv
<1>1. /\ replay \in Replays /\ blockSize \in BlockSizes /\ rng = <<>> /\ position = 0
      /\ accumulated = <<>> /\ goal = NInit /\ verdict = "running"
  BY DEF SeqInit
<1>2. Drawn
  <2>1. \A l \in Int : 0 * l = 0
    OBVIOUS
  <2>2. replay \in Seq(Seq(Int)) /\ replay # <<>> /\ blockSize \in Nat \ {0}
    BY <1>1
  <2>3. Blocks(replay) \in Int
    <3>1. ASSUME NEW T, replay \in Seq(T), replay # <<>>, blockSize \in Nat \ {0}
          PROVE  Blocks(replay) \in Int
      BY ONLY <3>1, BlocksCover
    <3> QED BY ONLY <2>2, <3>1
  <2> QED BY <1>1, <2>1, <2>3 DEF Drawn
<1>3. NInit \in Checkpoints /\ \A m \in Checkpoints : ~(m < NInit)
  <2>1. NInit = Least(NInit + 0 * NStep, NMax) /\ 0 \in 0..NMax
    BY DEF Least
  <2>2. ASSUME NEW k \in 0..NMax PROVE ~(Least(NInit + k * NStep, NMax) < NInit)
    <3>1. k * NStep \in Nat
      OBVIOUS
    <3> QED BY <3>1 DEF Least
  <2> QED BY <2>1, <2>2 DEF Checkpoints
<1>4. Decided
  BY <1>1, <1>3 DEF Decided
<1> QED BY <1>2, <1>4 DEF SeqInv

\* One more resample.
LEMMA SampleKeeps == ASSUME SeqInv, Sample PROVE SeqInv'
<1> DEFINE b == BlockOf(replay)
           n == Blocks(replay)
           l == Len(accumulated)
           U == 0..Len(replay) - b
<1>0. Drawn /\ Decided
  BY DEF SeqInv
<1>1. /\ replay \in Seq(Seq(Int)) /\ replay # <<>> /\ blockSize \in Nat \ {0}
      /\ b \in 1..Len(replay) /\ n \in Nat \ {0}
      /\ \A j \in 1..Len(replay) : (j - 1) \div b \in 0..n - 1
  BY <1>0, ReplayTyped
<1>2. /\ replay \in Replays /\ blockSize \in BlockSizes /\ rng \in Seq(U)
      /\ accumulated \in Seq(Outcomes) /\ position = Len(rng) /\ position = l * n
      /\ \A k \in 1..l : accumulated[k] = PlayReplay(ResampleOf(replay, b, n, rng, k))
  BY <1>0 DEF Drawn
<1>3. /\ verdict = "running" /\ l < goal
      /\ UNCHANGED <<replay, blockSize, goal, verdict>>
  BY DEF Sample
<1>4. PICK starts \in Starts :
        /\ accumulated' = Append(accumulated, PlayReplay(Bootstrap(replay, starts)))
        /\ rng' = IF position < Len(rng) THEN rng ELSE rng \o starts
        /\ position' = position + Len(starts)
  BY DEF Sample
<1>5. BlockOf(replay)' = b /\ Blocks(replay)' = n
  BY <1>3 DEF BlockOf, Blocks
<1> HIDE DEF n, b, l
<1>6. l \in Nat /\ Len(rng) \in Nat /\ l * n = Len(rng)
  <2>1. l \in Nat /\ Len(rng) \in Nat
    <3>1. accumulated \in Seq(Outcomes) /\ rng \in Seq(U)
      BY <1>2
    <3> QED BY ONLY <3>1 DEF l
  <2>2. l * n = Len(rng)
    BY <1>2, Zenon
  <2> QED BY <2>1, <2>2
<1>7. starts \in [1..n -> U]
  <2>1. n \in Nat \ {0} /\ Len(rng) \in Nat /\ position = Len(rng)
    BY <1>1, <1>2, <1>6
  <2>2. ~(position + n <= Len(rng))
    BY ONLY <2>1
  <2>3. Starts = [1..n -> U]
    BY <2>2, Zenon DEF Starts, n, b
  <2> QED BY <1>4, <2>3
<1>8. starts \in Seq(U) /\ Len(starts) = n
  <2> HIDE DEF U
  <2> QED BY <1>1, <1>7
<1>9. rng' = rng \o starts /\ position' = position + n
  <2>1. ~(position < Len(rng))
    <3>1. position = Len(rng) /\ Len(rng) \in Nat
      BY <1>2, <1>6
    <3> QED BY ONLY <3>1
  <2> QED BY <1>4, <1>8, <2>1, Zenon
<1> DEFINE Taken == Bootstrap(replay, starts)
           Given == DaysOfBlocks(replay, b, starts)
<1>10. Taken \in Seq(Seq(Int)) /\ Taken = Given
  <2>1. Sampling(Seq(Int), replay, b, starts)
    BY <1>1, <1>7 DEF Sampling, n, b
  <2> QED BY ONLY <2>1, Resampled
<1> HIDE DEF Taken, Given, U
<1>11. /\ accumulated' = Append(accumulated, PlayReplay(Taken)) /\ PlayReplay(Taken) \in Outcomes
  BY <1>4, <1>10 DEF Taken, Outcomes
<1>12. /\ accumulated' \in Seq(Outcomes) /\ Len(accumulated') = l + 1
       /\ accumulated'[l + 1] = PlayReplay(Taken)
       /\ \A k \in 1..l : accumulated'[k] = accumulated[k]
  BY <1>2, <1>11 DEF l
<1>13. ASSUME NEW k \in 1..l + 1
       PROVE  accumulated'[k] = PlayReplay(ResampleOf(replay, b, n, rng \o starts, k))
  <2>0. Drawing(Seq(Int), U, replay, b, n, rng, starts, l)
    BY <1>1, <1>2, <1>6, <1>8 DEF Drawing
  <2>1. CASE k \in 1..l
    <3>1. ResampleOf(replay, b, n, rng \o starts, k) = ResampleOf(replay, b, n, rng, k)
      BY ONLY <2>0, <2>1, EarlierResamples
    <3> QED BY <1>2, <1>12, <2>1, <3>1
  <2>2. CASE k = l + 1
    <3>1. ResampleOf(replay, b, n, rng \o starts, k) = Given
      BY ONLY <2>0, <2>2, NextResample DEF Given
    <3> QED BY <1>10, <1>12, <2>2, <3>1
  <2> QED BY <1>6, <2>1, <2>2
<1>14. Drawn'
  <2>1. rng' \in Seq(U) /\ Len(rng') = Len(rng) + n
    BY <1>2, <1>8, <1>9, JoinIs
  <2>2. (l + 1) * n = l * n + n
    BY <1>1, <1>6
  <2>3. U = (0..Len(replay) - BlockOf(replay))'
    BY <1>3, <1>5 DEF U
  <2>4. position' = Len(rng') /\ position' = Len(accumulated') * n
    BY <1>2, <1>6, <1>9, <1>12, <2>1, <2>2
  <2>5. \A k \in 1..Len(accumulated') :
           accumulated'[k] = PlayReplay(ResampleOf(replay, b, n, rng', k))
    BY <1>9, <1>12, <1>13
  <2>6. replay' \in Replays /\ blockSize' \in BlockSizes
    BY <1>2, <1>3
  <2> QED BY <1>3, <1>5, <1>12, <2>1, <2>3, <2>4, <2>5, <2>6 DEF Drawn
<1>15. Decided'
  <2>1. ASSUME NEW m \in Checkpoints, m < goal
        PROVE  m <= Len(accumulated') /\ Undecided(accumulated', m)
    <3>1. m <= l /\ Undecided(accumulated, m)
      BY <1>0, <2>1 DEF Decided, l
    <3>2. m \in Nat
      <4>1. \A k \in 0..NMax : k * NStep \in Nat
        OBVIOUS
      <4> QED BY <4>1 DEF Checkpoints, Least
    <3>3. SubSeq(accumulated', 1, m) = SubSeq(accumulated, 1, m)
      BY <1>2, <1>11, <1>12, <3>1, <3>2 DEF l
    <3>4. m <= Len(accumulated')
      BY <1>6, <1>12, <3>1, <3>2
    <3> QED BY <3>1, <3>3, <3>4 DEF Undecided
  <2>2. goal' \in Checkpoints /\ Len(accumulated') <= goal'
    <3>1. goal \in Checkpoints
      BY <1>0 DEF Decided
    <3>2. goal \in Int
      BY <3>1 DEF Checkpoints, Least
    <3> QED BY <1>3, <1>6, <1>12, <3>1, <3>2
  <2> QED BY <1>3, <2>1, <2>2 DEF Decided
<1> QED BY <1>14, <1>15 DEF SeqInv

\* The next checkpoint.
LEMMA NextCheckpoint ==
    ASSUME NEW g \in Checkpoints, g < NMax
    PROVE  /\ Least(g + NStep, NMax) \in Checkpoints /\ g < Least(g + NStep, NMax)
           /\ \A m \in Checkpoints : m < Least(g + NStep, NMax) => m <= g
<1>1. PICK k \in 0..NMax : g = Least(NInit + k * NStep, NMax)
  BY DEF Checkpoints
<1>2. k * NStep \in Nat /\ k <= k * NStep /\ (k + 1) * NStep = k * NStep + NStep
  <2>1. k * NStep \in Nat /\ (k + 1) * NStep = k * NStep + NStep
    OBVIOUS
  <2>2. 1 * k <= NStep * k
    BY ProductGrows
  <2>3. NStep * k = k * NStep /\ 1 * k = k
    OBVIOUS
  <2> QED BY <2>1, <2>2, <2>3
<1>3. g = NInit + k * NStep /\ g \in Int
  BY <1>1, <1>2 DEF Least
<1>4. k + 1 \in 0..NMax
  BY <1>2, <1>3
<1>5. Least(g + NStep, NMax) = Least(NInit + (k + 1) * NStep, NMax)
  BY <1>2, <1>3
<1>6. ASSUME NEW m \in Checkpoints, m < Least(g + NStep, NMax)
      PROVE  m <= g
  <2>1. PICK j \in 0..NMax : m = Least(NInit + j * NStep, NMax)
    BY DEF Checkpoints
  <2>2. j * NStep \in Nat
    OBVIOUS
  <2>3. m = NInit + j * NStep /\ j * NStep < (k + 1) * NStep
    BY <1>2, <1>3, <1>6, <2>1, <2>2 DEF Least
  <2>4. ~(k + 1 <= j)
    <3> SUFFICES ASSUME k + 1 <= j PROVE FALSE
      OBVIOUS
    <3>1. (k + 1) * NStep <= j * NStep
      BY ProductGrows
    <3> QED BY <1>2, <2>2, <2>3, <3>1
  <2>5. j * NStep <= k * NStep
    BY <2>4, ProductGrows
  <2> QED BY <1>2, <1>3, <2>2, <2>3, <2>5
<1>7. g < Least(g + NStep, NMax)
  BY <1>3 DEF Least
<1>8. Least(g + NStep, NMax) \in Checkpoints
  BY <1>4, <1>5 DEF Checkpoints
<1> QED BY <1>6, <1>7, <1>8

\* A look at the intervals.
LEMMA CheckpointKeeps == ASSUME SeqInv, Checkpoint PROVE SeqInv'
<1>0. Drawn /\ Decided
  BY DEF SeqInv
<1>1. /\ verdict = "running" /\ Len(accumulated) = goal
      /\ UNCHANGED <<replay, blockSize, rng, position, accumulated>>
  BY DEF Checkpoint
<1> DEFINE Clear == DecisionClear(Summary(accumulated))
<1>2. \/ Clear /\ verdict' = "decision_clear" /\ UNCHANGED goal
      \/ ~Clear /\ goal >= NMax /\ verdict' = "n_max" /\ UNCHANGED goal
      \/ ~Clear /\ ~(goal >= NMax) /\ goal' = Least(goal + NStep, NMax) /\ UNCHANGED verdict
  <2> HIDE DEF Clear
  <2>1. CASE Clear
    BY <2>1 DEF Checkpoint, Clear
  <2>2. CASE ~Clear /\ goal >= NMax
    BY <2>2 DEF Checkpoint, Clear
  <2>3. CASE ~Clear /\ ~(goal >= NMax)
    BY <2>3 DEF Checkpoint, Clear
  <2> QED BY <2>1, <2>2, <2>3
<1>3. Drawn'
  <2>1. BlockOf(replay)' = BlockOf(replay) /\ Blocks(replay)' = Blocks(replay)
    BY <1>1 DEF BlockOf, Blocks
  <2> QED BY <1>0, <1>1, <2>1 DEF Drawn
<1>4. goal \in Checkpoints /\ \A m \in Checkpoints : m \in Int /\ m <= NMax
  BY <1>0 DEF Decided, Checkpoints, Least
<1>5. \A m \in Checkpoints : m < goal => m <= Len(accumulated) /\ Undecided(accumulated, m)
  BY <1>0 DEF Decided
<1>6. accumulated \in Seq(Outcomes)
  BY <1>0 DEF Drawn
<1> HIDE DEF Clear
<1>7. Decided'
  <2>1. CASE Clear /\ verdict' = "decision_clear" /\ UNCHANGED goal
    BY <1>1, <1>4, <1>5, <2>1 DEF Decided, Clear
  <2>2. CASE ~Clear /\ goal >= NMax /\ verdict' = "n_max" /\ UNCHANGED goal
    <3>1. goal = NMax
      BY <1>4, <2>2
    <3> QED BY <1>1, <1>4, <1>5, <2>2, <3>1 DEF Decided, Clear
  <2>3. CASE ~Clear /\ ~(goal >= NMax) /\ goal' = Least(goal + NStep, NMax) /\ UNCHANGED verdict
    <3>1. goal < NMax
      BY <1>4, <2>3
    <3>2. /\ goal' \in Checkpoints /\ goal < goal'
          /\ \A m \in Checkpoints : m < goal' => m <= goal
      BY <1>4, <2>3, <3>1, NextCheckpoint
    <3>3. Undecided(accumulated, goal)
      <4>1. SubSeq(accumulated, 1, Len(accumulated)) = accumulated
        BY <1>6
      <4> QED BY <1>1, <2>3, <4>1 DEF Undecided, Clear
    <3>4. ASSUME NEW m \in Checkpoints, m < goal'
          PROVE  m <= Len(accumulated) /\ Undecided(accumulated, m)
      <4>1. CASE m = goal
        BY <1>1, <1>4, <3>3, <4>1
      <4>2. CASE m < goal
        BY <1>5, <4>2
      <4> QED BY <1>4, <3>2, <3>4, <4>1, <4>2
    <3>5. Len(accumulated) <= goal'
      BY <1>1, <1>4, <3>2
    <3> QED BY <1>1, <2>3, <3>2, <3>4, <3>5 DEF Decided
  <2> QED BY <1>2, <2>1, <2>2, <2>3
<1> QED BY <1>3, <1>7 DEF SeqInv

\* Every step of sequential_replay_mc keeps both.
LEMMA SeqKeep == ASSUME SeqInv, [SeqNext]_seqVars PROVE SeqInv'
<1>1. CASE UNCHANGED seqVars
  <2>1. UNCHANGED <<replay, blockSize, rng, position, accumulated, goal, verdict>>
    BY <1>1 DEF seqVars
  <2>2. BlockOf(replay)' = BlockOf(replay) /\ Blocks(replay)' = Blocks(replay)
    BY <2>1 DEF BlockOf, Blocks
  <2>3. Drawn'
    BY <2>1, <2>2 DEF SeqInv, Drawn
  <2>4. Decided'
    BY <2>1 DEF SeqInv, Decided
  <2> QED BY <2>3, <2>4 DEF SeqInv
<1> QED BY <1>1, SampleKeeps, CheckpointKeeps DEF SeqNext

\* When it stops, what is drawn is the batch, and the goal it stopped at is the first
\* clear checkpoint, or the last.
LEMMA SeqShows == ASSUME SeqInv PROVE SequentialIsBatch
<1>0. Drawn /\ Decided
  BY DEF SeqInv
<1> DEFINE n == Len(accumulated)
           batch == ReplayMonteCarlo(n)
<1>1. accumulated \in Seq(Outcomes) /\ n \in Nat
  BY <1>0 DEF Drawn
<1>2. batch = [k \in 1..n |-> PlayReplay(ResampleOf(replay, BlockOf(replay), Blocks(replay), rng, k))]
  BY DEF ReplayMonteCarlo, ResampleOf
<1>3. accumulated = [k \in 1..n |-> accumulated[k]]
  BY <1>1
<1>4. accumulated = batch
  <2>1. \A k \in 1..n :
          accumulated[k] = PlayReplay(ResampleOf(replay, BlockOf(replay), Blocks(replay), rng, k))
    BY <1>0 DEF Drawn
  <2> HIDE DEF n, batch
  <2> QED BY <1>2, <1>3, <2>1
<1> SUFFICES ASSUME verdict # "running"
             PROVE  /\ accumulated = batch /\ n \in Checkpoints
                    /\ verdict = "decision_clear" <=> DecisionClear(Summary(batch))
                    /\ verdict = "n_max" => n = NMax
                    /\ \A m \in Checkpoints : m < n => ~DecisionClear(Summary(SubSeq(batch, 1, m)))
  BY DEF SequentialIsBatch, Checkpoints
<1> HIDE DEF batch
<1>5. n = goal /\ n \in Checkpoints
  BY <1>0 DEF Decided
<1> QED BY <1>0, <1>4, <1>5 DEF Decided, Undecided

\* A Monte Carlo is its seeds and its inputs: neither the order its simulations run in,
\* on one strategy that remembers, nor the batches it is made of change what it reports.
THEOREM AlwaysReproduces == MCSpec => []SimulationsReproduce
<1>1. MCInit => SimsInv /\ SeqInv
  <2>1. MCInit => SimsInit /\ SeqInit
    BY DEF MCInit, SimsRest, SeqRests
  <2> QED BY <2>1, SimsBegin, SeqBegin
<1>2. SimsInv /\ SeqInv /\ [MCNext]_allVars => SimsInv' /\ SeqInv'
  <2> SUFFICES ASSUME SimsInv, SeqInv, [MCNext]_allVars PROVE SimsInv' /\ SeqInv'
    OBVIOUS
  <2>1. [SimsNext]_simsVars /\ [SeqNext]_seqVars
    BY DEF MCNext, ApexNext, LucidNext, AltFirmsNext, SimulationsNext, allVars, mcVars
  <2> QED BY <2>1, SimsKeep, SeqKeep
<1>3. SimsInv /\ SeqInv => SimulationsReproduce
  BY SeqShows DEF SimsInv, SimulationsReproduce
<1> QED BY <1>1, <1>2, <1>3, PTL DEF MCSpec, allVars

=============================================================================

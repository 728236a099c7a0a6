--------------------------- MODULE TopStep_proofs ---------------------------
(***************************************************************************)
(* Proofs about TopStepAccount for every ruleset RulesAssumption allows: its*)
(* type invariant, its two state invariants and its action properties, all *)
(* from one inductive invariant; and that its two drivers keep             *)
(* AttemptContract.                                                        *)
(***************************************************************************)
EXTENDS TopStepDrivers, FiniteSetTheorems, TLAPS

\* What the Combine leaves untouched: an account still (or again) in the Combine
\* has taken no payout and counted no XFA day.
CombineIsUnpaid ==
    phase \in {"combine", "combine_failed"} => payouts = 0 /\ days = 0 /\ winDays = 0

\* Every day counted towards a payout is a session closed since the last one.
DaysAreSessions == seen.sessions >= days /\ seen.sessions >= winDays

Safe == OpenAboveMll /\ MllIsTrailing /\ CombineIsUnpaid /\ DaysAreSessions
IInv == TypeOK /\ Safe

USE RulesAssumption

\* Higher and Lower are the maximum and the minimum, and stay among the integers.
LEMMA HigherLower ==
    ASSUME NEW a \in Int, NEW b \in Int
    PROVE  /\ Higher(a, b) \in Int /\ Higher(a, b) >= a /\ Higher(a, b) >= b
           /\ Higher(a, b) \in {a, b}
           /\ Lower(a, b) \in Int /\ Lower(a, b) <= a /\ Lower(a, b) <= b
           /\ Lower(a, b) \in {a, b}
BY DEF Higher, Lower

\* A close never lowers the MLL nor lifts it to the balance or over the lock.
LEMMA TrailBounds ==
    ASSUME TypeOK, NEW lock \in Int, mll <= lock
    PROVE  /\ Trail(balance, lock) \in Int
           /\ Trail(balance, lock) >= mll
           /\ Trail(balance, lock) <= lock
           /\ balance > mll => balance > Trail(balance, lock)
BY DEF Trail, Higher, Lower, TypeOK

\* A payout that is granted leaves a positive balance.
LEMMA PayoutLeavesProfit ==
    ASSUME TypeOK, PayoutEligible, GrossRequest >= PayoutMin
    PROVE  /\ GrossRequest \in Int
           /\ balance - GrossRequest > 0
           /\ GrossRequest > 0
<1>1. balance \in Int /\ balance > 0
  BY DEF TypeOK, PayoutEligible
<1>2. balance \div 2 \in Int /\ 2 * (balance \div 2) <= balance
  BY <1>1
<1>3. PayoutMax \in Int
  BY DEF PayoutMax
<1>4. GrossRequest \in Int /\ GrossRequest <= balance \div 2
  BY <1>2, <1>3 DEF GrossRequest, Lower
<1>5. GrossRequest > 0
  BY <1>4
<1> QED
  BY <1>1, <1>2, <1>4, <1>5

-----------------------------------------------------------------------------
(* The type invariant                                                        *)

SeenType == [high : Int, sessions : 0..(WinDays + ConsDays)]

\* TypeOK in two parts: the provers take the Boolean-valued variables and the
\* numbers apart.
Flags == opts \in [path : Paths, dll : BOOLEAN] /\ locked \in BOOLEAN
Amounts == phase \in Phases /\ balance \in Int /\ mll \in Int /\ day \in Int
Counters ==
    /\ best \in Nat /\ days \in 0..ConsDays /\ winDays \in 0..WinDays
    /\ payouts \in 0..MaxPayouts /\ resets \in 0..MaxResets
    /\ back2funded \in 0..MaxBack2Funded

\* TypeOK in four parts.
LEMMA TypeParts == TypeOK <=> Flags /\ Amounts /\ Counters /\ seen \in SeenType
BY DEF TypeOK, Flags, Amounts, Counters, SeenType

\* What `seen` starts over with has its type.
LEMMA FreshType == ASSUME NEW s \in Int PROVE Fresh(s) \in SeenType
BY DEF Fresh, SeenType

\* A new account has its type.
LEMMA InitType == Init => TypeOK
<1> SUFFICES ASSUME Init PROVE TypeOK
  OBVIOUS
<1>1. Flags
  BY DEF Init, Flags
<1>2. Amounts
  BY DEF Init, Amounts, Phases
<1>3. Counters
  BY DEF Init, Counters
<1>4. seen \in SeenType
  BY FreshType DEF Init
<1> QED
  BY <1>1, <1>2, <1>3, <1>4, TypeParts

\* _activate_xfa keeps the types, whoever calls it.
LEMMA ActivateType ==
    ASSUME TypeOK, ActivateXfa, UNCHANGED opts,
           payouts' \in 0..MaxPayouts, resets' \in 0..MaxResets,
           back2funded' \in 0..MaxBack2Funded
    PROVE  TypeOK'
<1>1. Flags'
  BY DEF TypeOK, ActivateXfa, Flags
<1>2. Amounts'
  BY DEF ActivateXfa, Amounts, Phases
<1>3. Counters'
  BY DEF ActivateXfa, Counters
<1>4. seen' \in SeenType
  BY FreshType DEF ActivateXfa
<1> QED
  BY <1>1, <1>2, <1>3, <1>4 DEF TypeOK, Flags, Amounts, Counters, SeenType

\* Every step keeps the type.
LEMMA NextType == TypeOK /\ [Next]_vars => TypeOK'
<1> SUFFICES ASSUME TypeOK, [Next]_vars PROVE TypeOK'
  OBVIOUS
<1>t. Flags /\ Amounts /\ Counters /\ seen \in SeenType
  BY TypeParts
<1>q. Flags' /\ Amounts' /\ Counters' /\ seen' \in SeenType => TypeOK'
  BY DEF TypeOK, Flags, Amounts, Counters, SeenType
<1>1. ASSUME NEW t \in Trades, Update(t) PROVE TypeOK'
  <2>1. t \in Int
    BY DEF Trades
  <2>2. CASE PassesCombine(t)
    BY <1>1, <2>2, ActivateType DEF Update, counts, TypeOK
  <2>3. CASE ~PassesCombine(t)
    <3>1. Flags'
      BY <1>1, <1>t, <2>3 DEF Update, ApplyTrade, Flags
    <3>2. Amounts'
      BY <1>1, <1>t, <2>1, <2>3 DEF Update, ApplyTrade, Amounts, Phases
    <3>3. Counters' /\ seen' \in SeenType
      BY <1>1, <1>t, <2>3 DEF Update, ApplyTrade, Counters, counts
    <3> QED
      BY <3>1, <3>2, <3>3, <1>q
  <2> QED
    BY <2>2, <2>3
<1>2. CASE CloseCombineDay
  <2>1. CASE ActivateXfa
    BY <1>2, <2>1, ActivateType DEF CloseCombineDay, counts, TypeOK
  <2>2. CASE ~ActivateXfa
    <3>1. Flags'
      BY <1>2, <1>t, <2>2 DEF CloseCombineDay, Flags
    <3>2. Amounts'
      BY <1>2, <1>t, <2>2 DEF CloseCombineDay, Amounts, Trail, Higher, Lower
    <3>3. Counters'
      BY <1>2, <1>t, <2>2 DEF CloseCombineDay, Amounts, Counters, counts, Higher
    <3>4. Higher(seen.high, balance) \in Int
      BY <1>t DEF Amounts, SeenType, Higher
    <3>5. seen' \in SeenType
      BY <1>2, <1>t, <2>2, <3>4 DEF CloseCombineDay, SeenType
    <3> QED
      BY <3>1, <3>2, <3>3, <3>5, <1>q
  <2> QED
    BY <2>1, <2>2
<1>3. CASE CloseXfaDay
  <2>1. Flags'
    BY <1>3, <1>t DEF CloseXfaDay, Flags
  <2>2. Amounts'
    BY <1>3, <1>t DEF CloseXfaDay, Amounts, Trail, Higher, Lower
  <2>3. Counters'
    BY <1>3, <1>t DEF CloseXfaDay, Amounts, Counters, counts, Higher, Lower
  <2>4. /\ Higher(seen.high, balance) \in Int
        /\ Lower(seen.sessions + 1, WinDays + ConsDays) \in 0..(WinDays + ConsDays)
    BY <1>t DEF Amounts, SeenType, Higher, Lower
  <2>5. seen' \in SeenType
    BY <1>3, <1>t, <2>4 DEF CloseXfaDay, SeenType
  <2> QED
    BY <2>1, <2>2, <2>3, <2>5, <1>q
<1>4. CASE CloseTerminalDay
  <2>1. Flags'
    BY <1>4, <1>t DEF CloseTerminalDay, Flags
  <2>2. Amounts' /\ Counters' /\ seen' \in SeenType
    BY <1>4, <1>t DEF CloseTerminalDay, Amounts, Counters, counts
  <2> QED
    BY <2>1, <2>2, <1>q
<1>5. CASE RequestPayout
  <2>0. PayoutEligible /\ GrossRequest >= PayoutMin /\ balance' = balance - GrossRequest
    BY <1>5 DEF RequestPayout
  <2>6. GrossRequest \in Int
    BY <2>0, PayoutLeavesProfit
  <2>1. balance' \in Int
    BY <1>t, <2>0, <2>6 DEF Amounts
  <2>2. Flags'
    BY <1>5, <1>t DEF RequestPayout, Flags
  <2>3. Amounts'
    BY <1>5, <1>t, <2>1 DEF RequestPayout, Amounts, Phases
  <2>4. Counters'
    BY <1>5, <1>t DEF RequestPayout, Counters, Amounts
  <2>7. seen' = [high |-> seen.high, sessions |-> 0]
    BY <1>5 DEF RequestPayout
  <2>5. seen' \in SeenType
    BY <1>t, <2>1, <2>0, <2>7 DEF SeenType
  <2> QED
    BY <2>2, <2>3, <2>4, <2>5, <1>q
<1>6. CASE AttemptReset
  <2>1. Flags'
    BY <1>6, <1>t DEF AttemptReset, Flags
  <2>2. Amounts' /\ Counters'
    BY <1>6, <1>t DEF AttemptReset, Amounts, Counters, Phases
  <2>3. seen' \in SeenType
    BY <1>6, FreshType DEF AttemptReset
  <2> QED
    BY <2>1, <2>2, <2>3, <1>q
<1>7. CASE AttemptBack2Funded
  <2>1. /\ payouts' \in 0..MaxPayouts /\ resets' \in 0..MaxResets
        /\ back2funded' \in 0..MaxBack2Funded
    BY <1>7, <1>t DEF AttemptBack2Funded, Counters
  <2> QED
    BY <1>7, <2>1, ActivateType DEF AttemptBack2Funded
<1>8. CASE UNCHANGED vars
  BY <1>8 DEF vars, session, counts, TypeOK
<1> QED
  BY <1>1, <1>2, <1>3, <1>4, <1>5, <1>6, <1>7, <1>8 DEF Next, CloseDay

\* Every variable keeps its type, for every ruleset.
THEOREM TypeCorrect == Spec => []TypeOK
BY InitType, NextType, PTL DEF Spec

-----------------------------------------------------------------------------
(* The inductive invariant                                                   *)

\* A new account satisfies the invariant.
LEMMA InitInv == Init => IInv
<1> SUFFICES ASSUME Init PROVE IInv
  OBVIOUS
<1>1. OpenAboveMll /\ CombineIsUnpaid
  BY DEF Init, OpenAboveMll, CombineIsUnpaid, Active
<1>2. MllIsTrailing /\ DaysAreSessions
  BY DEF Init, MllIsTrailing, DaysAreSessions, StartOf, Fresh, Lower
<1> QED
  BY <1>1, <1>2, InitType DEF IInv, Safe

\* A fresh XFA satisfies the invariant: reached from the Combine, or by
\* Back2Funded from an XFA that took no payout.
LEMMA ActivateInv ==
    ASSUME ActivateXfa, payouts' = 0
    PROVE  Safe'
<1>1. (OpenAboveMll /\ CombineIsUnpaid)'
  BY DEF ActivateXfa, OpenAboveMll, CombineIsUnpaid, Active
<1>2. MllIsTrailing'
  BY DEF ActivateXfa, MllIsTrailing, StartOf, Fresh, Lower
<1>3. DaysAreSessions'
  BY DEF ActivateXfa, DaysAreSessions, Fresh
<1> QED
  BY <1>1, <1>2, <1>3 DEF Safe

\* A close keeps the MLL equal to its closed form, whichever lock applies.
LEMMA TrailIsClosedForm ==
    ASSUME NEW lock \in Int, NEW m \in Int, NEW b \in Int, NEW h \in Int
    PROVE  m = Lower(lock, h - MaxLoss)
             => Higher(m, Lower(b - MaxLoss, lock)) = Lower(lock, Higher(h, b) - MaxLoss)
BY DEF Higher, Lower

\* The same in the XFA, before and after the first payout.
LEMMA TrailIsClosedFormXfa ==
    ASSUME NEW m \in Int, NEW b \in Int, NEW h \in Int
    PROVE  /\ m = Lower(0, h - MaxLoss)
                => Higher(m, Lower(b - MaxLoss, 0)) = Lower(0, Higher(h, b) - MaxLoss)
           /\ m = 0 => Higher(m, Lower(b - MaxLoss, 0)) = 0
BY DEF Higher, Lower

\* Every step keeps the safety part of the invariant.
LEMMA NextSafe == IInv /\ [Next]_vars => Safe'
<1> SUFFICES ASSUME IInv, [Next]_vars PROVE Safe'
  OBVIOUS
<1>t. Flags /\ Amounts /\ Counters /\ seen \in SeenType /\ TypeOK
  BY TypeParts DEF IInv
<1>i. OpenAboveMll /\ MllIsTrailing /\ CombineIsUnpaid /\ DaysAreSessions
  BY DEF IInv, Safe
<1>s. seen.high \in Int /\ seen.sessions \in Int
  BY <1>t DEF SeenType
<1>1. ASSUME NEW t \in Trades, Update(t) PROVE Safe'
  <2>1. t \in Int
    BY DEF Trades
  <2>2. CASE PassesCombine(t)
    <3>1. ActivateXfa /\ payouts' = 0
      BY <1>1, <1>i, <2>2 DEF Update, counts, PassesCombine, CombineIsUnpaid
    <3> QED
      BY <3>1, ActivateInv
  <2>3. CASE ~PassesCombine(t)
    <3>1. /\ ApplyTrade(t) /\ phase \in Active /\ UNCHANGED payouts
      BY <1>1, <2>3 DEF Update, counts
    <3>2. OpenAboveMll' /\ StartOf(phase') = StartOf(phase)
      BY <1>t, <2>1, <3>1 DEF ApplyTrade, OpenAboveMll, Active, Amounts, StartOf
    <3>3. MllIsTrailing'
      BY <1>i, <3>1, <3>2 DEF ApplyTrade, MllIsTrailing
    <3>4. CombineIsUnpaid' /\ DaysAreSessions'
      BY <1>i, <3>1 DEF ApplyTrade, Active, CombineIsUnpaid, DaysAreSessions
    <3> QED
      BY <3>2, <3>3, <3>4 DEF Safe
  <2> QED
    BY <2>2, <2>3
<1>2. CASE CloseCombineDay
  <2> DEFINE passes == CombineCanPass(balance, Higher(best, day), 0)
  <2>0. phase = "combine" /\ payouts' = 0 /\ payouts = 0
    BY <1>2, <1>i DEF CloseCombineDay, counts, CombineIsUnpaid
  <2>1. CASE passes
    BY <1>2, <2>0, <2>1, ActivateInv DEF CloseCombineDay
  <2>2. CASE ~passes
    <3>1. /\ mll' = Trail(balance, Start)
          /\ seen' = [seen EXCEPT !.high = Higher(seen.high, balance)]
          /\ UNCHANGED <<phase, balance, days, winDays>>
      BY <1>2, <2>2 DEF CloseCombineDay
    <3>2. mll = Lower(Start, seen.high - MaxLoss)
      BY <1>i, <2>0 DEF MllIsTrailing, StartOf
    <3>3. mll <= Start
      BY <1>s, <3>2, HigherLower
    <3>4. OpenAboveMll'
      BY <1>t, <1>i, <3>1, <3>3, TrailBounds DEF OpenAboveMll
    <3>5. seen'.high = Higher(seen.high, balance) /\ seen'.sessions = seen.sessions
      BY <1>t, <3>1 DEF SeenType
    <3>6. MllIsTrailing'
      <4>1. mll' = Lower(Start, Higher(seen.high, balance) - MaxLoss)
        BY <1>t, <1>s, <3>1, <3>2, TrailIsClosedForm DEF Amounts, Trail
      <4> QED
        BY <2>0, <3>1, <3>5, <4>1 DEF MllIsTrailing, StartOf
    <3>7. CombineIsUnpaid' /\ DaysAreSessions'
      BY <1>i, <2>0, <3>1, <3>5 DEF CombineIsUnpaid, DaysAreSessions
    <3> QED
      BY <3>4, <3>6, <3>7 DEF Safe
  <2> QED
    BY <2>1, <2>2
<1>3. CASE CloseXfaDay
  <2>1. /\ mll' = Trail(balance, 0) /\ phase = "xfa" /\ UNCHANGED <<phase, balance, payouts>>
        /\ seen' = [seen EXCEPT !.high = Higher(seen.high, balance),
                                !.sessions = Lower(seen.sessions + 1, WinDays + ConsDays)]
    BY <1>3 DEF CloseXfaDay, counts
  <2>2. mll = IF payouts > 0 THEN 0 ELSE Lower(0, seen.high - MaxLoss)
    BY <1>i, <2>1 DEF MllIsTrailing, StartOf
  <2>3. mll <= 0
    BY <1>s, <2>2 DEF Lower
  <2>4. OpenAboveMll'
    BY <1>t, <1>i, <2>1, <2>3, TrailBounds DEF OpenAboveMll
  <2>5. /\ seen'.high = Higher(seen.high, balance)
        /\ seen'.sessions = Lower(seen.sessions + 1, WinDays + ConsDays)
    BY <1>t, <2>1 DEF SeenType
  <2>6. MllIsTrailing'
    <3>1. mll' = IF payouts > 0 THEN 0 ELSE Lower(0, Higher(seen.high, balance) - MaxLoss)
      <4>1. CASE payouts > 0
        BY <1>t, <1>s, <2>1, <2>2, <4>1, TrailIsClosedFormXfa DEF Amounts, Trail
      <4>2. CASE ~(payouts > 0)
        <5>1. mll = Lower(0, seen.high - MaxLoss)
          BY <2>2, <4>2
        <5> QED
          BY <1>t, <1>s, <2>1, <4>2, <5>1, TrailIsClosedFormXfa DEF Amounts, Trail
      <4> QED
        BY <4>1, <4>2
    <3> QED
      BY <2>1, <2>5, <3>1 DEF MllIsTrailing, StartOf
  <2>7. DaysAreSessions'
    BY <1>3, <1>t, <1>i, <1>s, <2>5 DEF CloseXfaDay, DaysAreSessions, Lower, Counters
  <2>8. CombineIsUnpaid'
    BY <2>1 DEF CombineIsUnpaid
  <2> QED
    BY <2>4, <2>6, <2>7, <2>8 DEF Safe
<1>4. CASE CloseTerminalDay
  BY <1>4, <1>i DEF CloseTerminalDay, counts, OpenAboveMll, MllIsTrailing,
                    CombineIsUnpaid, DaysAreSessions, Safe
<1>5. CASE RequestPayout
  <2>1. PayoutEligible /\ GrossRequest >= PayoutMin
    BY <1>5 DEF RequestPayout
  <2>2. balance' > 0 /\ mll' = 0
    BY <1>5, <1>t, <2>1, PayoutLeavesProfit DEF RequestPayout
  <2>3. phase' = "xfa" /\ payouts' > 0
    BY <1>5, <1>t, <2>2 DEF RequestPayout, Counters
  <2>4. OpenAboveMll' /\ MllIsTrailing' /\ CombineIsUnpaid'
    BY <2>2, <2>3 DEF OpenAboveMll, MllIsTrailing, CombineIsUnpaid
  <2>5. DaysAreSessions'
    BY <1>5 DEF RequestPayout, DaysAreSessions
  <2> QED
    BY <2>4, <2>5 DEF Safe
<1>6. CASE AttemptReset
  <2>1. /\ phase = "combine_failed" /\ phase' = "combine" /\ balance' = Start
        /\ mll' = Start - MaxLoss /\ seen' = Fresh(Start)
        /\ UNCHANGED <<days, winDays, payouts>>
    BY <1>6 DEF AttemptReset
  <2>2. OpenAboveMll' /\ CombineIsUnpaid'
    BY <1>i, <2>1 DEF OpenAboveMll, CombineIsUnpaid
  <2>3. MllIsTrailing' /\ DaysAreSessions'
    BY <1>i, <2>1 DEF MllIsTrailing, DaysAreSessions, CombineIsUnpaid, StartOf, Fresh, Lower
  <2> QED
    BY <2>2, <2>3 DEF Safe
<1>7. CASE AttemptBack2Funded
  BY <1>7, ActivateInv DEF AttemptBack2Funded
<1>8. CASE UNCHANGED vars
  BY <1>8, <1>i DEF vars, session, counts, OpenAboveMll, MllIsTrailing,
                    CombineIsUnpaid, DaysAreSessions, Safe
<1> QED
  BY <1>1, <1>2, <1>3, <1>4, <1>5, <1>6, <1>7, <1>8 DEF Next, CloseDay

\* Every step keeps the invariant.
LEMMA NextInv == IInv /\ [Next]_vars => IInv'
BY NextType, NextSafe DEF IInv

-----------------------------------------------------------------------------
(* The theorems                                                              *)

\* The invariant holds in every reachable state.
LEMMA Invariance == Spec => []IInv
BY InitInv, NextInv, PTL DEF Spec

\* Whatever trades, closes, payouts, resets and reactivations came before, an
\* account that may trade is above its MLL.
THEOREM OpenAlwaysAboveMll == Spec => []OpenAboveMll
<1>1. IInv => OpenAboveMll
  BY DEF IInv, Safe
<1> QED
  BY <1>1, Invariance, PTL

\* The MLL is the published trailing formula of the highest close, at all times.
THEOREM MllIsAlwaysTrailing == Spec => []MllIsTrailing
<1>1. IInv => MllIsTrailing
  BY DEF IInv, Safe
<1> QED
  BY <1>1, Invariance, PTL

\* The MLL of a living account never falls: not by a close, and not by the payout
\* that overwrites it with 0.
LEMMA MllRatchets ==
    ASSUME IInv, Next, phase' = phase, phase \in Active
    PROVE  mll' >= mll
<1>t. Amounts /\ seen \in SeenType /\ TypeOK
  BY TypeParts DEF IInv
<1>s. seen.high \in Int
  BY <1>t DEF SeenType
<1>b. mll <= StartOf(phase)
  BY <1>s DEF IInv, Safe, MllIsTrailing, StartOf, Lower, Active, CombineIsUnpaid
<1>1. CASE \E t \in Trades : Update(t)
  <2>1. mll' = mll
    BY <1>1 DEF Update, ApplyTrade, ActivateXfa, PassesCombine
  <2> QED
    BY <1>t, <2>1 DEF Amounts
<1>2. CASE CloseDay
  <2>1. mll' = Trail(balance, StartOf(phase))
    BY <1>2 DEF CloseDay, CloseCombineDay, CloseXfaDay, CloseTerminalDay, StartOf, ActivateXfa
  <2>2. StartOf(phase) \in Int
    BY DEF StartOf
  <2> QED
    BY <1>t, <1>b, <2>1, <2>2, TrailBounds
<1>3. CASE RequestPayout
  BY <1>3, <1>b, <1>t DEF RequestPayout, StartOf, Amounts
<1>4. CASE AttemptReset \/ AttemptBack2Funded
  BY <1>4 DEF AttemptReset, AttemptBack2Funded, Active
<1> QED
  BY <1>1, <1>2, <1>3, <1>4 DEF Next

\* What a step of the account is for TrailingAccount: a trade or a close is a
\* Trade, the activation a Pass or, for Back2Funded, a Restart.
LEMMA StepTrails == IInv /\ IInv' /\ Next => [Trailing!Next]_(Trailing!vars)
<1> SUFFICES ASSUME IInv, IInv', Next PROVE [Trailing!Next]_(Trailing!vars)
  OBVIOUS
<1>t. Amounts /\ Counters /\ TypeOK /\ CombineIsUnpaid
  BY TypeParts DEF IInv, Safe
<1>o. (phase \in Active => balance > mll) /\ (phase' \in Active => balance' > mll')
  BY DEF IInv, Safe, OpenAboveMll
<1>1. ASSUME phase = "combine", ActivateXfa, UNCHANGED payouts PROVE Trailing!Next
  BY <1>1, <1>o DEF ActivateXfa, Active, Trailing!Next, Trailing!Pass, Trailing!Fresh
<1>2. ASSUME NEW t \in Trades, Update(t) PROVE Trailing!Next
  <2>1. CASE PassesCombine(t)
    BY <1>1, <1>2, <2>1 DEF Update, PassesCombine, counts
  <2>2. CASE ~PassesCombine(t)
    <3>1. ApplyTrade(t) /\ phase \in Active /\ UNCHANGED payouts
      BY <1>2, <2>2 DEF Update, counts
    <3>2. mll' >= mll
      BY <1>t, <3>1 DEF ApplyTrade, Amounts
    <3>3. (phase' \in Active) = (balance' > mll')
      BY <3>1 DEF ApplyTrade, Active
    <3>4. (phase' \in {"xfa", "xfa_closed"}) = (phase \in {"xfa", "xfa_closed"})
      BY <3>1 DEF ApplyTrade, Active
    <3> QED
      BY <3>1, <3>2, <3>3, <3>4 DEF Trailing!Next, Trailing!Trade
  <2> QED
    BY <2>1, <2>2
<1>3. CASE CloseCombineDay /\ ActivateXfa
  BY <1>1, <1>3 DEF CloseCombineDay, counts
<1>4. CASE (CloseCombineDay /\ ~ActivateXfa) \/ CloseXfaDay
  <2>1. phase' = phase /\ phase \in Active /\ UNCHANGED payouts
    BY <1>4 DEF CloseCombineDay, CloseXfaDay, counts, Active
  <2>2. mll' >= mll
    BY <2>1, MllRatchets
  <2> QED
    BY <1>o, <2>1, <2>2 DEF Trailing!Next, Trailing!Trade
<1>5. CASE CloseTerminalDay
  BY <1>5 DEF CloseTerminalDay, counts, Trailing!vars
<1>6. CASE RequestPayout
  <2>1. PayoutEligible /\ GrossRequest >= PayoutMin /\ balance' = balance - GrossRequest
    BY <1>6 DEF RequestPayout
  <2>2. balance' > 0 /\ balance' < balance /\ mll' = 0
    BY <1>6, <1>t, <2>1, PayoutLeavesProfit DEF RequestPayout, Amounts
  <2>3. phase = "xfa" /\ phase' = "xfa" /\ payouts' = payouts + 1
    BY <1>6, <2>2 DEF RequestPayout
  <2>4. mll' >= mll
    BY <2>3, MllRatchets DEF Active
  <2> QED
    BY <1>o, <2>2, <2>3, <2>4 DEF Active, Trailing!Next, Trailing!Payout
<1>7. CASE AttemptReset
  <2>1. /\ phase = "combine_failed" /\ phase' = "combine" /\ UNCHANGED payouts
        /\ payouts = 0
    BY <1>7, <1>t DEF AttemptReset, CombineIsUnpaid
  <2> QED
    BY <1>o, <2>1 DEF Active, Trailing!Next, Trailing!Restart, Trailing!Fresh
<1>8. CASE AttemptBack2Funded
  <2>1. phase = "xfa_closed" /\ phase' = "xfa" /\ UNCHANGED payouts /\ payouts = 0
    BY <1>8 DEF AttemptBack2Funded, ActivateXfa
  <2> QED
    BY <1>o, <2>1 DEF Active, Trailing!Next, Trailing!Restart, Trailing!Fresh
<1> QED
  BY <1>2, <1>3, <1>4, <1>5, <1>6, <1>7, <1>8 DEF Next, CloseDay

\* Through every sequence of trades, closes, payouts, resets and reactivations the
\* account behaves as TrailingAccount specifies.
THEOREM ImplementsTrailing == Spec => Trails
<1>1. Init => Trailing!Init
  BY DEF Init, Active, Trailing!Init
<1>2. IInv /\ IInv' /\ [Next]_vars => [Trailing!Next]_(Trailing!vars)
  <2>1. UNCHANGED vars => UNCHANGED Trailing!vars
    BY DEF vars, counts, Trailing!vars
  <2> QED
    BY <2>1, StepTrails
<1> QED
  BY <1>1, <1>2, Invariance, PTL DEF Spec, Trails, Trailing!Spec

\* request_payout never closes the account it pays from.
THEOREM PayoutNeverCloses == Spec => PayoutKeepsOpen
<1>1. IInv /\ [Next]_vars
        => [payouts' > payouts => phase' = "xfa" /\ balance' > mll']_vars
  <2> SUFFICES ASSUME IInv, Next, payouts' > payouts
               PROVE  phase' = "xfa" /\ balance' > mll'
    OBVIOUS
  <2>t. Counters /\ TypeOK
    BY TypeParts DEF IInv
  <2>1. CASE RequestPayout
    <3>1. PayoutEligible /\ GrossRequest >= PayoutMin
      BY <2>1 DEF RequestPayout
    <3>2. balance' > 0 /\ mll' = 0
      BY <2>1, <2>t, <3>1, PayoutLeavesProfit DEF RequestPayout
    <3> QED
      BY <2>1, <3>2 DEF RequestPayout
  <2>2. CASE ~RequestPayout
    <3>1. payouts' = payouts
      BY <2>2 DEF Next, Update, CloseDay, CloseCombineDay, CloseXfaDay, CloseTerminalDay,
                  AttemptReset, AttemptBack2Funded, counts
    <3> QED
      BY <2>t, <3>1 DEF Counters
  <2> QED
    BY <2>1, <2>2
<1> QED
  BY <1>1, Invariance, PTL DEF Spec, PayoutKeepsOpen

\* No payout is granted on sessions an earlier payout was already granted on.
THEOREM PayoutAlwaysEarned == Spec => PayoutIsEarned
<1> DEFINE Needed == IF opts.path = "standard" THEN WinDays ELSE ConsDays
<1>1. IInv /\ [Next]_vars => [payouts' > payouts => seen.sessions >= Needed]_vars
  <2> SUFFICES ASSUME IInv, Next, payouts' > payouts PROVE seen.sessions >= Needed
    OBVIOUS
  <2>t. Counters /\ seen \in SeenType /\ DaysAreSessions
    BY TypeParts DEF IInv, Safe
  <2>1. CASE RequestPayout
    <3>1. PayoutEligible
      BY <2>1 DEF RequestPayout
    <3>2. seen.sessions \in Int
      BY <2>t DEF SeenType
    <3>3. CASE opts.path = "standard"
      BY <2>t, <3>1, <3>2, <3>3 DEF PayoutEligible, DaysAreSessions, Counters
    <3>4. CASE opts.path # "standard"
      BY <2>t, <3>1, <3>2, <3>4 DEF PayoutEligible, DaysAreSessions, Counters
    <3> QED
      BY <3>3, <3>4
  <2>2. CASE ~RequestPayout
    <3>1. payouts' = payouts
      BY <2>2 DEF Next, Update, CloseDay, CloseCombineDay, CloseXfaDay, CloseTerminalDay,
                  AttemptReset, AttemptBack2Funded, counts
    <3> QED
      BY <2>t, <3>1 DEF Counters
  <2> QED
    BY <2>1, <2>2
<1> QED
  BY <1>1, Invariance, PTL DEF Spec, PayoutIsEarned

-----------------------------------------------------------------------------
(* The drivers                                                               *)

HIDE RulesAssumption

Steps == {"day", "trades", "close", "payout", "dead", "done"}

\* Where a driver is, what the result says and what phase the account is in agree; a
\* session begins, and a payout is asked for, on an account that trades.
DriverInv ==
    /\ at = "hand" \/ (at \in Steps /\ driver # "hand")
    /\ gross \in Int
    /\ at \in {"day", "trades", "close", "payout", "dead"} => result = IF Funded THEN {"passed"} ELSE {}
    /\ at \in {"day", "trades", "payout"} => phase \in Active /\ ~locked
    /\ at = "close" => phase \in Active
    /\ at = "payout" => phase = "xfa"
    /\ at = "dead" => phase = "xfa_closed"

\* The status of an account by its phase and its lock, before and after a step.
LEMMA StatusOf ==
    /\ phase \notin Active => Status = "breached"
    /\ phase \in Active /\ locked => Status = "locked"
    /\ phase \in Active /\ ~locked => Status = "open"
    /\ Funded <=> phase \in {"xfa", "xfa_closed"}
<1>1. phase \notin Active => Status = "breached"
  BY DEF Status
<1>2. phase \in Active /\ locked => Status = "locked"
  BY DEF Status
<1>3. phase \in Active /\ ~locked => Status = "open"
  BY DEF Status
<1> QED BY <1>1, <1>2, <1>3 DEF Funded

\* The only flag besides "passed" is the reason.
LEMMA OneReason ==
    ASSUME NEW flags, NEW r \in Contract!Reasons,
           flags = {r} \/ flags = {"passed", r}
    PROVE  flags \ {"passed"} = {r} /\ Contract!Cardinality({r}) = 1
<1>1. r # "passed"
  BY DEF Contract!Reasons
<1>2. Cardinality({r}) = 1
  BY FS_Singleton
<1>3. Contract!Cardinality({r}) = Cardinality({r})
  BY DEF Contract!Cardinality, Cardinality
<1> QED BY <1>1, <1>2, <1>3

\* What a trade may make of the account.
LEMMA TradeEffect ==
    ASSUME TypeOK, NEW t \in Trades, Update(t)
    PROVE  /\ payouts' = payouts /\ phase \in Active /\ ~locked
           /\ \/ phase' = phase
              \/ ~locked' /\ phase = "combine" /\ phase' \in {"xfa", "combine_failed"}
              \/ ~locked' /\ phase = "xfa" /\ phase' = "xfa_closed"
<1>1. CASE PassesCombine(t)
  BY <1>1 DEF Update, PassesCombine, ActivateXfa, counts
<1>2. CASE ~PassesCombine(t)
  BY <1>2 DEF Update, ApplyTrade, counts, Active
<1> QED BY <1>1, <1>2

\* What a close may make of an account that is not over.
LEMMA CloseEffect ==
    ASSUME CloseDay, phase \in Active
    PROVE  /\ payouts' = payouts /\ ~locked'
           /\ phase = "combine" => phase' \in {"combine", "xfa"}
           /\ phase = "xfa" => phase' = "xfa"
BY DEF CloseDay, CloseCombineDay, CloseXfaDay, CloseTerminalDay, ActivateXfa, counts, Active

\* What a payout makes of it: request_payout never closes it.
LEMMA PayoutEffect ==
    ASSUME TypeOK, RequestPayout
    PROVE  /\ payouts' = payouts + 1 /\ phase' = "xfa" /\ locked' = locked
           /\ balance - balance' \in Int /\ balance - balance' > 0
<1>1. GrossRequest \in Int /\ balance - GrossRequest > 0 /\ GrossRequest > 0 /\ balance \in Int
  BY PayoutLeavesProfit DEF RequestPayout, TypeOK
<1> QED BY <1>1 DEF RequestPayout

\* A driver goes on, without a flag or with one.
LEMMA GotoEffect ==
    ASSUME NEW step, NEW flags, Goto(step, flags)
    PROVE  at' = step /\ result' = result \union flags /\ driver' = driver
BY DEF Goto

-----------------------------------------------------------------------------
(* Kinds of steps: each keeps DriverInv and is a step of AttemptContract      *)

Kept == DriverInv' /\ Contract!Next

\* A session begins.
LEMMA Begins ==
    ASSUME DriverInv, at = "day", at' = "trades", driver # "hand", driver' = driver,
           UNCHANGED <<account, gross, result>>
    PROVE  Kept
<1>1. phase' = phase /\ locked' = locked /\ payouts' = payouts
  BY DEF account, vars, session, counts
<1>2. Status = "open" /\ Status' = Status /\ Funded' = Funded
  BY <1>1, StatusOf DEF DriverInv, Status, Funded
<1>3. DriverInv'
  BY <1>1, <1>2 DEF DriverInv, Steps
<1>4. Contract!Begin
  BY <1>1, <1>2 DEF Contract!Begin
<1> QED BY <1>3, <1>4 DEF Kept, Contract!Next

\* A trade after which the session goes on, or is over.
LEMMA Trades1 ==
    ASSUME DriverInv, at = "trades", at' \in {"trades", "close"}, driver # "hand", driver' = driver,
           phase' = phase, at' = "trades" => ~locked',
           UNCHANGED <<payouts, gross, result>>
    PROVE  Kept
<1>1. Status = "open" /\ Funded' = Funded /\ phase \in Active
  BY StatusOf DEF DriverInv, Funded
<1>2. Status' \in {"open", "locked"} /\ (at' = "trades" => Status' = "open")
  BY <1>1 DEF Status
<1>3. DriverInv'
  BY <1>1 DEF DriverInv, Steps
<1>4. Contract!Trade
  BY <1>1, <1>2 DEF Contract!Trade
<1> QED BY <1>3, <1>4 DEF Kept, Contract!Next

\* A trade that passes the Combine.
LEMMA TradePasses ==
    ASSUME DriverInv, at = "trades", at' = "day", driver # "hand", driver' = driver,
           phase = "combine", phase' = "xfa", ~locked', result' = result \union {"passed"},
           UNCHANGED <<payouts, gross>>
    PROVE  Kept
<1>1. Status = "open" /\ ~Funded /\ Funded' /\ result = {}
  BY StatusOf DEF DriverInv, Funded
<1>2. Status' = "open" /\ result' = {"passed"}
  BY <1>1 DEF Status, Active
<1>3. DriverInv'
  BY <1>1, <1>2 DEF DriverInv, Steps, Active
<1>4. Contract!Trade
  BY <1>1, <1>2 DEF Contract!Trade
<1> QED BY <1>3, <1>4 DEF Kept, Contract!Next

\* A trade that closes the XFA.
LEMMA TradeCloses ==
    ASSUME DriverInv, at = "trades", at' = "dead", driver # "hand", driver' = driver,
           phase = "xfa", phase' = "xfa_closed",
           UNCHANGED <<payouts, gross, result>>
    PROVE  Kept
<1>1. Status = "open" /\ Funded /\ Funded'
  BY StatusOf DEF DriverInv, Funded
<1>2. Status' = "breached"
  BY DEF Status, Active
<1>3. DriverInv'
  BY <1>1 DEF DriverInv, Steps
<1>4. Contract!Trade
  BY <1>1, <1>2 DEF Contract!Trade
<1> QED BY <1>3, <1>4 DEF Kept, Contract!Next

\* The close of a day.
LEMMA Closes ==
    ASSUME DriverInv, at = "close", driver # "hand", driver' = driver, CloseDay,
           at' = IF phase = "xfa" THEN "payout" ELSE "day",
           result' = result \union IF phase' = "xfa" THEN {"passed"} ELSE {},
           UNCHANGED gross
    PROVE  Kept
<1>1. /\ phase \in Active /\ payouts' = payouts /\ ~locked'
      /\ phase' \in Active /\ (phase = "xfa" => phase' = "xfa")
  BY CloseEffect DEF DriverInv, Active
<1>2. Status' = "open" /\ (Funded <=> phase = "xfa") /\ (Funded' <=> phase' = "xfa")
  BY <1>1 DEF Status, Funded, Active
<1>3. result' = IF Funded' THEN {"passed"} ELSE {}
  BY <1>1, <1>2 DEF DriverInv
<1>4. DriverInv'
  BY <1>1, <1>2, <1>3 DEF DriverInv, Steps
<1>5. Contract!Close
  BY <1>1, <1>2, <1>3 DEF Contract!Close
<1> QED BY <1>4, <1>5 DEF Kept, Contract!Next

\* A payout that is refused.
LEMMA PaysNot ==
    ASSUME DriverInv, at = "payout", at' = "day", driver # "hand", driver' = driver,
           phase' = "xfa", locked' = locked, result' = result, payouts' = payouts, gross' = gross
    PROVE  Kept
<1>1. Status = "open" /\ Funded /\ Status' = "open" /\ Funded'
  BY StatusOf DEF DriverInv, Funded, Status, Active
<1>2. DriverInv'
  BY <1>1 DEF DriverInv, Steps, Active
<1>3. Contract!Payout
  BY <1>1 DEF Contract!Payout, Contract!Paid
<1> QED BY <1>2, <1>3 DEF Kept, Contract!Next

\* A payout that is paid, and does not end the attempt.
LEMMA Pays ==
    ASSUME DriverInv, at = "payout", at' = "day", driver # "hand", driver' = driver,
           phase' = "xfa", locked' = locked, result' = result,
           payouts' = payouts + 1, gross' > gross, gross' \in Int
    PROVE  Kept
<1>1. Status = "open" /\ Funded /\ Status' = "open" /\ Funded'
  BY StatusOf DEF DriverInv, Funded, Status, Active
<1>2. DriverInv'
  BY <1>1 DEF DriverInv, Steps, Active
<1>3. Contract!Payout
  BY <1>1 DEF Contract!Payout, Contract!Paid
<1> QED BY <1>2, <1>3 DEF Kept, Contract!Next

\* A reactivation.
LEMMA Reactivates ==
    ASSUME TypeOK, DriverInv, at = "dead", at' = "day", driver # "hand", driver' = driver,
           AttemptBack2Funded, UNCHANGED <<gross, result>>
    PROVE  Kept
<1>1. phase' = "xfa" /\ ~locked' /\ payouts' = payouts /\ payouts = 0 /\ phase = "xfa_closed"
  BY DEF AttemptBack2Funded, ActivateXfa
<1>2. Funded /\ Funded' /\ Status' = "open"
  BY <1>1 DEF Funded, Status, Active
<1>3. DriverInv'
  BY <1>1, <1>2 DEF DriverInv, Steps, Active
<1>4. Contract!Reactivate
  BY <1>1, <1>2 DEF Contract!Reactivate
<1> QED BY <1>3, <1>4 DEF Kept, Contract!Next

\* The end of the attempt, for one reason.
LEMMA Finishes ==
    ASSUME DriverInv, at \in {"day", "trades", "payout", "dead"}, at' = "done",
           driver # "hand", driver' = driver, Funded' = Funded,
           NEW r \in Contract!Reasons, result' = result \union {r},
           \/ UNCHANGED <<payouts, gross>> /\ gross' \in Int
           \/ at = "payout" /\ payouts' = payouts + 1 /\ gross' > gross /\ gross' \in Int,
           Funded <=> r \notin {"eval_breach", "eval_timeout"},
           Status' = "breached" <=> r \in {"eval_breach", "closed"},
           Status' # "retired"
    PROVE  Kept
<1>1. result' = IF Funded THEN {"passed", r} ELSE {r}
  BY DEF DriverInv
<1>2. result' \ {"passed"} = {r} /\ Contract!Cardinality({r}) = 1 /\ r # "passed"
  BY <1>1, OneReason DEF Contract!Reasons
<1>3. "passed" \in result' <=> Funded'
  BY <1>1, <1>2
<1>4. Contract!Verdict(result' \ {"passed"}, Funded', Status')
  <2>1. /\ {r} \cap {"eval_breach", "eval_timeout"} = {} <=> r \notin {"eval_breach", "eval_timeout"}
        /\ {r} \cap {"eval_breach", "closed"} # {} <=> r \in {"eval_breach", "closed"}
        /\ {r} \subseteq Contract!Reasons
    OBVIOUS
  <2>2. Funded' <=> {r} \cap {"eval_breach", "eval_timeout"} = {}
    BY <2>1
  <2>3. Status' = "breached" <=> {r} \cap {"eval_breach", "closed"} # {}
    BY <2>1
  <2>4. Contract!Verdict({r}, Funded', Status')
    BY <1>2, <2>1, <2>2, <2>3, Zenon DEF Contract!Verdict
  <2> QED BY <1>2, <2>4
<1>5. Contract!Finish
  <2>1. Contract!Paid /\ (payouts' # payouts => at = "payout")
    BY DEF Contract!Paid
  <2> QED BY <1>3, <1>4, <2>1 DEF Contract!Finish
<1>6. DriverInv'
  BY DEF DriverInv, Steps
<1> QED BY <1>5, <1>6 DEF Kept, Contract!Next

-----------------------------------------------------------------------------
(* The pipeline's and the replay's steps                                     *)

\* A trade of either phase, by either driver.
LEMMA TradeKept ==
    ASSUME TypeOK, DriverInv, at = "trades", driver # "hand", NEW t \in Trades, Update(t), gross' = gross,
           \/ phase' = "combine_failed" /\ Goto("done", {"eval_breach"})
           \/ phase = "combine" /\ phase' = "xfa" /\ Goto("day", {"passed"})
           \/ phase' = "xfa_closed" /\ Goto("dead", {})
           \/ phase' = phase /\ locked' /\ Goto("close", {})
           \/ phase' = phase /\ ~locked' /\ NextTrade
    PROVE  Kept
<1>1. /\ payouts' = payouts /\ phase \in Active /\ ~locked
      /\ \/ phase' = phase
         \/ ~locked' /\ phase = "combine" /\ phase' \in {"xfa", "combine_failed"}
         \/ ~locked' /\ phase = "xfa" /\ phase' = "xfa_closed"
  BY TradeEffect
<1>2. CASE phase' = "combine_failed" /\ Goto("done", {"eval_breach"})
  <2>1. at' = "done" /\ result' = result \union {"eval_breach"} /\ driver' = driver
    BY <1>2, GotoEffect
  <2>2. ~Funded /\ ~Funded' /\ Funded' = Funded /\ Status' = "breached"
    BY <1>1, <1>2 DEF Funded, Status, Active
  <2>3. gross' \in Int
    BY DEF DriverInv
  <2> QED BY <1>1, <2>1, <2>2, <2>3, Finishes DEF Contract!Reasons
<1>3. CASE phase = "combine" /\ phase' = "xfa" /\ Goto("day", {"passed"})
  BY <1>1, <1>3, GotoEffect, TradePasses
<1>4. CASE phase' = "xfa_closed" /\ Goto("dead", {})
  <2>1. at' = "dead" /\ result' = result /\ driver' = driver
    BY <1>4, GotoEffect
  <2>2. phase = "xfa"
    BY <1>1, <1>4 DEF Active
  <2> QED BY <1>1, <1>4, <2>1, <2>2, TradeCloses
<1>5. CASE phase' = phase /\ locked' /\ Goto("close", {})
  <2>1. at' = "close" /\ result' = result /\ driver' = driver
    BY <1>5, GotoEffect
  <2> QED BY <1>1, <1>5, <2>1, Trades1
<1>6. CASE phase' = phase /\ ~locked' /\ NextTrade
  <2>1. at' \in {"trades", "close"} /\ result' = result /\ driver' = driver
    BY <1>6 DEF NextTrade
  <2> QED BY <1>1, <1>6, <2>1, Trades1
<1> QED BY <1>2, <1>3, <1>4, <1>5, <1>6

\* An attempt on an account that trades is over, for a reason the account bears out.
LEMMA TimesOut ==
    ASSUME DriverInv, at \in {"day", "payout"}, driver # "hand", UNCHANGED account, gross' = gross,
           NEW r \in {"eval_timeout", "funded_timeout", "capped"},
           Goto("done", {r}), Funded <=> r # "eval_timeout"
    PROVE  Kept
<1>1. phase' = phase /\ locked' = locked /\ payouts' = payouts
  BY DEF account, vars, session, counts
<1>2. at' = "done" /\ result' = result \union {r} /\ driver' = driver
  BY GotoEffect
<1>3. Funded' = Funded /\ Status' = Status /\ Status = "open"
  BY <1>1, StatusOf DEF DriverInv, Funded, Status
<1>4. gross' \in Int /\ r \in Contract!Reasons
  BY DEF DriverInv, Contract!Reasons
<1> QED BY <1>1, <1>2, <1>3, <1>4, Finishes

\* Passed is what the driver keeps of the phase.
LEMMA PassedIsFunded ==
    ASSUME DriverInv, at \in {"day", "trades", "close", "payout", "dead"}
    PROVE  /\ Passed <=> Funded
           /\ at \in {"day", "trades", "close"} => (Passed <=> phase = "xfa") /\ (~Passed <=> phase = "combine")
BY DEF DriverInv, Passed, Funded, Active

\* A session begins.
LEMMA BeginKept ==
    ASSUME DriverInv, at = "day", driver # "hand", UNCHANGED account, BeginEvalDay \/ BeginFundedDay
    PROVE  Kept
<1>1. at' = "trades" /\ driver' = driver /\ UNCHANGED <<gross, result>>
  BY DEF BeginEvalDay, BeginFundedDay
<1> QED BY <1>1, Begins

\* A closed account is reactivated, or the attempt is over.
LEMMA DeadKept ==
    ASSUME TypeOK, DriverInv, at = "dead", driver # "hand", gross' = gross,
           \/ AttemptBack2Funded /\ Goto("day", {})
           \/ Goto("done", {"closed"}) /\ UNCHANGED account
    PROVE  Kept
<1>1. CASE AttemptBack2Funded /\ Goto("day", {})
  <2>1. at' = "day" /\ result' = result /\ driver' = driver
    BY <1>1, GotoEffect
  <2> QED BY <1>1, <2>1, Reactivates
<1>2. CASE Goto("done", {"closed"}) /\ UNCHANGED account
  <2>1. at' = "done" /\ result' = result \union {"closed"} /\ driver' = driver
    BY <1>2, GotoEffect
  <2>2. phase' = phase /\ payouts' = payouts /\ phase = "xfa_closed"
    BY <1>2 DEF account, vars, session, counts, DriverInv
  <2>3. Funded /\ Funded' = Funded /\ Status' = "breached"
    BY <2>2 DEF Funded, Status, Active
  <2>4. gross' \in Int /\ "closed" \in Contract!Reasons
    BY DEF DriverInv, Contract!Reasons
  <2> QED BY <2>1, <2>2, <2>3, <2>4, Finishes
<1> QED BY <1>1, <1>2

\* The close of a session.
LEMMA CloseKept ==
    ASSUME DriverInv, at = "close", driver # "hand", gross' = gross, CloseDay,
           \/ phase = "combine" /\ Goto("day", IF phase' = "xfa" THEN {"passed"} ELSE {})
           \/ phase = "xfa" /\ Goto("payout", {})
    PROVE  Kept
<1>1. CASE phase = "combine" /\ Goto("day", IF phase' = "xfa" THEN {"passed"} ELSE {})
  <2>1. /\ at' = "day" /\ result' = result \union IF phase' = "xfa" THEN {"passed"} ELSE {}
        /\ driver' = driver
    BY <1>1, GotoEffect
  <2> QED BY <1>1, <2>1, Closes
<1>2. CASE phase = "xfa" /\ Goto("payout", {})
  <2>1. at' = "payout" /\ result' = result /\ driver' = driver
    BY <1>2, GotoEffect
  <2>2. phase' = "xfa" /\ result = {"passed"}
    BY <1>2, CloseEffect DEF Active, DriverInv, Funded
  <2>3. result' = result \union IF phase' = "xfa" THEN {"passed"} ELSE {}
    BY <2>1, <2>2
  <2> QED BY <1>2, <2>1, <2>3, Closes
<1> QED BY <1>1, <1>2

\* A payout that was refused.
LEMMA RefusedKept ==
    ASSUME DriverInv, at = "payout", driver # "hand", UNCHANGED account, gross' = gross, Goto("day", {})
    PROVE  Kept
<1>1. at' = "day" /\ result' = result /\ driver' = driver
  BY GotoEffect
<1>2. phase' = phase /\ locked' = locked /\ payouts' = payouts /\ phase = "xfa"
  BY DEF account, vars, session, counts, DriverInv
<1>3. phase' = "xfa" /\ locked' = locked /\ result' = result /\ payouts' = payouts
  BY <1>1, <1>2
<1> QED BY <1>1, <1>3, PaysNot

\* A payout that was made: the account stays open, and the attempt ends at the cap.
LEMMA PaidKept ==
    ASSUME TypeOK, DriverInv, at = "payout", driver # "hand", RequestPayout,
           gross' = gross + balance - balance',
           phase' = "xfa" => Goto("done", {"capped"}) \/ Goto("day", {})
    PROVE  Kept
<1>1. /\ payouts' = payouts + 1 /\ phase' = "xfa" /\ locked' = locked
      /\ balance - balance' \in Int /\ balance - balance' > 0
  BY PayoutEffect
<1>2. gross' > gross /\ gross' \in Int
  <2>1. /\ GrossRequest \in Int /\ balance \in Int
        /\ balance - GrossRequest > 0 /\ GrossRequest > 0
    BY PayoutLeavesProfit DEF RequestPayout, TypeOK
  <2>2. balance' = balance - GrossRequest
    BY DEF RequestPayout
  <2>3. gross \in Int
    BY DEF DriverInv
  <2> QED BY <2>1, <2>2, <2>3, SMT
<1>3. CASE Goto("day", {})
  <2>1. at' = "day" /\ result' = result /\ driver' = driver
    BY <1>3, GotoEffect
  <2> QED BY <1>1, <1>2, <2>1, Pays
<1>4. CASE Goto("done", {"capped"})
  <2>1. at' = "done" /\ result' = result \union {"capped"} /\ driver' = driver
    BY <1>4, GotoEffect
  <2>2. phase = "xfa" /\ ~locked
    BY DEF DriverInv
  <2>3. Funded /\ Funded' /\ Funded' = Funded /\ Status' = "open"
    BY <1>1, <2>2 DEF Funded, Status, Active
  <2> QED BY <1>1, <1>2, <2>1, <2>3, Finishes DEF Contract!Reasons
<1> QED BY <1>1, <1>3, <1>4

\* simulate_topstep_pipeline.
LEMMA PipelineKept ==
    ASSUME TypeOK, DriverInv, PipelineNext
    PROVE  Kept
<1>p. driver # "hand"
  BY DEF PipelineNext, PipelineCombineDay, PipelineCombineTrade, PipelineCombineClose, PipelineXfaDay,
         PipelineXfaTrade, PipelineReactivate, PipelineXfaClose, PipelinePayout, Pipeline
<1>1. CASE PipelineCombineDay
  <2>1. at = "day" /\ ~Funded
    BY <1>1, PassedIsFunded DEF PipelineCombineDay, Pipeline
  <2> QED BY <1>1, <1>p, <2>1, BeginKept, TimesOut DEF PipelineCombineDay
<1>2. CASE PipelineCombineTrade
  <2>1. at = "trades" /\ phase = "combine" /\ gross' = gross
    BY <1>2, PassedIsFunded DEF PipelineCombineTrade, Pipeline
  <2>2. PICK t \in Trades : Update(t)
    BY <1>2 DEF PipelineCombineTrade
  <2>3. /\ locked' => phase' = phase
        /\ phase' \in {"combine", "xfa", "combine_failed"}
    BY <2>1, <2>2, TradeEffect
  <2>4. \/ phase' = "combine_failed" /\ Goto("done", {"eval_breach"})
        \/ phase = "combine" /\ phase' = "xfa" /\ Goto("day", {"passed"})
        \/ phase' = phase /\ locked' /\ Goto("close", {})
        \/ phase' = phase /\ ~locked' /\ NextTrade
    BY <1>2, <2>1, <2>3 DEF PipelineCombineTrade
  <2> QED BY <1>p, <2>1, <2>2, <2>4, TradeKept
<1>3. CASE PipelineCombineClose
  <2>1. at = "close" /\ phase = "combine"
    BY <1>3, PassedIsFunded DEF PipelineCombineClose, Pipeline
  <2> QED BY <1>3, <1>p, <2>1, CloseKept DEF PipelineCombineClose
<1>4. CASE PipelineXfaDay
  <2>1. at = "day" /\ phase = "xfa" /\ Funded
    BY <1>4, PassedIsFunded DEF PipelineXfaDay, Pipeline
  <2>2. \/ BeginFundedDay
        \/ gross' = gross /\ Goto("done", {"funded_timeout"} \union {})
    BY <1>4, <2>1 DEF PipelineXfaDay
  <2>3. UNCHANGED account
    BY <1>4 DEF PipelineXfaDay
  <2>4. {"funded_timeout"} \union {} = {"funded_timeout"}
    OBVIOUS
  <2> QED BY <1>p, <2>1, <2>2, <2>3, <2>4, BeginKept, TimesOut
<1>5. CASE PipelineXfaTrade
  <2>1. at = "trades" /\ phase = "xfa" /\ gross' = gross
    BY <1>5, PassedIsFunded DEF PipelineXfaTrade, Pipeline
  <2>2. PICK t \in Trades : Update(t)
    BY <1>5 DEF PipelineXfaTrade
  <2>3. /\ locked' => phase' = phase
        /\ phase' \in {"xfa", "xfa_closed"}
    BY <2>1, <2>2, TradeEffect
  <2>4. \/ phase' = "xfa_closed" /\ Goto("dead", {})
        \/ phase' = phase /\ locked' /\ Goto("close", {})
        \/ phase' = phase /\ ~locked' /\ NextTrade
    BY <1>5, <2>1, <2>3 DEF PipelineXfaTrade
  <2> QED BY <1>p, <2>1, <2>2, <2>4, TradeKept
<1>6. CASE PipelineReactivate
  BY <1>6, <1>p, DeadKept DEF PipelineReactivate, Pipeline
<1>7. CASE PipelineXfaClose
  <2>1. at = "close" /\ phase = "xfa"
    BY <1>7, PassedIsFunded DEF PipelineXfaClose, Pipeline
  <2> QED BY <1>7, <1>p, <2>1, CloseKept DEF PipelineXfaClose
<1>8. CASE PipelinePayout
  <2>1. at = "payout"
    BY <1>8 DEF PipelinePayout, Pipeline
  <2>2. CASE Goto("day", {}) /\ gross' = gross /\ UNCHANGED account
    BY <1>p, <2>1, <2>2, RefusedKept
  <2>3. CASE RequestPayout /\ gross' = gross + balance - balance'
    <3>1. phase' = "xfa" => Goto("done", {"capped"} \union {}) \/ Goto("day", {})
      <4>1. ASSUME phase' = "xfa", ~Goto("day", {}) PROVE Goto("done", {"capped"} \union {})
        <5>1. CapReached(payouts')
          BY <1>8, <4>1 DEF PipelinePayout
        <5> QED BY <1>8, <4>1, <5>1 DEF PipelinePayout
      <4> QED BY <4>1
    <3>2. {"capped"} \union {} = {"capped"}
      OBVIOUS
    <3> QED BY <1>p, <2>1, <2>3, <3>1, <3>2, PaidKept
  <2> QED BY <1>8, <2>2, <2>3 DEF PipelinePayout
<1> QED BY <1>1, <1>2, <1>3, <1>4, <1>5, <1>6, <1>7, <1>8 DEF PipelineNext

\* simulate_topstep_trade_replay.
LEMMA ReplayKept ==
    ASSUME TypeOK, DriverInv, ReplayNext
    PROVE  Kept
<1>p. driver # "hand"
  BY DEF ReplayNext, ReplayDay, ReplayEnds, ReplayNoMoreTrades, ReplayCombineTrade, ReplayCombineClose,
         ReplayXfaTrade, ReplayXfaClose, ReplayPayout, ReplayReactivate, Replay
<1>1. CASE ReplayDay
  BY <1>1, <1>p, BeginKept DEF ReplayDay, Replay
<1>2. CASE ReplayEnds
  <2>1. at = "day" /\ UNCHANGED account /\ gross' = gross
    BY <1>2 DEF ReplayEnds, Replay
  <2>2. (Passed <=> Funded) /\ phase # "xfa_closed"
    BY <2>1, PassedIsFunded DEF DriverInv, Active
  <2>3. CASE ~Passed
    <3>1. Goto("done", {"eval_timeout"})
      BY <1>2, <2>2, <2>3 DEF ReplayEnds
    <3> QED BY <1>p, <2>1, <2>2, <2>3, <3>1, TimesOut
  <2>4. CASE Passed
    <3>1. Goto("done", {"funded_timeout"})
      BY <1>2, <2>2, <2>4 DEF ReplayEnds
    <3> QED BY <1>p, <2>1, <2>2, <2>4, <3>1, TimesOut
  <2> QED BY <2>3, <2>4
<1>3. CASE ReplayNoMoreTrades
  <2>1. at = "trades" /\ gross' = gross /\ phase' = phase /\ payouts' = payouts
    BY <1>3 DEF ReplayNoMoreTrades, Replay, account, vars, session, counts
  <2>2. at' = "close" /\ result' = result /\ driver' = driver
    BY <1>3, GotoEffect DEF ReplayNoMoreTrades
  <2> QED BY <1>p, <2>1, <2>2, Trades1
<1>4. CASE ReplayCombineTrade
  <2>1. at = "trades" /\ phase = "combine" /\ gross' = gross
    BY <1>4 DEF ReplayCombineTrade, Replay
  <2>2. PICK t \in Trades : Update(t)
    BY <1>4 DEF ReplayCombineTrade
  <2>3. /\ locked' => phase' = phase
        /\ phase' \in {"combine", "xfa", "combine_failed"}
    BY <2>1, <2>2, TradeEffect
  <2>4. \/ phase' = "combine_failed" /\ Goto("done", {"eval_breach"})
        \/ phase = "combine" /\ phase' = "xfa" /\ Goto("day", {"passed"})
        \/ phase' = phase /\ locked' /\ Goto("close", {})
        \/ phase' = phase /\ ~locked' /\ NextTrade
    BY <1>4, <2>1, <2>3 DEF ReplayCombineTrade
  <2> QED BY <1>p, <2>1, <2>2, <2>4, TradeKept
<1>5. CASE ReplayCombineClose
  BY <1>5, <1>p, CloseKept DEF ReplayCombineClose, Replay
<1>6. CASE ReplayXfaTrade
  <2>1. at = "trades" /\ phase = "xfa" /\ gross' = gross
    BY <1>6 DEF ReplayXfaTrade, Replay
  <2>2. PICK t \in Trades : Update(t)
    BY <1>6 DEF ReplayXfaTrade
  <2>3. /\ locked' => phase' = phase
        /\ phase' \in {"xfa", "xfa_closed"}
    BY <2>1, <2>2, TradeEffect
  <2>4. \/ phase' = "xfa_closed" /\ Goto("dead", {})
        \/ phase' = phase /\ locked' /\ Goto("close", {})
        \/ phase' = phase /\ ~locked' /\ NextTrade
    BY <1>6, <2>1, <2>3 DEF ReplayXfaTrade
  <2> QED BY <1>p, <2>1, <2>2, <2>4, TradeKept
<1>7. CASE ReplayXfaClose
  BY <1>7, <1>p, CloseKept DEF ReplayXfaClose, Replay
<1>8. CASE ReplayReactivate
  BY <1>8, <1>p, DeadKept DEF ReplayReactivate, Replay
<1>9. CASE ReplayPayout
  <2>1. at = "payout"
    BY <1>9 DEF ReplayPayout, Replay
  <2>2. CASE /\ gross' = gross /\ UNCHANGED account
             /\ Goto(IF CapReached(payouts) THEN "done" ELSE "day",
                     IF CapReached(payouts) THEN {"capped"} ELSE {})
    <3>1. Funded
      BY <2>1 DEF DriverInv, Funded
    <3>2. CASE CapReached(payouts)
      <4>1. Goto("done", {"capped"})
        BY <2>2, <3>2
      <4> QED BY <1>p, <2>1, <2>2, <3>1, <4>1, TimesOut
    <3>3. CASE ~CapReached(payouts)
      <4>1. Goto("day", {})
        BY <2>2, <3>3
      <4> QED BY <1>p, <2>1, <2>2, <4>1, RefusedKept
    <3> QED BY <3>2, <3>3
  <2>3. CASE /\ RequestPayout /\ gross' = gross + balance - balance'
             /\ CASE phase' = "xfa_closed" -> Goto("done", {"closed"})
                  [] phase' = "xfa" /\ CapReached(payouts') -> Goto("done", {"capped"})
                  [] OTHER -> Goto("day", {})
    <3>1. phase' = "xfa"
      BY <2>3, PayoutEffect
    <3>2. Goto("done", {"capped"}) \/ Goto("day", {})
      BY <2>3, <3>1
    <3> QED BY <1>p, <2>1, <2>3, <3>2, PaidKept
  <2> QED BY <1>9, <2>2, <2>3 DEF ReplayPayout
<1> QED BY <1>1, <1>2, <1>3, <1>4, <1>5, <1>6, <1>7, <1>8, <1>9 DEF ReplayNext

-----------------------------------------------------------------------------
(* The theorems about the drivers                                            *)

\* A driver uses the account by its operations only.
LEMMA AccountStep == AttemptsNext => [Next]_vars
<1>1. ByHand => [Next]_vars
  BY DEF ByHand
<1>2. PipelineNext => [Next]_vars
  BY DEF PipelineNext, PipelineCombineDay, PipelineCombineTrade, PipelineCombineClose, PipelineXfaDay,
         PipelineXfaTrade, PipelineReactivate, PipelineXfaClose, PipelinePayout, account, Next
<1>3. ReplayNext => [Next]_vars
  BY DEF ReplayNext, ReplayDay, ReplayEnds, ReplayNoMoreTrades, ReplayCombineTrade, ReplayCombineClose,
         ReplayXfaTrade, ReplayXfaClose, ReplayPayout, ReplayReactivate, account, Next
<1> QED BY <1>1, <1>2, <1>3 DEF AttemptsNext

\* Whatever a driver does with it, the account is one of TopStepAccount: what is proved
\* of the account holds in every attempt.
THEOREM DriversUseAccount == AttemptsSpec => Spec
<1>1. AttemptsInit => Init
  BY DEF AttemptsInit
<1>2. [AttemptsNext]_<<vars, attempt>> => [Next]_vars
  BY AccountStep
<1> QED BY <1>1, <1>2, PTL DEF AttemptsSpec, Spec

\* An attempt begins before its first session, with an account in the Combine.
LEMMA InitKept == AttemptsInit => DriverInv /\ Contract!Init
<1> SUFFICES ASSUME AttemptsInit PROVE DriverInv /\ Contract!Init
  OBVIOUS
<1>1. /\ phase = "combine" /\ locked = FALSE /\ payouts = 0 /\ gross = 0 /\ result = {}
      /\ at = "hand" \/ (at = "day" /\ driver # "hand")
  BY DEF AttemptsInit, Init, AttemptInit
<1>2. ~Funded /\ Status = "open"
  BY <1>1 DEF Funded, Status, Active
<1>3. DriverInv
  BY <1>1, <1>2 DEF DriverInv, Steps, Active
<1>4. Contract!Init
  BY <1>1, <1>2 DEF Contract!Init
<1> QED BY <1>3, <1>4

\* Every step of a driver keeps the invariant and is a step of the contract.
LEMMA StepKept ==
    ASSUME TypeOK, DriverInv, [AttemptsNext]_<<vars, attempt>>
    PROVE  DriverInv' /\ [Contract!Next]_(Contract!vars)
<1>1. CASE ByHand
  <2>1. at = "hand" /\ at' = "hand" /\ gross' = gross
    BY <1>1 DEF ByHand, attempt
  <2>2. DriverInv'
    BY <2>1 DEF DriverInv
  <2> QED BY <2>1, <2>2 DEF Contract!Next, Contract!ByHand
<1>2. CASE PipelineNext
  BY <1>2, PipelineKept DEF Kept
<1>3. CASE ReplayNext
  BY <1>3, ReplayKept DEF Kept
<1>4. CASE UNCHANGED <<vars, attempt>>
  <2>1. UNCHANGED <<phase, locked, payouts, gross, result, at, driver>>
    BY <1>4 DEF vars, session, counts, attempt
  <2>2. Status' = Status /\ Funded' = Funded
    BY <2>1 DEF Status, Funded
  <2>3. DriverInv'
    BY <2>1, <2>2 DEF DriverInv
  <2> QED BY <2>1, <2>2, <2>3 DEF Contract!vars
<1> QED BY <1>1, <1>2, <1>3, <1>4 DEF AttemptsNext

\* Both drivers implement AttemptContract: no trade is sent to an account that would
\* refuse it, no session mixes the Combine and the XFA, payouts fall between sessions,
\* and the attempt ends for the one reason the account bears out.
THEOREM DriversKeepContract == AttemptsSpec => KeepsContract
<1>1. AttemptsInit => DriverInv /\ Contract!Init
  BY InitKept
<1>2. TypeOK /\ DriverInv /\ [AttemptsNext]_<<vars, attempt>>
        => DriverInv' /\ [Contract!Next]_(Contract!vars)
  BY StepKept
<1>3. AttemptsSpec => []TypeOK
  BY DriversUseAccount, TypeCorrect, PTL
<1> QED BY <1>1, <1>2, <1>3, PTL DEF AttemptsSpec, KeepsContract, Contract!Spec
=============================================================================

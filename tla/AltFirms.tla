------------------------------- MODULE AltFirms -------------------------------
(***************************************************************************)
(* src/pipeline/alt_firm_replay.py: recorded sessions replayed through a      *)
(* Tradeify Lightning account and through an MFFU Rapid evaluation and funded *)
(* account.  A session is one amount, its trades summed up; the recorded      *)
(* sessions may run out after any of them.                                    *)
(***************************************************************************)
EXTENDS Integers, Money

CONSTANTS
    AltSessions,     \* what a session may make or lose
    AltMaxLoss,      \* 2_000
    AltLock,         \* 2_100: the profit at which the floor locks, and MFFU's buffer
    AltLockedFloor,  \* 100: where it locks, over the start
    AltGoals,        \* profit_goal of the first and of the later cycles
    AltCaps,         \* cap of the first three and of the later payouts
    AltMinGross,     \* 1_000
    AltTarget,       \* 3_000: profit target of the MFFU evaluation
    AltPayoutAt,     \* 2_600: the MFFU balance that is paid out
    AltMaxProfit,    \* bound: profit over the start
    AltMaxPayouts    \* bound: payouts

\* The floor locks where the trail ends; a payout pays no more than a cycle's goal
\* and leaves the buffer.
ASSUME AltAssumption ==
    /\ AltSessions \subseteq Int /\ AltMaxLoss \in Nat \ {0}
    /\ AltLockedFloor \in Nat /\ AltLock = AltMaxLoss + AltLockedFloor
    /\ AltPayoutAt \in Int /\ AltPayoutAt > AltLock /\ AltMaxPayouts \in Nat
    /\ AltMinGross \in Nat \ {0} /\ AltCaps \in [1..2 -> Int]

VARIABLES
    stage,      \* "lightning", "rapid_eval", "rapid", or how it ended
    alt,        \* balance, floor, peak, locked: as profit over the start
    cycle,      \* sum, best and number of cycle_pnls, of eval_pnls
    settling,   \* the session's payout is still to be looked at
    paid        \* payout_count

altVars == <<stage, alt, cycle, settling, paid>>

AltActive == {"lightning", "rapid_eval", "rapid"}
NoSessions == [sum |-> 0, best |-> 0, n |-> 0]

AltInit ==
    /\ stage \in {"lightning", "rapid_eval"}
    /\ alt = [balance |-> 0, floor |-> -AltMaxLoss, peak |-> 0, locked |-> FALSE]
    /\ cycle = NoSessions /\ settling = FALSE /\ paid = 0

\* The sessions so far and one of p; the number counts up to 2.
With(p) == [sum |-> cycle.sum + p, best |-> Higher(cycle.best, p), n |-> Lower(cycle.n + 1, 2)]

Fits(p) == ~settling /\ alt.balance + p <= AltMaxProfit

-----------------------------------------------------------------------------
(* Tradeify Lightning                                                         *)

\* Mutant: the floor follows the balance down.
LightningFloorDown(b) == IF b >= AltLock THEN AltLockedFloor ELSE b - AltMaxLoss

LightningFloor(b) ==
    IF b >= AltLock THEN AltLockedFloor ELSE Higher(alt.floor, b - AltMaxLoss)

\* A session: the breach is looked for before the floor moves.
LightningSession(p) ==
    /\ stage = "lightning" /\ Fits(p)
    /\ LET b == alt.balance + p IN
       IF b <= alt.floor
       THEN stage' = "breached" /\ alt' = [alt EXCEPT !.balance = b] /\ UNCHANGED <<cycle, settling>>
       ELSE /\ alt' = [alt EXCEPT !.balance = b, !.floor = LightningFloor(b)]
            /\ cycle' = With(p) /\ settling' = TRUE /\ stage' = stage
    /\ paid' = paid

\* 20, 25 and then 30 per cent of the cycle's profit in one day at most.
LightningConsistent ==
    /\ cycle.sum > 0
    /\ CASE paid = 0 -> 5 * cycle.best <= cycle.sum
         [] paid = 1 -> 4 * cycle.best <= cycle.sum
         [] OTHER -> 10 * cycle.best <= 3 * cycle.sum

LightningGross == Lower(cycle.sum, IF paid < 3 THEN AltCaps[1] ELSE AltCaps[2])
LightningDue ==
    /\ cycle.sum >= (IF paid = 0 THEN AltGoals[1] ELSE AltGoals[2])
    /\ LightningConsistent /\ LightningGross >= AltMinGross

\* Its payout, the cycle's profit up to the cap, or none yet.
LightningPayout ==
    /\ stage = "lightning" /\ settling /\ settling' = FALSE
    /\ \/ ~LightningDue /\ UNCHANGED <<stage, alt, cycle, paid>>
       \/ /\ LightningDue /\ paid < AltMaxPayouts
          /\ alt' = [alt EXCEPT !.balance = @ - LightningGross]
          /\ cycle' = NoSessions /\ paid' = paid + 1
          /\ stage' = IF alt'.balance <= alt.floor THEN "breached" ELSE stage

-----------------------------------------------------------------------------
(* MFFU Rapid                                                                 *)

RapidCanPass(c) == c.n >= 2 /\ c.sum >= AltTarget /\ c.sum > 0 /\ 2 * c.best <= c.sum

\* A session of the evaluation: a breach, a pass to a fresh account, or the floor moves.
RapidEvalSession(p) ==
    /\ stage = "rapid_eval" /\ Fits(p)
    /\ LET b == alt.balance + p IN
       \/ /\ b <= alt.floor /\ stage' = "failed"
          /\ alt' = [alt EXCEPT !.balance = b] /\ cycle' = cycle
       \/ /\ b > alt.floor /\ RapidCanPass(With(p)) /\ stage' = "rapid"
          /\ alt' = [balance |-> 0, floor |-> -AltMaxLoss, peak |-> 0, locked |-> FALSE]
          /\ cycle' = NoSessions
       \/ /\ b > alt.floor /\ ~RapidCanPass(With(p)) /\ stage' = stage
          /\ alt' = [alt EXCEPT !.balance = b, !.floor = Higher(@, b - AltMaxLoss)]
          /\ cycle' = With(p)
    /\ UNCHANGED <<settling, paid>>

\* A session of the funded account: peak, floor, breach.
RapidSession(p) ==
    /\ stage = "rapid" /\ Fits(p)
    /\ LET b == alt.balance + p
           peak == Higher(alt.peak, b)
           floor == IF alt.locked THEN alt.floor
                    ELSE IF peak >= AltLock THEN AltLockedFloor ELSE peak - AltMaxLoss
       IN  /\ alt' = [balance |-> b, floor |-> floor, peak |-> peak,
                      locked |-> alt.locked \/ peak >= AltLock]
           /\ stage' = IF b <= floor THEN "breached" ELSE stage
           /\ settling' = (b > floor)
    /\ UNCHANGED <<cycle, paid>>

\* Its payout: all that is above the buffer, once there is enough of it.
RapidPayout ==
    /\ stage = "rapid" /\ settling /\ settling' = FALSE
    /\ \/ alt.balance < AltPayoutAt /\ UNCHANGED <<alt, paid>>
       \/ /\ alt.balance >= AltPayoutAt /\ paid < AltMaxPayouts /\ paid' = paid + 1
          /\ alt' = [alt EXCEPT !.balance = AltLock]
    /\ UNCHANGED <<stage, cycle>>

AltNext ==
    \/ \E p \in AltSessions : LightningSession(p) \/ RapidEvalSession(p) \/ RapidSession(p)
    \/ LightningPayout \/ RapidPayout

AltSpec == AltInit /\ [][AltNext]_altVars

-----------------------------------------------------------------------------
\* Either firm's account is a trailing account: its floor never falls, not even when a
\* payout or a lock sets it, and no payout leaves it at or under the floor.
AltTrailing == INSTANCE TrailingAccount
                 WITH open <- stage \in AltActive, funded <- stage \notin {"rapid_eval", "failed"},
                      balance <- alt.balance, limit <- alt.floor, payouts <- paid
=============================================================================

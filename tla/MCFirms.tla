------------------------------- MODULE MCFirms -------------------------------
(***************************************************************************)
(* An attempt with an Apex account, with a LucidFlex account, or with an      *)
(* account of AltFirms, or a Monte Carlo of them; the others stay as they     *)
(* began.  Beside the pipeline's LucidFlex evaluation, EvalSimulator plays    *)
(* the same trades.  Amounts are small and cross each threshold in one or two *)
(* trades.                                                                   *)
(***************************************************************************)
EXTENDS ApexDrivers, EvalSimulator, AltFirms, MonteCarlo

VARIABLES
    firm,
    lPhase, lBalance, mll, lDay, lBest, profDays, lCycleStart, lPayouts, resets, lSeen

Lucid == INSTANCE LucidDrivers
           WITH phase <- lPhase, balance <- lBalance, day <- lDay, best <- lBest,
                cycleStart <- lCycleStart, payouts <- lPayouts, seen <- lSeen

lucidVars == <<lPhase, lBalance, mll, lDay, lBest, profDays, lCycleStart, lPayouts,
               resets, lSeen>>

\* What rests while another part is played.
ApexRests == Init /\ variant = "eod"
LucidRests == Lucid!Init
AltRests == AltInit /\ stage = "lightning"
NoAttempt == AttemptInit /\ driver = "hand"
SimsRest ==
    /\ SimsInit /\ strategy = CHOOSE s \in Strategies : TRUE
    /\ numbers = [i \in 1..Simulations |-> [j \in 1..Draws |-> CHOOSE n \in Percents : TRUE]]
SeqRests ==
    SeqInit /\ replay = (CHOOSE days \in Replays : TRUE) /\ blockSize = CHOOSE n \in BlockSizes : TRUE

MCInit ==
    /\ SimInit
    /\ \/ firm = "apex" /\ AttemptsInit /\ LucidRests /\ AltRests /\ SimsRest /\ SeqRests
       \/ firm = "lucid" /\ Lucid!AttemptsInit /\ ApexRests /\ AltRests /\ SimsRest /\ SeqRests
       \/ firm = "alt" /\ AltInit /\ NoAttempt /\ ApexRests /\ LucidRests /\ SimsRest /\ SeqRests
       \/ firm = "simulations" /\ SimsInit /\ NoAttempt /\ ApexRests /\ LucidRests /\ AltRests /\ SeqRests
       \/ firm = "sequential" /\ SeqInit /\ NoAttempt /\ ApexRests /\ LucidRests /\ AltRests /\ SimsRest

\* The same trades, for as long as simulate_lucidflex_eval asks for them.
Simulated(step) == IF simResult = "running" THEN step ELSE UNCHANGED simVars

TwinEval ==
    \/ \E t \in LucidTrades : Lucid!PipelineEvalTrade(t) /\ Simulated(SimTrade(t))
    \/ Lucid!PipelineEvalClose /\ Simulated(SimClose)
    \/ Lucid!PipelineEvalDay /\ Simulated(IF at' = "done" THEN SimTimeout ELSE UNCHANGED simVars)

mcVars == <<simsVars, seqVars>>

ApexNext ==
    firm = "apex" /\ AttemptsNext /\ UNCHANGED <<firm, lucidVars, simVars, altVars, mcVars>>
LucidNext ==
    /\ firm = "lucid" /\ UNCHANGED <<firm, vars, altVars, mcVars>>
    /\ \/ TwinEval
       \/ Lucid!PipelineFunded /\ UNCHANGED simVars
       \/ Lucid!ReplayNext /\ UNCHANGED simVars
       \/ Lucid!ByHand /\ UNCHANGED simVars
AltFirmsNext ==
    firm = "alt" /\ AltNext /\ UNCHANGED <<firm, vars, lucidVars, simVars, attempt, mcVars>>

SimulationsNext ==
    /\ UNCHANGED <<firm, vars, lucidVars, simVars, altVars, attempt>>
    /\ \/ firm = "simulations" /\ SimsNext /\ UNCHANGED seqVars
       \/ firm = "sequential" /\ SeqNext /\ UNCHANGED simsVars

MCNext == ApexNext \/ LucidNext \/ AltFirmsNext \/ SimulationsNext

MCSpec == MCInit /\ [][MCNext]_<<firm, vars, lucidVars, simVars, altVars, attempt, mcVars>>

-----------------------------------------------------------------------------
\* Neither Apex nor LucidFlex pays twice for the same sessions.
PayoutsAreEarned == PayoutIsEarned /\ Lucid!PayoutIsEarned

\* LucidFlex, Tradeify and MFFU accounts are trailing accounts, and the LucidFlex MLL
\* moved step by step is the published one.
OthersTrail == []Lucid!MllTrails /\ Lucid!Trails /\ AltTrailing!Spec

\* What LucidFlexAccount says of its pass and payouts: two days at least, and a
\* payout breaches nothing.
LucidPassAndPayouts == Lucid!PassTakesTwoDays /\ Lucid!PayoutKeepsOpen

\* Whichever firm and driver, an attempt keeps AttemptContract: an account that its
\* own payout closed is not traded again, and a payout whose breach is not looked for
\* breaches nothing.
Contracted == INSTANCE AttemptContract
                WITH status <- IF firm = "apex" THEN Status ELSE Lucid!Status,
                     funded <- IF firm = "apex" THEN Funded ELSE Lucid!Funded,
                     payouts <- IF firm = "apex" THEN payouts ELSE lPayouts
FirmsKeepContract == Contracted!Spec

\* The LucidFlex rules are written twice, and the two agree on every sequence of trades:
\* simulate_lucidflex_eval sees what the pipeline's evaluation sees and returns what it
\* does, and whatever a driver does to a funded account LucidFlexFundedAccount does.
SimAgrees ==
    firm = "lucid" /\ driver = "pipeline" =>
        IF Passed THEN simResult = "passed"
        ELSE /\ simBalance = lBalance /\ simMll = mll
             /\ simResult = "breached" <=> "eval_breach" \in result
             /\ simResult = "timed_out" <=> "eval_timeout" \in result
             /\ simResult # "passed"

Twin == INSTANCE LucidFunded
          WITH breached <- lPhase = "breached_funded", balance <- lBalance, day <- lDay,
               cycleStart <- lCycleStart, payouts <- lPayouts
FundedAgrees ==
    [][firm = "lucid" /\ driver # "hand" /\ lPhase = "funded" => Twin!Next]_lucidVars

TwinsAgree == []SimAgrees /\ FundedAgrees

MCCaps == <<4, 5>>
MCApexTrades == {1, 3, -2, -3}
MCLucidTrades == {2, 6, -2, -4}
MCAltSessions == {1, 2, 4, -3}
MCAltGoals == <<6, 4>>
MCAltCaps == <<4, 5>>
Sized(kind, floor, persistence, regimes) ==
    [kind |-> kind, winRate |-> 50, rr |-> 2, cost |-> 0, persistence |-> persistence, regimes |-> regimes,
     evalSize |-> 2, fundedSize |-> 4, full |-> 3, floor |-> floor, shrink |-> floor]
MCStrategies ==
    {Sized("autocorrelated", 100, 80, <<>>), Sized("state_aware", 50, 0, <<>>),
     Sized("regimes", 100, 0, <<[probability |-> 40, winRate |-> 100, rr |-> 1],
                                [probability |-> 60, winRate |-> 30, rr |-> 2]>>)}
MCReplays == {<< <<1>>, <<>>, <<-1, 2>> >>, << <<-1>>, <<2>>, <<-1>>, <<1>> >>, << <<2>> >>}
=============================================================================

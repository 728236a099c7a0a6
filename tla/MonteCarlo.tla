------------------------------ MODULE MonteCarlo ------------------------------
(***************************************************************************)
(* The Monte Carlo of src/pipeline.  run_monte_carlo (monte_carlo.py) plays   *)
(* one strategy object (src/strategies/parametric.py, sized by                *)
(* src/sizing/dynamic.py) through one pipeline after another, each with a     *)
(* seed of its own.  sequential_replay_mc (sequential_mc.py) resamples a      *)
(* replay in blocks (replay_monte_carlo.py) from one seed, until the          *)
(* confidence intervals decide.                                              *)
(*                                                                         *)
(* A random number is a percentage.  The account is a stand-in: an evaluation *)
(* to a target, then payouts at the target, over a loss limit; the real ones  *)
(* are modules of their own.                                                 *)
(***************************************************************************)
EXTENDS Integers, Sequences, SequencesExt, FiniteSetsExt

CONSTANTS
    Percents,      \* random numbers that are drawn
    Draws,         \* bound: numbers drawn with one seed
    Simulations,   \* n_simulations
    Strategies,
    AccountLimit, AccountTarget, AccountPayouts,
    Replays,       \* replay_days: sequences of the days' r_multiples
    BlockSizes,    \* block_size
    NInit, NStep, NMax,
    PassThreshold, \* p_pass_threshold, in percent
    EvThreshold    \* ev_threshold_usd

ASSUME MonteCarloAssumption ==
    /\ Draws \in Nat /\ Simulations \in Nat \ {0}
    /\ NMax \in Nat /\ NInit \in 1..NMax /\ NStep \in Nat \ {0}
    /\ BlockSizes \subseteq Nat \ {0}
    /\ Replays \subseteq Seq(Seq(Int)) /\ <<>> \notin Replays

VARIABLES
    strategy,   \* which strategy
    lastWin,    \* _last_win of its object: "none", "win" or "loss"
    numbers,    \* random.Random(seed + i) of each simulation
    drawn,      \* how many numbers the simulation in progress has drawn
    acct,       \* its account
    results,    \* of the simulations that ended

    replay, blockSize,
    rng,        \* the numbers of random.Random(seed), as far as any was drawn
    position,   \* how many of them were drawn
    accumulated,
    goal,       \* target: results to have before the intervals are looked at
    verdict     \* stopped_reason

simsVars == <<strategy, lastWin, numbers, drawn, acct, results>>
seqVars == <<replay, blockSize, rng, position, accumulated, goal, verdict>>

Least(a, b) == IF a < b THEN a ELSE b

-----------------------------------------------------------------------------
(* Sizing and strategies                                                     *)

\* AdaptiveSizing.  With a floor of 100 it is FixedSizing, without a shrink
\* BufferAwareSizing.  Every size is positive.
SizeOf(s, a) ==
    LET base == IF a.phase = "eval" THEN s.evalSize ELSE s.fundedSize
        buffer == Least(100, ((a.balance + AccountLimit) * 100) \div s.full)
        scale == s.floor + ((100 - s.floor) * buffer) \div 100
        shrink == IF a.phase = "funded" /\ a.payouts > 0 THEN s.shrink ELSE 100
    IN  (base * scale * shrink) \div 10000

\* The regime a number falls in.
SumTo(regimes, i) == FoldLeft(LAMBDA sum, r : sum + r.probability, 0, SubSeq(regimes, 1, i))
Regime(regimes, number) ==
    regimes[CHOOSE i \in DOMAIN regimes :
                number <= SumTo(regimes, i) /\ number > SumTo(regimes, i - 1) - (IF i = 1 THEN 1 ELSE 0)]

\* Bernoulli, PhaseAware and StateAware: the win rate.  Autocorrelated: drawn
\* towards what came last.  RegimeSwitching: that of the regime drawn first.
WinChance(s, last, number) ==
    CASE s.kind = "regimes" -> Regime(s.regimes, number).winRate
      [] s.kind = "autocorrelated" /\ last = "win" -> s.winRate + (s.persistence * (100 - s.winRate)) \div 100
      [] s.kind = "autocorrelated" /\ last = "loss" -> (s.winRate * (100 - s.persistence)) \div 100
      [] OTHER -> s.winRate

Reward(s, number) == IF s.kind = "regimes" THEN Regime(s.regimes, number).rr ELSE s.rr

\* sample_trade, on the numbers after the n-th
SampleTrade(s, last, a, stream, n) ==
    LET use == IF s.kind = "regimes" THEN 2 ELSE 1
        win == stream[n + use] < WinChance(s, last, stream[n + 1])
        size == SizeOf(s, a)
        gross == IF win THEN Reward(s, stream[n + 1]) * size ELSE -size
    IN  [pnl |-> gross - s.cost,
         last |-> CASE s.kind # "autocorrelated" -> last [] s.kind = "autocorrelated" /\ win -> "win" [] OTHER -> "loss",
         use |-> use]

NewAccount == [phase |-> "eval", balance |-> 0, payouts |-> 0]

\* The stand-in for a pipeline's account.
Traded(a, pnl) ==
    LET balance == a.balance + pnl IN
    IF balance <= -AccountLimit THEN [a EXCEPT !.balance = balance, !.phase = "breached"]
    ELSE IF balance < AccountTarget THEN [a EXCEPT !.balance = balance]
    ELSE IF a.phase = "eval" THEN [a EXCEPT !.balance = 0, !.phase = "funded"]
    ELSE [phase |-> IF a.payouts + 1 = AccountPayouts THEN "done" ELSE "funded",
          balance |-> 0, payouts |-> a.payouts + 1]

\* The account is over, or the days of its phase are: the numbers run out.
Ended(a, n) == a.phase \notin {"eval", "funded"} \/ n + 2 > Draws

-----------------------------------------------------------------------------
(* run_monte_carlo                                                           *)

SimsInit ==
    /\ strategy \in Strategies /\ lastWin = "none"
    /\ numbers \in [1..Simulations -> [1..Draws -> Percents]]
    /\ drawn = 0 /\ acct = NewAccount /\ results = <<>>

Trade ==
    /\ Len(results) < Simulations /\ ~Ended(acct, drawn)
    /\ LET t == SampleTrade(strategy, lastWin, acct, numbers[Len(results) + 1], drawn) IN
        /\ acct' = Traded(acct, t.pnl)
        /\ lastWin' = t.last
        /\ drawn' = drawn + t.use
    /\ UNCHANGED <<strategy, numbers, results>>

\* Mutant: the strategy goes on as the simulation before left it.
NextSimulationUnreset ==
    /\ Len(results) < Simulations /\ Ended(acct, drawn)
    /\ results' = Append(results, acct)
    /\ drawn' = 0 /\ acct' = NewAccount
    /\ UNCHANGED <<strategy, lastWin, numbers>>

\* The pipeline returns; the next one has its own seed, and resets the strategy.
NextSimulation ==
    /\ Len(results) < Simulations /\ Ended(acct, drawn)
    /\ results' = Append(results, acct)
    /\ drawn' = 0 /\ acct' = NewAccount /\ lastWin' = "none"
    /\ UNCHANGED <<strategy, numbers>>

SimsNext == Trade \/ NextSimulation

-----------------------------------------------------------------------------
(* sequential_replay_mc                                                      *)

BlockOf(days) == Least(blockSize, Len(days))
Blocks(days) == (Len(days) + BlockOf(days) - 1) \div BlockOf(days)

\* block_bootstrap_replay_days, as long as the replay, on these starts; the
\* days are dated anew, by their place.
Bootstrap(days, starts) ==
    LET out[k \in 0..Len(starts)] ==
            IF k = 0 THEN <<>>
            ELSE out[k - 1] \o SubSeq(days, starts[k] + 1, starts[k] + BlockOf(days))
    IN  SubSeq(out[Len(starts)], 1, Len(days))

\* The stand-in for a replay of the sampled days.
PlayReplay(days) ==
    LET sum == FoldLeft(LAMBDA total, day : total + FoldLeft(+, 0, day), 0, days)
    IN  [passed |-> sum >= AccountTarget, ev |-> IF sum >= AccountTarget THEN 3 * sum ELSE -1]

\* summarize_pipeline_results, as the sums its rates and intervals come from.
Summary(list) ==
    [n |-> Len(list),
     passes |-> Len(SelectSeq(list, LAMBDA r : r.passed)),
     ev |-> FoldLeft(LAMBDA total, r : total + r.ev, 0, list),
     squares |-> FoldLeft(LAMBDA total, r : total + r.ev * r.ev, 0, list)]

\* The Wilson interval excludes the threshold; the normal one of the mean EV
\* does: z is 1.96, and both sides are squared.
PassClear(s) ==
    LET off == s.passes * 100 - s.n * PassThreshold
    IN  off * off * 625 > 2401 * s.n * PassThreshold * (100 - PassThreshold)
EvClear(s) ==
    LET off == s.ev - s.n * EvThreshold
    IN  /\ off # 0
        /\ s.n = 1 \/ off * off * (s.n - 1) * 625 > 2401 * (s.n * s.squares - s.ev * s.ev)
DecisionClear(s) == PassClear(s) /\ EvClear(s)

SeqInit ==
    /\ replay \in Replays /\ blockSize \in BlockSizes
    /\ rng = <<>> /\ position = 0 /\ accumulated = <<>>
    /\ goal = NInit /\ verdict = "running"

\* rng.randint(0, max_start) for each block: numbers drawn before from this
\* seed, or new ones.
Starts ==
    LET n == Blocks(replay) IN
    IF position + n <= Len(rng) THEN {SubSeq(rng, position + 1, position + n)}
    ELSE [1..n -> 0 .. Len(replay) - BlockOf(replay)]

Sample ==
    /\ verdict = "running" /\ Len(accumulated) < goal
    /\ \E starts \in Starts :
        /\ accumulated' = Append(accumulated, PlayReplay(Bootstrap(replay, starts)))
        /\ rng' = IF position < Len(rng) THEN rng ELSE rng \o starts
        /\ position' = position + Len(starts)
    /\ UNCHANGED <<replay, blockSize, goal, verdict>>

Checkpoint ==
    /\ verdict = "running" /\ Len(accumulated) = goal
    /\ CASE DecisionClear(Summary(accumulated)) -> verdict' = "decision_clear" /\ UNCHANGED goal
         [] ~DecisionClear(Summary(accumulated)) /\ goal >= NMax -> verdict' = "n_max" /\ UNCHANGED goal
         [] OTHER -> goal' = Least(goal + NStep, NMax) /\ UNCHANGED verdict
    /\ UNCHANGED <<replay, blockSize, rng, position, accumulated>>

SeqNext == Sample \/ Checkpoint

\* run_replay_monte_carlo of n simulations, on the numbers of one seed: day j of
\* a resample lies in its block where j does.
ReplayMonteCarlo(n) ==
    LET b == BlockOf(replay)
        Resample(k) ==
            [j \in DOMAIN replay |->
                replay[rng[(k - 1) * Blocks(replay) + ((j - 1) \div b) + 1] + ((j - 1) % b) + 1]]
    IN  [k \in 1..n |-> PlayReplay(Resample(k))]

-----------------------------------------------------------------------------
(* Properties                                                                *)

\* A simulation by itself, with a new strategy.
Alone(s, stream) ==
    LET Fresh0 == [acct |-> NewAccount, last |-> "none", n |-> 0]
        after[k \in 0..Draws] ==
            IF k = 0 THEN Fresh0
            ELSE LET at0 == after[k - 1] IN
                 IF Ended(at0.acct, at0.n) THEN at0
                 ELSE LET t == SampleTrade(s, at0.last, at0.acct, stream, at0.n)
                      IN  [acct |-> Traded(at0.acct, t.pnl), last |-> t.last, n |-> at0.n + t.use]
    IN  after[Draws].acct

\* A simulation's result depends on its seed alone, although all of them share
\* one strategy object that remembers (run_monte_carlo, _reset_strategy).
SeedDecides == \A i \in DOMAIN results : results[i] = Alone(strategy, numbers[i])

\* A sequential run that stopped reports what the Monte Carlo of as many
\* simulations with the same seed reports, in blocks of the replay and whatever
\* its batches were; it stopped at the first checkpoint that was clear, or at
\* n_max (sequential_mc.py's "runs replay_monte_carlo in batches").
SequentialIsBatch ==
    verdict # "running" =>
        LET n == Len(accumulated)
            batch == ReplayMonteCarlo(n)
            checkpoints == {Least(NInit + k * NStep, NMax) : k \in 0..NMax}
        IN  /\ accumulated = batch /\ n \in checkpoints
            /\ verdict = "decision_clear" <=> DecisionClear(Summary(batch))
            /\ verdict = "n_max" => n = NMax
            /\ \A m \in checkpoints : m < n => ~DecisionClear(Summary(SubSeq(batch, 1, m)))

\* SimulationsReproduce: a Monte Carlo is its seeds and its inputs, and neither
\* the order its simulations run in nor the batches change what it reports.
SimulationsReproduce == SeedDecides /\ SequentialIsBatch
=============================================================================

----------------------------- MODULE WalkForward -----------------------------
(***************************************************************************)
(* src/optimizer/walk_forward.py: the folds of make_folds, and the selection  *)
(* of run_walk_forward: score the grid in sample, prune it, evaluate the      *)
(* survivors out of sample, rank the admissible ones.                         *)
(*                                                                         *)
(* A date is <<month, day>>; adding months keeps the day, or takes the last   *)
(* of a shorter month.  What a backtest and its Monte Carlo find is any of a  *)
(* few outcomes.                                                             *)
(***************************************************************************)
EXTENDS Integers, Sequences, FiniteSetsExt

CONSTANTS
    MonthDays,     \* lengths of the months, which repeat
    Months,        \* bound: months of data
    StartDays,     \* days a data set may start on
    Lengths,       \* is_months, oos_months, step_months that are tried
    WarmupMonths,
    Grid,          \* param_grid: params by their hashed fields and the others
    TopK,          \* top_k_is
    IsScores,      \* coarse in-sample scores; NegInf is one
    Outcomes,      \* fold_results of a candidate: trades, and each firm's low and mean
    Firms,
    MinTrades,     \* MIN_TOTAL_OOS_TRADES
    EvalFee        \* EVAL_FEE_BY_FIRM

NegInf == -1000

ASSUME WalkForwardAssumption ==
    /\ Months \in Nat /\ WarmupMonths \in Nat /\ TopK \in Nat \ {0} /\ MinTrades \in Nat
    /\ MonthDays \in Seq(Nat \ {0}) /\ MonthDays # <<>> /\ StartDays \subseteq Nat
    /\ Lengths \subseteq Nat \ {0} /\ Grid # <<>> /\ IsScores \subseteq Int
    /\ Len(Grid) \in Nat /\ DOMAIN Grid = 1..Len(Grid)
    /\ IsFiniteSet(Firms) /\ EvalFee \in [Firms -> Int]
    /\ Outcomes \subseteq Seq([trades : Nat, low : [Firms -> Int], mean : [Firms -> Int]])
    /\ \A o \in Outcomes, f \in Firms : \A i \in DOMAIN o : o[i].low[f] > NegInf /\ o[i].mean[f] > NegInf

VARIABLES
    plan,       \* start, is_months, oos_months, step_months and holdout_start
    folds,      \* the folds made so far
    stage,      \* of run_walk_forward: "folds", "score", "evaluate", "ranked" or "no folds"
    scores,     \* is_scored, as far as it is
    survivors,  \* the params that pruning kept, the best first
    results,    \* what the survivors achieved, as far as they are evaluated
    ranking     \* the admissible survivors, the best first

tuneVars == <<plan, folds, stage, scores, survivors, results, ranking>>

-----------------------------------------------------------------------------
(* make_folds                                                                *)

DaysIn(m) == MonthDays[((m - 1) % Len(MonthDays)) + 1]
\* pd.DateOffset
Plus(d, n) == <<d[1] + n, IF d[2] <= DaysIn(d[1] + n) THEN d[2] ELSE DaysIn(d[1] + n)>>
Before(d, e) == d[1] < e[1] \/ (d[1] = e[1] /\ d[2] < e[2])

Fold(k) ==
    LET isStart == Plus(plan.start, plan.step * k)
        isEnd == Plus(isStart, plan.is)
        warm == Plus(isStart, -WarmupMonths)
    IN  [warmup |-> IF Before(warm, plan.start) THEN plan.start ELSE warm,
         isStart |-> isStart, isEnd |-> isEnd,
         oosStart |-> isEnd, oosEnd |-> Plus(isEnd, plan.oos)]

DataEnd == <<Months + 1, 1>>

\* Mutant: the fold whose OOS window starts before the holdout is emitted.
TooLateStart(fold) == Before(plan.holdout, fold.oosStart) \/ Before(DataEnd, fold.oosEnd)
TooLate(fold) == Before(plan.holdout, fold.oosEnd) \/ Before(DataEnd, fold.oosEnd)

\* _sessions_in_window, _trades_in_window
In(d, from, to) == ~Before(d, from) /\ Before(d, to)

-----------------------------------------------------------------------------
(* run_walk_forward                                                          *)

\* params_hash: of the fields that _param_dict names.
Hash(n) == Grid[n].hashed

\* sorted(..., reverse=True) keeps the order of equals.
SortedDown(ids, Above(_, _)) ==
    LET Place(i) == Cardinality({j \in ids : Above(j, i) \/ (~Above(i, j) /\ j < i)}) + 1 IN
    [r \in 1..Cardinality(ids) |-> CHOOSE i \in ids : Place(i) = r]

\* _prune_top_k
Pruned ==
    LET best == SortedDown(DOMAIN scores, LAMBDA i, j : scores[i] > scores[j]) IN
    SubSeq(best, 1, Min({TopK, Len(best)}))

\* is_score_by_hash: the last of the grid with that hash counts.
ScoreOfHash(h) == scores[Max({n \in DOMAIN Grid : Hash(n) = h})]

\* The folds a firm has a summary of: those with a trade.
Traded(r) == {i \in DOMAIN results[r] : results[r][i].trades > 0}
TotalTrades(r) == MapThenSumSet(LAMBDA i : results[r][i].trades, DOMAIN results[r])

\* median_ev_ci_low, twice; worst_fold_ev_mean
Median(r, f) ==
    LET Low(i) == results[r][i].low[f]
        up == SortedDown(Traded(r), LAMBDA i, j : Low(i) < Low(j))
        n == Len(up)
    IN  Low(up[(n + 1) \div 2]) + Low(up[(n + 2) \div 2])
Worst(r, f) == Min({results[r][i].mean[f] : i \in Traded(r)})

\* admissible_firms
AdmissibleFirms(r) ==
    {f \in Firms : /\ TotalTrades(r) >= MinTrades /\ Traded(r) # {}
                   /\ Median(r, f) > 0 /\ Worst(r, f) > -EvalFee[f]}
Admissible == {r \in DOMAIN results : AdmissibleFirms(r) # {}}

\* `x or float("-inf")`: 0.0 is falsy.
OrNegInf(x) == IF x = 0 THEN NegInf ELSE x
AboveScore(x, y) == x[1] > y[1] \/ (x[1] = y[1] /\ x[2] > y[2])

\* Mutant: the first admissible firm speaks for the candidate.
BestScoreOfFirst(r) ==
    LET f == CHOOSE f \in AdmissibleFirms(r) : TRUE IN <<Median(r, f), OrNegInf(Worst(r, f))>>

\* best_admissible_score
BestScore(r) ==
    LET all == {<<Median(r, f), OrNegInf(Worst(r, f))>> : f \in AdmissibleFirms(r)} IN
    CHOOSE x \in all : \A y \in all : ~AboveScore(y, x)

\* _grid_neighbors, among the survivors: other params with one hashed field different.
Neighbors(r) ==
    {q \in DOMAIN survivors :
        LET mine == Hash(survivors[r])
            other == Hash(survivors[q])
        IN  Cardinality({k \in DOMAIN mine : mine[k] # other[k]}) = 1}

\* rank_plateau's key: the score, then the share of neighbors that are admissible.
RanksAbove(r, q) ==
    LET share(x) == <<Cardinality(Neighbors(x) \cap Admissible), Max({1, Cardinality(Neighbors(x))})>>
        s == share(r)
        t == share(q)
    IN  \/ AboveScore(BestScore(r), BestScore(q))
        \/ BestScore(r) = BestScore(q) /\ s[1] * t[2] > t[1] * s[2]

-----------------------------------------------------------------------------
TuneInit ==
    /\ plan \in [start : {1} \X StartDays, is : Lengths, oos : Lengths, step : Lengths,
                 holdout : {<<Months - 2, 1>>, <<Months + 2, 1>>}]
    /\ folds = <<>> /\ stage = "folds"
    /\ scores = <<>> /\ survivors = <<>> /\ results = <<>> /\ ranking = <<>>

\* One turn of make_folds' loop; run_walk_forward refuses to go on without a fold.
FoldNext ==
    LET fold == Fold(Len(folds)) IN
    /\ stage = "folds"
    /\ IF TooLate(fold)
       THEN /\ stage' = IF folds = <<>> THEN "no folds" ELSE "score"
            /\ UNCHANGED folds
       ELSE folds' = Append(folds, fold) /\ UNCHANGED stage
    /\ UNCHANGED <<plan, scores, survivors, results, ranking>>

\* The in-sample score of the next params, over all folds; NegInf if none traded.
ScoreNext ==
    /\ stage = "score" /\ Len(scores) < Len(Grid)
    /\ \E s \in IsScores : scores' = Append(scores, s)
    /\ UNCHANGED <<plan, folds, stage, survivors, results, ranking>>

Prune ==
    /\ stage = "score" /\ Len(scores) = Len(Grid)
    /\ stage' = "evaluate" /\ survivors' = Pruned
    /\ UNCHANGED <<plan, folds, scores, results, ranking>>

\* _evaluate_candidate_oos, for the next survivor.
EvaluateNext ==
    /\ stage = "evaluate" /\ Len(results) < Len(survivors)
    /\ \E o \in Outcomes : results' = Append(results, o)
    /\ UNCHANGED <<plan, folds, stage, scores, survivors, ranking>>

\* rank_plateau
RankAll ==
    /\ stage = "evaluate" /\ Len(results) = Len(survivors)
    /\ stage' = "ranked" /\ ranking' = SortedDown(Admissible, RanksAbove)
    /\ UNCHANGED <<plan, folds, scores, survivors, results>>

TuneNext == FoldNext \/ ScoreNext \/ Prune \/ EvaluateNext \/ RankAll

TuneSpec == TuneInit /\ [][TuneNext]_tuneVars

-----------------------------------------------------------------------------
(* Properties                                                                *)

Shortest == Min({MonthDays[i] : i \in DOMAIN MonthDays})

\* No session is scored out of sample by two folds, nor within a fold after it was
\* tuned on, nor in the holdout as well.  Folds stepped by less than oos_months overlap
\* by design, and so may those of a start on a day that some month does not have.
SessionsScoredOnce ==
    LET Days == UNION {{m} \X (1..DaysIn(m)) : m \in 1..Months}
        Scored == [k \in DOMAIN folds |-> {d \in Days : In(d, folds[k].oosStart, folds[k].oosEnd)}]
    IN  stage = "folds" => \A k \in DOMAIN folds :
        /\ \A d \in Scored[k] : /\ Before(d, plan.holdout)
                               /\ ~In(d, folds[k].warmup, folds[k].isEnd)
        /\ (plan.step >= plan.oos /\ plan.start[2] <= Shortest) =>
              \A j \in 1..k - 1 : Scored[j] \cap Scored[k] = {}

\* The ranking is of the admissible survivors, and none stands below one that every
\* firm likes less, unless a worst fold of exactly 0 is read as none; no params were
\* pruned for worse ones, and those whose hash is their own keep their score.
SelectionSound ==
    LET Likes(r, f) == <<Median(r, f), Worst(r, f)>>
        Zero(r) == \E f \in AdmissibleFirms(r) : Worst(r, f) = 0
    IN  stage = "ranked" =>
        /\ {ranking[x] : x \in DOMAIN ranking} = Admissible
        /\ \A x, y \in DOMAIN ranking : x < y /\ ~Zero(ranking[x]) /\ ~Zero(ranking[y]) =>
              \E f \in AdmissibleFirms(ranking[x]) : \A g \in AdmissibleFirms(ranking[y]) :
                  ~AboveScore(Likes(ranking[y], g), Likes(ranking[x], f))
        /\ \A r \in DOMAIN survivors :
              /\ \A n \in DOMAIN Grid : scores[n] > scores[survivors[r]] =>
                    \E q \in 1..r : survivors[q] = n
              /\ (\A n \in DOMAIN Grid : Hash(n) = Hash(survivors[r]) => n = survivors[r]) =>
                    ScoreOfHash(Hash(survivors[r])) = scores[survivors[r]]
=============================================================================

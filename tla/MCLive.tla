------------------------------- MODULE MCLive -------------------------------
(***************************************************************************)
(* A live session, the account monitor of the supervisor beside it, or the    *)
(* rate limiter of a client: they share no state, so each is run alone while  *)
(* the others stay as they began.                                            *)
(***************************************************************************)
EXTENDS LiveSession, AccountWatch, RateLimiter

VARIABLE part

mcVars == <<part, vars, watchVars, limiterVars>>

MCInit ==
    /\ part \in {"session", "watch", "limiter"}
    /\ Init
    /\ IF part = "watch" THEN WatchInit
       ELSE WatchInit /\ shown = NothingListed
    /\ LimiterInit

MCNext ==
    \/ part = "session" /\ Next /\ UNCHANGED <<part, watchVars, limiterVars>>
    \/ part = "watch" /\ WatchNext /\ UNCHANGED <<part, vars, limiterVars>>
    \/ part = "limiter" /\ LimiterNext /\ UNCHANGED <<part, vars, watchVars>>

\* A session's process keeps running and does not wait for a failing call.  Nothing is
\* asked of the monitor: its supervisor may be stopped, and its listing need not answer.
Fairness ==
    WF_mcVars(part = "session" /\ Step /\ CallOk /\ UNCHANGED <<part, watchVars, limiterVars>>)

MCSpec == MCInit /\ [][MCNext]_mcVars /\ Fairness
=============================================================================

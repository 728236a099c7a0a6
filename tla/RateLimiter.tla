----------------------------- MODULE RateLimiter -----------------------------
(***************************************************************************)
(* RateLimiter of src/live/projectx.py, which ProjectXClient._post asks       *)
(* before every request: one of 50 requests in 30 s for bars, one of 200 in   *)
(* 60 s for the rest.  A client is used by one thread.                        *)
(*                                                                         *)
(* Time is the age of what happened.  A sleep may take up to Overshoot longer *)
(* than it was asked for; acquire then records the time it meant to wake at   *)
(* and not the time it woke at: `now` was bound by its first line, so the     *)
(* second look at the clock never happens.                                    *)
(***************************************************************************)
EXTENDS Integers, Sequences

CONSTANTS
    MaxRequests,   \* max_requests
    Per,           \* per_seconds
    Overshoot      \* bound: what a sleep takes too long

ASSUME RateLimiterAssumption ==
    /\ MaxRequests \in Nat \ {0} /\ Per \in Nat \ {0} /\ Overshoot \in Nat

VARIABLES
    stamps,   \* _timestamps, as ages: oldest first
    sent      \* the ages of the last MaxRequests + 1 requests

limiterVars == <<stamps, sent>>

LimiterInit == stamps = <<>> /\ sent = <<>>

\* Ages beyond Per + Overshoot are alike.
OldAge == Per + Overshoot
Aged(s, d) == [i \in DOMAIN s |-> IF s[i] + d < OldAge THEN s[i] + d ELSE OldAge]

\* The timestamps within the window that ends `late` ago: as they are in order, those
\* that are out of it come first.
Expired(s, late) == CHOOSE n \in 0..Len(s) : \A i \in DOMAIN s : i <= n <=> s[i] - late >= Per
InWindow(s, late) == SubSeq(s, Expired(s, late) + 1, Len(s))

SentNow(s) == LET all == Append(s, 0) IN IF Len(all) > MaxRequests + 1 THEN Tail(all) ELSE all

\* Time passes between requests.
Wait == stamps' = Aged(stamps, 1) /\ sent' = Aged(sent, 1)

\* Mutant: one request more.
FullAfterOneMore == Len(InWindow(stamps, 0)) > MaxRequests

Full == Len(InWindow(stamps, 0)) >= MaxRequests

\* acquire, and the request; one without a token is refused after acquire.
AcquireAtOnce ==
    /\ ~Full
    /\ stamps' = Append(InWindow(stamps, 0), 0)
    /\ sent' \in {sent, SentNow(sent)}

AcquireAfterSleep ==
    /\ Full
    /\ \E late \in 0..Overshoot :
          LET slept == Per - InWindow(stamps, 0)[1] + late IN
          /\ stamps' = Append(InWindow(Aged(InWindow(stamps, 0), slept), late), late)
          /\ sent' \in {Aged(sent, slept), SentNow(Aged(sent, slept))}

LimiterNext == Wait \/ AcquireAtOnce \/ AcquireAfterSleep

LimiterSpec == LimiterInit /\ [][LimiterNext]_limiterVars

\* The gateway's limit, but for what a sleep overran: when a request goes out, the one
\* MaxRequests before it is Per - Overshoot old at least.  With punctual sleeps no
\* window of length Per holds more than MaxRequests.
LimitHolds ==
    (Len(sent) = MaxRequests + 1 /\ sent[Len(sent)] = 0) => sent[1] >= Per - Overshoot
=============================================================================

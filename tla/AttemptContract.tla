-------------------------- MODULE AttemptContract --------------------------
(***************************************************************************)
(* What every driver of src/pipeline promises of the account it plays an      *)
(* attempt with, whatever the firm and whether the trades are sampled or      *)
(* replayed: a session is traded in one phase of the account, on an account   *)
(* that takes the trade; a payout is asked for between two sessions; and the  *)
(* attempt ends once, with the one reason that the account bears out.         *)
(***************************************************************************)
EXTENDS Integers, FiniteSets

VARIABLES
    at,       \* what the driver does next
    status,   \* of the account: open, locked for the session, breached or retired
    funded,   \* the evaluation is passed
    payouts,  \* payouts of the account
    gross,    \* what the driver counted of them
    result    \* the flags of the result

vars == <<at, status, funded, payouts, gross, result>>

Reasons == {"eval_breach", "eval_timeout", "capped", "closed", "funded_timeout"}

\* The one reason, and what the account says of it.
Verdict(reasons, passed, end) ==
    /\ reasons \subseteq Reasons /\ Cardinality(reasons) = 1
    /\ passed <=> reasons \cap {"eval_breach", "eval_timeout"} = {}
    /\ end = "breached" <=> reasons \cap {"eval_breach", "closed"} # {}
    /\ end = "retired" => "capped" \in reasons

Init == /\ at \in {"hand", "day"} /\ status = "open" /\ ~funded /\ payouts = 0
        /\ gross = 0 /\ result = {}

\* An account no driver plays with promises what TrailingAccount says.
ByHand == at = "hand" /\ at' = "hand"

\* A session begins on an account that takes a trade.
Begin ==
    /\ at = "day" /\ at' = "trades" /\ status = "open"
    /\ UNCHANGED <<status, funded, payouts, gross, result>>

\* The session goes on in the phase it began in, and only while the account trades:
\* a pass ends it, and so does the end of the account.
Trade ==
    /\ at = "trades" /\ status = "open" /\ UNCHANGED <<payouts, gross>>
    /\ \/ at' = "trades" /\ status' = "open" /\ UNCHANGED <<funded, result>>
       \/ at' = "close" /\ status' \in {"open", "locked"} /\ UNCHANGED <<funded, result>>
       \/ at' = "day" /\ status' = "open" /\ ~funded /\ funded' /\ result' = {"passed"}
       \/ at' = "dead" /\ status' = "breached" /\ funded /\ UNCHANGED <<funded, result>>

Close ==
    /\ at = "close" /\ status' = "open" /\ UNCHANGED <<payouts, gross>>
    /\ at' = IF funded THEN "payout" ELSE "day"
    /\ funded => funded'
    /\ result' = IF funded' THEN {"passed"} ELSE {}

\* A payout is counted when the account paid it, and not when it refused.
Paid == \/ UNCHANGED <<payouts, gross>>
        \/ payouts' = payouts + 1 /\ gross' > gross

Payout ==
    /\ at = "payout" /\ status = "open" /\ funded /\ at' = "day" /\ status' = "open"
    /\ Paid
    /\ UNCHANGED <<funded, result>>

\* A breached account starts over unpaid, or the attempt is over.
Reactivate ==
    /\ at = "dead" /\ at' = "day" /\ status' = "open" /\ payouts = 0
    /\ UNCHANGED <<funded, payouts, gross, result>>

Finish ==
    /\ at \in {"day", "trades", "payout", "dead"} /\ at' = "done"
    /\ funded' = funded /\ Paid /\ (payouts' # payouts => at = "payout")
    /\ "passed" \in result' <=> funded'
    /\ Verdict(result' \ {"passed"}, funded', status')

Next == ByHand \/ Begin \/ Trade \/ Close \/ Payout \/ Reactivate \/ Finish

Spec == Init /\ [][Next]_vars
=============================================================================

---------------------------- MODULE AccountWatch ----------------------------
(***************************************************************************)
(* The account monitor (src/monitor): every minute of an idle supervisor,     *)
(* AccountPollingService.poll lists the broker's accounts, AccountMonitor     *)
(* compares them with accounts.json and overwrites it, the transitions go to  *)
(* the Outbox (a table whose transition_key is unique), and what is pending   *)
(* there is sent to Telegram.  One supervisor polls at a time; it may die     *)
(* between any two steps and be started again.                                *)
(*                                                                         *)
(* The listing is modelled as a call that answers or fails.  The method that  *)
(* poll calls, list_accounts, is not one of ProjectXClient: as the code is,   *)
(* it always fails, and the poll ends before the table is read.  Nothing is   *)
(* assumed of how often a poll happens or answers: what is stated here holds  *)
(* of every prefix, and nothing is promised to be sent in the end.            *)
(***************************************************************************)
EXTENDS Integers, Sequences, FiniteSets

CONSTANTS
    Accounts,         \* ids of the broker's accounts
    Limit,            \* rows a poll sends at most
    MaxChanges,       \* bound: changes of the broker's accounts
    MaxWatchFaults    \* bound: failed calls and deaths of the supervisor

ASSUME AccountWatchAssumption ==
    /\ Accounts \subseteq Nat /\ IsFiniteSet(Accounts)
    /\ Limit \in Nat \ {0} /\ MaxChanges \in Nat /\ MaxWatchFaults \in Nat

VARIABLES
    shown,      \* broker: what is listed of each account
    snapshot,   \* accounts.json
    rows,       \* notification_outbox, in the order of its ids
    poll,       \* the running poll
    chat,       \* ids of the rows that reached the chat, in the order they did
    watch       \* first snapshot, whether transitions were lost, the copies in the chat
                \* that were not marked; faults and changes so far

watchVars == <<shown, snapshot, rows, poll, chat, watch>>

\* An account is not listed, or listed with its can_trade.
Views == {"absent", "tradable", "blocked"}
NothingListed == [a \in Accounts |-> "absent"]
Idle == [pc |-> "idle", found |-> {}, batch |-> {}]

WatchInit ==
    /\ shown \in [Accounts -> {"absent", "tradable"}]
    /\ snapshot = [initialized |-> FALSE, at |-> 0, accounts |-> NothingListed]
    /\ rows = <<>> /\ poll = Idle /\ chat = <<>>
    /\ watch = [first |-> NothingListed, lost |-> FALSE, unmarked |-> 0, faults |-> 0, changes |-> 0]

\* observed_at: only whether two of them are equal matters, so the least one that no
\* key and no snapshot holds.
Marks == {snapshot.at} \union {rows[n].key.mark : n \in 1..Len(rows)}
Unused == (1..Len(rows) + 2) \ Marks
FreshMark == CHOOSE n \in Unused : \A m \in Unused : n <= m

\* Mutant: every removal of an account has the same key.
RemovedKeyUndated(a) == [account |-> a, kind |-> "removed", mark |-> 0]
RemovedKey(a) == [account |-> a, kind |-> "removed", mark |-> snapshot.at]

\* observe: the transitions between the snapshot and a listing made at `now`.
Transitions(listed, now) ==
    LET old == snapshot.accounts
        appeared == {a \in Accounts : old[a] = "absent" /\ listed[a] # "absent"}
        removed == {a \in Accounts : old[a] # "absent" /\ listed[a] = "absent"}
        changed == {a \in Accounts : old[a] # listed[a]} \ (appeared \union removed)
    IN  IF ~snapshot.initialized THEN {}
        ELSE {[key |-> [account |-> a, kind |-> "new", mark |-> 0], view |-> listed[a]] : a \in appeared}
             \union {[key |-> RemovedKey(a), view |-> "absent"] : a \in removed}
             \union {[key |-> [account |-> a, kind |-> listed[a], mark |-> now], view |-> listed[a]]
                        : a \in changed}

\* They are enqueued kind by kind, and by account.
Rank(key) == CASE key.kind = "new" -> 1 [] key.kind = "removed" -> 2 [] OTHER -> 3
Precedes(x, y) ==
    \/ Rank(x.key) < Rank(y.key)
    \/ Rank(x.key) = Rank(y.key) /\ x.key.account <= y.key.account

-----------------------------------------------------------------------------
\* An account appears, disappears, or may trade or no longer.
BrokerChanges ==
    /\ watch.changes < MaxChanges /\ watch' = [watch EXCEPT !.changes = @ + 1]
    /\ \E a \in Accounts, v \in Views : v # shown[a] /\ shown' = [shown EXCEPT ![a] = v]
    /\ UNCHANGED <<snapshot, rows, poll, chat>>

\* A call of the poll fails, or the supervisor dies: the rest of the poll is gone.
PollEnds ==
    /\ watch.faults < MaxWatchFaults
    /\ watch' = [watch EXCEPT !.faults = @ + 1, !.lost = @ \/ poll.found # {},
                              !.unmarked = IF poll.pc = "mark" THEN @ + 1 ELSE @]
    /\ poll' = Idle
    /\ UNCHANGED <<shown, snapshot, rows, chat>>

\* The listing and observe.
Observe ==
    /\ poll.pc = "idle"
    /\ LET found == Transitions(shown, FreshMark) IN
       poll' = [Idle EXCEPT !.pc = IF found = {} THEN "read" ELSE "enqueue", !.found = found]
    /\ snapshot' = [initialized |-> TRUE, at |-> FreshMark, accounts |-> shown]
    /\ watch' = IF snapshot.initialized THEN watch ELSE [watch EXCEPT !.first = shown]
    /\ UNCHANGED <<shown, rows, chat>>

\* Outbox.enqueue: a key that is there already is ignored.
Enqueue ==
    /\ poll.pc = "enqueue"
    /\ LET event == CHOOSE e \in poll.found : \A f \in poll.found : Precedes(e, f)
           rest == poll.found \ {event}
       IN  /\ rows' = IF \E n \in 1..Len(rows) : rows[n].key = event.key THEN rows
                      ELSE Append(rows, [key |-> event.key, view |-> event.view,
                                         attempts |-> 0, delivered |-> FALSE])
           /\ poll' = [poll EXCEPT !.found = rest, !.pc = IF rest = {} THEN "read" ELSE @]
    /\ UNCHANGED <<shown, snapshot, chat, watch>>

\* Mutant: what is delivered is not left out.
UndeliveredOrNot == 1..Len(rows)
Undelivered == {n \in 1..Len(rows) : ~rows[n].delivered}

\* Mutant: the newest row of a batch goes first.
NewestOf(ids) == CHOOSE n \in ids : \A m \in ids : n >= m
Oldest(ids) == CHOOSE n \in ids : \A m \in ids : n <= m

\* Outbox.pending: the oldest rows, delivered_at IS NULL.
Pending == {n \in Undelivered : Cardinality({m \in Undelivered : m < n}) < Limit}

ReadPending ==
    /\ poll.pc = "read"
    /\ poll' = [poll EXCEPT !.batch = Pending, !.pc = IF Pending = {} THEN "idle" ELSE "send"]
    /\ UNCHANGED <<shown, snapshot, rows, chat, watch>>

\* TelegramNotifier.send: the message arrives and the reply too, or the reply is lost,
\* or neither arrives.
Send ==
    /\ poll.pc = "send"
    /\ \/ /\ poll' = [poll EXCEPT !.pc = "mark"]
          /\ chat' = Append(chat, Oldest(poll.batch))
          /\ watch' = watch
       \/ /\ watch.faults < MaxWatchFaults
          /\ poll' = [poll EXCEPT !.pc = "record"]
          /\ \/ /\ chat' = Append(chat, Oldest(poll.batch))
                /\ watch' = [watch EXCEPT !.faults = @ + 1, !.unmarked = @ + 1]
             \/ chat' = chat /\ watch' = [watch EXCEPT !.faults = @ + 1]
    /\ UNCHANGED <<shown, snapshot, rows>>

\* The next row of the batch.
NextRow ==
    LET rest == poll.batch \ {Oldest(poll.batch)} IN
    poll' = IF rest = {} THEN Idle ELSE [poll EXCEPT !.pc = "send", !.batch = rest]

\* Outbox.mark_delivered
MarkDelivered ==
    /\ poll.pc = "mark" /\ NextRow
    /\ rows' = [rows EXCEPT ![Oldest(poll.batch)].delivered = TRUE]
    /\ UNCHANGED <<shown, snapshot, chat, watch>>

\* Outbox.record_failure
RecordFailure ==
    /\ poll.pc = "record" /\ NextRow
    /\ rows' = [rows EXCEPT ![Oldest(poll.batch)].attempts = @ + 1]
    /\ UNCHANGED <<shown, snapshot, chat, watch>>

WatchStep ==
    Observe \/ Enqueue \/ ReadPending \/ Send \/ MarkDelivered \/ RecordFailure

WatchNext == BrokerChanges \/ PollEnds \/ WatchStep

WatchSpec == WatchInit /\ [][WatchNext]_watchVars

-----------------------------------------------------------------------------
(* Properties                                                                *)

\* What the outbox says last of an account.
Told(a) ==
    LET about == {n \in 1..Len(rows) : rows[n].key.account = a} IN
    IF about = {} THEN watch.first[a]
    ELSE rows[CHOOSE n \in about : \A m \in about : m <= n].view

\* Removed after it was announced as new: should it come back, its key is taken.
GoneOnce(a) ==
    \E m, n \in 1..Len(rows) :
        m < n /\ rows[m].key.account = a /\ rows[m].key.kind = "new"
              /\ rows[n].key.account = a /\ rows[n].key.kind = "removed"

\* No transition is swallowed by the unique key or by the overwritten snapshot: once
\* they are enqueued, the outbox and accounts.json agree on every account, unless a
\* poll ended before it had enqueued what it found, or the account was announced as
\* new and removed before.
OutboxTellsSnapshot ==
    (snapshot.initialized /\ poll.pc # "enqueue" /\ ~watch.lost) =>
        \A a \in Accounts : GoneOnce(a) \/ Told(a) = snapshot.accounts[a]

InTheChat == {chat[k] : k \in 1..Len(chat)}

\* Every older row than one in the chat came before it and not again, or had failed.
InTurn ==
    \A k \in 1..Len(chat), n \in 1..Len(rows) :
        (n < chat[k] /\ rows[n].attempts = 0) =>
            /\ \E i \in 1..Len(chat) : i < k /\ chat[i] = n
            /\ \A i \in 1..Len(chat) : k < i => chat[i] # n

\* What the chat is told, over any polls, deaths and lost replies: a row marked
\* delivered is there; a row comes again only for a copy whose reply was lost or
\* whose mark a death prevented, once for each; and a transition is overtaken by a
\* later one only if an attempt to send it had failed (AccountPollingService.poll,
\* Outbox.pending, mark_delivered, record_failure).
ChatGetsRowsInTurn ==
    /\ \A n \in 1..Len(rows) : rows[n].delivered => n \in InTheChat
    /\ Len(chat) <= Cardinality(InTheChat) + watch.unmarked
    /\ InTurn
=============================================================================

-------------------------- MODULE Services_proofs --------------------------
(***************************************************************************)
(* What runs beside a session: the outbox of the account monitor tells of      *)
(* every account what the monitor's snapshot holds, the chat gets its rows in  *)
(* turn, and a client's rate limiter keeps to the gateway's limit, for any      *)
(* accounts, limits and bounds.                                             *)
(***************************************************************************)
EXTENDS AccountWatch, RateLimiter, FiniteSetTheorems, SequenceTheorems,
        WellFoundedInduction, TLAPS

\* Every nonempty set of naturals has a least element.
LEMMA LeastNatural ==
    ASSUME NEW T, T \subseteq Nat, T # {}
    PROVE  \E x \in T : \A y \in T : x <= y
<1>1. PICK x \in T : \A y \in T : ~ (<<y, x>> \in OpToRel(<, Nat))
  BY NatLessThanWellFounded, WFMin, Zenon
<1>2. \A y \in T : <<y, x>> \in OpToRel(<, Nat) <=> y < x
  BY DEF OpToRel
<1>3. \A y \in T : x \in Nat /\ y \in Nat /\ ~(y < x)
  BY <1>1, <1>2
<1> QED BY <1>3

-----------------------------------------------------------------------------
(* The account monitor                                                       *)

Keys == [account : Accounts, kind : {"new", "removed", "tradable", "blocked"}, mark : Nat]
Events == [key : Keys, view : Views]
Rows == [key : Keys, view : Views, attempts : Nat, delivered : BOOLEAN]

WatchTypeOK ==
    /\ shown \in [Accounts -> Views]
    /\ snapshot \in [initialized : BOOLEAN, at : Nat, accounts : [Accounts -> Views]]
    /\ rows \in Seq(Rows)
    /\ poll \in [pc : {"idle", "enqueue", "read", "send", "mark", "record"},
                 found : SUBSET Events, batch : SUBSET Nat]
    /\ watch \in [first : [Accounts -> Views], lost : BOOLEAN, unmarked : Nat, faults : Nat, changes : Nat]

\* What is found waits for "enqueue", an account's transition is found once, and before
\* the first listing there is nothing to tell.
PollOK ==
    /\ poll.pc = "enqueue" <=> poll.found # {}
    /\ \A e, f \in poll.found : e.key.account = f.key.account => e = f
    /\ ~snapshot.initialized => rows = <<>> /\ poll.found = {}

\* A removed account's key holds the snapshot before the one it is not in, so the next
\* removal has another; and only a removal tells of no account.
RemovalsDated ==
    /\ \A n \in 1..Len(rows) :
          /\ rows[n].key.kind = "removed" <=> rows[n].view = "absent"
          /\ rows[n].key.kind = "removed" => rows[n].key.mark # snapshot.at
    /\ \A e \in poll.found :
          /\ e.key.kind = "removed" <=> e.view = "absent"
          /\ e.key.kind = "removed" => e.key.mark # snapshot.at

HasKey(key) == \E n \in 1..Len(rows) : rows[n].key = key

\* What is found is not in the outbox, and it or the outbox tells what the snapshot holds.
FoundTells ==
    (snapshot.initialized /\ ~watch.lost) =>
        /\ \A e \in poll.found : HasKey(e.key) => GoneOnce(e.key.account)
        /\ \A e \in poll.found : e.view = snapshot.accounts[e.key.account]
        /\ \A a \in Accounts :
              (\A e \in poll.found : e.key.account # a)
                 => GoneOnce(a) \/ Told(a) = snapshot.accounts[a]

WatchInv == WatchTypeOK /\ PollOK /\ RemovalsDated /\ FoundTells

\* Every nonempty set of numbers up to n has a greatest element.
LEMMA GreatestNatural ==
    ASSUME NEW n \in Nat, NEW T, T \subseteq 1..n, T # {}
    PROVE  \E x \in T : \A y \in T : y <= x
<1> DEFINE U == {n - y : y \in T}
<1>1. U \subseteq Nat /\ U # {}
  <2>1. \A y \in T : y \in 1..n
    OBVIOUS
  <2>2. \A y \in T : n - y \in Nat
    BY <2>1
  <2> QED BY <2>2
<1> HIDE DEF U
<1>2. PICK u \in U : \A v \in U : u <= v
  BY <1>1, LeastNatural
<1>3. PICK x \in T : u = n - x
  BY DEF U
<1>4. \A y \in T : u <= n - y /\ y \in 1..n /\ x \in 1..n
  BY <1>2 DEF U
<1>5. \A y \in T : y <= x
  BY <1>3, <1>4
<1> QED BY <1>5

\* The mark of a new snapshot is of no row and not of the last snapshot.
LEMMA FreshMarkIsNew ==
    ASSUME WatchTypeOK
    PROVE  /\ FreshMark \in Nat /\ FreshMark # snapshot.at
           /\ \A n \in 1..Len(rows) : FreshMark # rows[n].key.mark
<1> DEFINE L == Len(rows)
<1>1. L \in Nat /\ snapshot.at \in Nat
  BY DEF WatchTypeOK
<1>2. IsFiniteSet(Marks) /\ Cardinality(Marks) <= L + 1
  <2> DEFINE f == [n \in 1..L |-> rows[n].key.mark]  M == {rows[n].key.mark : n \in 1..L}
  <2>1. f \in Surjection(1..L, M)
    BY DEF Surjection
  <2>2. IsFiniteSet(1..L) /\ Cardinality(1..L) = L
    <3>1. 1 \in Int /\ L \in Int /\ (IF 1 > L THEN 0 ELSE L - 1 + 1) = L
      BY <1>1
    <3> HIDE DEF L
    <3> QED BY <3>1, FS_Interval
  <2> HIDE DEF f, M, L
  <2>3. IsFiniteSet(M) /\ Cardinality(M) <= L
    BY <2>1, <2>2, FS_Surjection
  <2>4. IsFiniteSet({snapshot.at}) /\ Cardinality({snapshot.at}) = 1
    BY FS_Singleton
  <2>5. IsFiniteSet(M) /\ Cardinality(M) \in Nat
    BY <2>3, FS_CardinalityType
  <2>6. /\ IsFiniteSet({snapshot.at} \union M)
        /\ Cardinality({snapshot.at} \union M) <= Cardinality({snapshot.at}) + Cardinality(M)
    <3>1. /\ IsFiniteSet({snapshot.at} \union M)
          /\ Cardinality({snapshot.at} \union M)
                = Cardinality({snapshot.at}) + Cardinality(M) - Cardinality({snapshot.at} \cap M)
      BY <2>3, <2>4, FS_Union
    <3>2. Cardinality({snapshot.at} \cap M) \in Nat
      BY <2>4, FS_Intersection, FS_CardinalityType
    <3> QED BY <2>4, <2>5, <3>1, <3>2
  <2>7. Marks = {snapshot.at} \union M
    BY DEF Marks, M, L
  <2> QED BY <1>1, <2>3, <2>4, <2>5, <2>6, <2>7, FS_CardinalityType
<1> HIDE DEF L
<1>3. Unused # {}
  <2> SUFFICES ASSUME 1..(L + 2) \subseteq Marks PROVE FALSE
    BY DEF Unused, L
  <2>1. IsFiniteSet(1..(L + 2)) /\ Cardinality(1..(L + 2)) = L + 2
    BY <1>1, FS_Interval
  <2>2. Cardinality(1..(L + 2)) <= Cardinality(Marks)
    BY <1>2, FS_Subset
  <2>3. Cardinality(Marks) \in Nat
    BY <1>2, FS_CardinalityType
  <2> QED BY <1>1, <1>2, <2>1, <2>2, <2>3
<1>4. Unused \subseteq Nat
  BY <1>1 DEF Unused, L
<1>5. \E n \in Unused : \A m \in Unused : n <= m
  BY <1>3, <1>4, LeastNatural
<1>6. FreshMark \in Unused
  BY <1>5 DEF FreshMark
<1> QED BY <1>4, <1>6 DEF Unused, Marks

\* The transition to enqueue next is one of those found.
LEMMA NextIsFound ==
    ASSUME WatchTypeOK, poll.found # {}
    PROVE  (CHOOSE e \in poll.found : \A f \in poll.found : Precedes(e, f)) \in poll.found
<1> USE AccountWatchAssumption
<1>1. \A e \in poll.found : Rank(e.key) \in Nat /\ e.key.account \in Nat
  BY DEF WatchTypeOK, Events, Keys, Rank
<1> DEFINE Ranks == {Rank(e.key) : e \in poll.found}
<1>2. Ranks \subseteq Nat /\ Ranks # {}
  BY <1>1
<1> HIDE DEF Ranks
<1>3. PICK r \in Ranks : \A q \in Ranks : r <= q
  BY <1>2, LeastNatural
<1> DEFINE First == {e \in poll.found : Rank(e.key) = r}
           Ids == {e.key.account : e \in First}
<1>4. Ids \subseteq Nat /\ Ids # {}
  BY <1>1, <1>3 DEF Ranks
<1> HIDE DEF Ids
<1>5. PICK i \in Ids : \A j \in Ids : i <= j
  BY <1>4, LeastNatural
<1>6. PICK e \in First : e.key.account = i
  BY DEF Ids
<1>7. ASSUME NEW f \in poll.found PROVE Precedes(e, f)
  <2>1. Rank(f.key) \in Nat /\ r \in Nat /\ r <= Rank(f.key) /\ Rank(e.key) = r
    BY <1>1, <1>2, <1>3, <1>6 DEF Ranks
  <2>2. Rank(f.key) = r => i <= f.key.account
    BY <1>5 DEF Ids
  <2> QED BY <1>6, <2>1, <2>2 DEF Precedes
<1>8. \E x \in poll.found : \A f \in poll.found : Precedes(x, f)
  BY <1>6, <1>7
<1> QED BY <1>8


\* The rows about an account, and the newest of some rows.
About(a) == {n \in 1..Len(rows) : rows[n].key.account = a}
Newest(ids) == CHOOSE n \in ids : \A m \in ids : m <= n

\* There is a newest row about an account if there is any, and it is what Told reads.
LEMMA ToldIsNewest ==
    ASSUME NEW a, rows \in Seq(Rows)
    PROVE  /\ Told(a) = IF About(a) = {} THEN watch.first[a] ELSE rows[Newest(About(a))].view
           /\ About(a) # {} => /\ Newest(About(a)) \in About(a)
                               /\ \A m \in About(a) : m <= Newest(About(a))
<1>1. Len(rows) \in Nat /\ About(a) \subseteq 1..Len(rows)
  BY DEF About
<1>2. About(a) # {} => \E n \in About(a) : \A m \in About(a) : m <= n
  BY <1>1, GreatestNatural
<1>3. About(a) # {} => /\ Newest(About(a)) \in About(a)
                       /\ \A m \in About(a) : m <= Newest(About(a))
  BY <1>2 DEF Newest
<1>4. Told(a) = IF About(a) = {} THEN watch.first[a] ELSE rows[Newest(About(a))].view
  BY DEF Told, About, Newest
<1> QED BY <1>3, <1>4

\* An outbox that changes only in its attempts and deliveries tells the same.
LEMMA SameRowsTell ==
    ASSUME rows \in Seq(Rows), Len(rows') = Len(rows),
           \A n \in 1..Len(rows) : rows'[n].key = rows[n].key /\ rows'[n].view = rows[n].view,
           watch'.first = watch.first, NEW a
    PROVE  Told(a)' = Told(a) /\ (GoneOnce(a) => GoneOnce(a)')
<1>1. About(a)' = About(a)
  BY DEF About
<1>2. Told(a)' = IF About(a)' = {} THEN watch'.first[a] ELSE rows'[Newest(About(a)')].view
  BY DEF Told, About, Newest
<1>3. Newest(About(a)') = Newest(About(a))
  BY <1>1
<1>4. Told(a)' = Told(a)
  <2>1. About(a) # {} => Newest(About(a)) \in 1..Len(rows)
    BY ToldIsNewest DEF About
  <2>2. CASE About(a) = {}
    BY <1>1, <1>2, <2>2, ToldIsNewest
  <2>3. CASE About(a) # {}
    BY <1>1, <1>2, <1>3, <2>1, <2>3, ToldIsNewest
  <2> QED BY <2>2, <2>3
<1>5. GoneOnce(a) => GoneOnce(a)'
  BY DEF GoneOnce
<1> QED BY <1>4, <1>5

\* A new row tells of its account, and nothing new of another.
LEMMA NewRowTells ==
    ASSUME rows \in Seq(Rows), NEW row \in Rows, rows' = Append(rows, row),
           watch'.first = watch.first, NEW a
    PROVE  /\ Told(a)' = IF a = row.key.account THEN row.view ELSE Told(a)
           /\ GoneOnce(a) => GoneOnce(a)'
<1>1. /\ Len(rows) \in Nat /\ Len(rows') = Len(rows) + 1 /\ rows'[Len(rows) + 1] = row
      /\ \A n \in 1..Len(rows) : rows'[n] = rows[n]
  OBVIOUS
<1>2. rows' \in Seq(Rows)
  OBVIOUS
<1>3. Told(a)' = IF About(a)' = {} THEN watch'.first[a] ELSE rows'[Newest(About(a)')].view
  BY DEF Told, About, Newest
<1>4. GoneOnce(a) => GoneOnce(a)'
  BY <1>1 DEF GoneOnce
<1>5. CASE a = row.key.account
  <2> DEFINE next == About(a)'
  <2>1. Len(rows) + 1 \in next /\ next \subseteq 1..Len(rows) + 1
    BY <1>1, <1>5 DEF About
  <2>2. Newest(next) = Len(rows) + 1
    <3> HIDE DEF next
    <3>1. \E n \in next : \A m \in next : m <= n
      BY <1>1, <2>1
    <3>2. Newest(next) \in next /\ \A m \in next : m <= Newest(next)
      BY <3>1 DEF Newest
    <3>3. Newest(next) \in 1..Len(rows) + 1 /\ Len(rows) + 1 <= Newest(next)
      BY <2>1, <3>2
    <3> QED BY <1>1, <3>3
  <2>3. next # {}
    BY <2>1
  <2>4. Told(a)' = rows'[Len(rows) + 1].view
    BY <1>3, <2>2, <2>3
  <2> QED BY <1>1, <1>5, <1>4, <2>4
<1>6. CASE a # row.key.account
  <2>1. About(a)' = About(a)
    BY <1>1, <1>6 DEF About
  <2>2. About(a) # {} => Newest(About(a)) \in 1..Len(rows)
    BY ToldIsNewest DEF About
  <2>3. Newest(About(a)') = Newest(About(a))
    BY <2>1
  <2>4. Told(a)' = Told(a)
    <3>1. CASE About(a) = {}
      BY <1>3, <2>1, <3>1, ToldIsNewest
    <3>2. CASE About(a) # {}
      BY <1>1, <1>3, <2>1, <2>2, <2>3, <3>2, ToldIsNewest
    <3> QED BY <3>1, <3>2
  <2> QED BY <1>6, <1>4, <2>4
<1> QED BY <1>5, <1>6, <1>4

\* An account told to be absent, and announced as new before, is gone once.
LEMMA AbsentIsGone ==
    ASSUME WatchTypeOK, RemovalsDated, NEW a, NEW n \in 1..Len(rows),
           rows[n].key.account = a, rows[n].key.kind = "new", Told(a) = "absent"
    PROVE  GoneOnce(a)
<1>1. rows \in Seq(Rows) /\ Len(rows) \in Nat
  BY DEF WatchTypeOK
<1>2. n \in About(a)
  BY DEF About
<1> DEFINE last == Newest(About(a))
<1>3. last \in About(a) /\ n <= last /\ rows[last].view = "absent"
  BY <1>1, <1>2, ToldIsNewest
<1> HIDE DEF last
<1>4. last \in 1..Len(rows) /\ rows[last].key.account = a
  BY <1>3 DEF About
<1>5. rows[last].key.kind = "removed" /\ n # last
  BY <1>3, <1>4 DEF RemovalsDated
<1>6. n < last
  BY <1>1, <1>3, <1>4, <1>5
<1> QED BY <1>4, <1>5, <1>6 DEF GoneOnce

\* Before anything is listed there is nothing to tell.
LEMMA WatchStarts == WatchInit => WatchInv
<1> SUFFICES ASSUME WatchInit PROVE WatchInv
  OBVIOUS
<1>1. NothingListed \in [Accounts -> Views]
  BY DEF NothingListed, Views
<1>2. rows = <<>> /\ <<>> \in Seq(Rows) /\ Len(<<>>) = 0
  BY DEF WatchInit
<1>3. /\ shown \in [Accounts -> Views] /\ poll = Idle /\ Idle.found = {} /\ Idle.pc = "idle"
      /\ poll \in [pc : {"idle", "enqueue", "read", "send", "mark", "record"},
                   found : SUBSET Events, batch : SUBSET Nat]
  BY DEF WatchInit, Views, Idle
<1>4. /\ snapshot \in [initialized : BOOLEAN, at : Nat, accounts : [Accounts -> Views]]
      /\ watch \in [first : [Accounts -> Views], lost : BOOLEAN, unmarked : Nat, faults : Nat, changes : Nat]
  BY <1>1 DEF WatchInit
<1>5. ~snapshot.initialized
  BY DEF WatchInit
<1>6. WatchTypeOK
  BY <1>2, <1>3, <1>4 DEF WatchTypeOK
<1>7. PollOK
  BY <1>2, <1>3 DEF PollOK
<1>8. RemovalsDated
  BY <1>2, <1>3 DEF RemovalsDated
<1>9. FoundTells
  BY <1>5 DEF FoundTells
<1> QED BY <1>6, <1>7, <1>8, <1>9 DEF WatchInv

\* A step that finds nothing, enqueues nothing and loses nothing.
LEMMA QuietKeeps ==
    ASSUME WatchInv, WatchTypeOK', snapshot' = snapshot, poll'.found = poll.found,
           poll'.pc = "enqueue" <=> poll.pc = "enqueue",
           Len(rows') = Len(rows),
           \A n \in 1..Len(rows) : rows'[n].key = rows[n].key /\ rows'[n].view = rows[n].view,
           watch'.first = watch.first, ~watch'.lost => ~watch.lost
    PROVE  WatchInv'
<1>1. rows \in Seq(Rows) /\ rows' \in Seq(Rows) /\ Len(rows) \in Nat
  BY DEF WatchInv, WatchTypeOK
<1>2. PollOK'
  <2>1. rows = <<>> => rows' = <<>>
    BY <1>1
  <2> QED BY <2>1 DEF WatchInv, PollOK
<1>3. RemovalsDated'
  BY DEF WatchInv, RemovalsDated
<1>4. FoundTells'
  <2> SUFFICES ASSUME snapshot.initialized, ~watch.lost
               PROVE  /\ \A e \in poll.found : HasKey(e.key)' => GoneOnce(e.key.account)'
                      /\ \A e \in poll.found : e.view = snapshot.accounts[e.key.account]
                      /\ \A a \in Accounts :
                            (\A e \in poll.found : e.key.account # a)
                               => GoneOnce(a)' \/ Told(a)' = snapshot.accounts[a]
    <3>1. FoundTells' <=>
             ((snapshot'.initialized /\ ~watch'.lost) =>
                /\ \A e \in poll'.found : HasKey(e.key)' => GoneOnce(e.key.account)'
                /\ \A e \in poll'.found : e.view = snapshot'.accounts[e.key.account]
                /\ \A a \in Accounts :
                      (\A e \in poll'.found : e.key.account # a)
                         => GoneOnce(a)' \/ Told(a)' = snapshot'.accounts[a])
      BY DEF FoundTells
    <3> QED BY <3>1
  <2>1. \A key : HasKey(key)' => HasKey(key)
    BY DEF HasKey
  <2>2. \A a : Told(a)' = Told(a) /\ (GoneOnce(a) => GoneOnce(a)')
    BY <1>1, SameRowsTell
  <2> QED BY <2>1, <2>2 DEF WatchInv, FoundTells
<1> QED BY <1>2, <1>3, <1>4 DEF WatchInv

\* The broker's accounts change and nobody has looked yet.
LEMMA BrokerKeeps == WatchInv /\ BrokerChanges => WatchInv'
<1> SUFFICES ASSUME WatchInv, BrokerChanges PROVE WatchInv'
  OBVIOUS
<1>1. /\ snapshot' = snapshot /\ rows' = rows /\ poll' = poll
      /\ shown' \in [Accounts -> Views]
  <2>1. PICK a \in Accounts, v \in Views : shown' = [shown EXCEPT ![a] = v]
    BY DEF BrokerChanges
  <2> QED BY <2>1 DEF BrokerChanges, WatchInv, WatchTypeOK
<1>2. /\ watch' \in [first : [Accounts -> Views], lost : BOOLEAN, unmarked : Nat, faults : Nat, changes : Nat]
      /\ watch'.first = watch.first /\ watch'.lost = watch.lost
  BY DEF BrokerChanges, WatchInv, WatchTypeOK
<1>3. WatchTypeOK'
  BY <1>1, <1>2 DEF WatchInv, WatchTypeOK
<1> QED BY <1>1, <1>2, <1>3, QuietKeeps

\* What the pending rows are read into is only the batch.
LEMMA ReadKeeps == WatchInv /\ ReadPending => WatchInv'
<1> SUFFICES ASSUME WatchInv, ReadPending PROVE WatchInv'
  OBVIOUS
<1>1. /\ snapshot' = snapshot /\ rows' = rows /\ shown' = shown /\ watch' = watch
      /\ poll' = [poll EXCEPT !.batch = Pending, !.pc = IF Pending = {} THEN "idle" ELSE "send"]
  BY DEF ReadPending
<1>2. Pending \subseteq Nat
  BY DEF Pending, Undelivered
<1>3. /\ poll' \in [pc : {"idle", "enqueue", "read", "send", "mark", "record"},
                    found : SUBSET Events, batch : SUBSET Nat]
      /\ poll'.found = poll.found /\ poll'.pc # "enqueue" /\ poll.pc # "enqueue"
  BY <1>1, <1>2 DEF ReadPending, WatchInv, WatchTypeOK
<1>4. WatchTypeOK'
  BY <1>1, <1>3 DEF WatchInv, WatchTypeOK
<1> QED BY <1>1, <1>3, <1>4, QuietKeeps

\* Nor does sending change what the outbox says.
LEMMA SendKeeps == WatchInv /\ Send => WatchInv'
<1> SUFFICES ASSUME WatchInv, Send PROVE WatchInv'
  OBVIOUS
<1>1. snapshot' = snapshot /\ rows' = rows /\ shown' = shown /\ poll.pc = "send"
  BY DEF Send
<1>2. /\ poll' \in [pc : {"idle", "enqueue", "read", "send", "mark", "record"},
                    found : SUBSET Events, batch : SUBSET Nat]
      /\ poll'.found = poll.found /\ poll'.pc # "enqueue"
  <2>1. PICK p \in {"mark", "record"} : poll' = [poll EXCEPT !.pc = p]
    BY DEF Send
  <2> QED BY <2>1 DEF WatchInv, WatchTypeOK
<1>3. /\ watch' \in [first : [Accounts -> Views], lost : BOOLEAN, unmarked : Nat, faults : Nat, changes : Nat]
      /\ watch'.first = watch.first /\ watch'.lost = watch.lost
  <2>1. \/ watch' = watch
        \/ watch' = [watch EXCEPT !.faults = watch.faults + 1, !.unmarked = watch.unmarked + 1]
        \/ watch' = [watch EXCEPT !.faults = watch.faults + 1]
    BY DEF Send
  <2>2. watch.faults + 1 \in Nat /\ watch.unmarked + 1 \in Nat
    BY DEF WatchInv, WatchTypeOK
  <2> QED BY <2>1, <2>2 DEF WatchInv, WatchTypeOK
<1>4. WatchTypeOK'
  BY <1>1, <1>2, <1>3 DEF WatchInv, WatchTypeOK
<1> QED BY <1>1, <1>2, <1>3, <1>4, QuietKeeps

\* Taking the next row of the batch leaves what was found.
LEMMA NextRowEffect ==
    ASSUME WatchTypeOK, NextRow, poll.pc \in {"mark", "record"}, PollOK
    PROVE  /\ poll' \in [pc : {"idle", "enqueue", "read", "send", "mark", "record"},
                         found : SUBSET Events, batch : SUBSET Nat]
           /\ poll'.found = poll.found /\ poll'.pc # "enqueue"
<1>1. poll.found = {}
  BY DEF PollOK
<1> DEFINE rest == poll.batch \ {Oldest(poll.batch)}
<1>2. poll' = Idle \/ poll' = [poll EXCEPT !.pc = "send", !.batch = rest]
  BY DEF NextRow
<1>3. rest \subseteq Nat
  BY DEF WatchTypeOK
<1> HIDE DEF rest
<1>4. CASE poll' = Idle
  BY <1>1, <1>4 DEF Idle
<1>5. CASE poll' = [poll EXCEPT !.pc = "send", !.batch = rest]
  BY <1>3, <1>5 DEF WatchTypeOK
<1> QED BY <1>2, <1>4, <1>5

\* Another row in the place of one that says the same.
LEMMA RowChanged ==
    ASSUME rows \in Seq(Rows), NEW i, NEW row, rows' = [rows EXCEPT ![i] = row],
           i \in 1..Len(rows) => row \in Rows /\ row.key = rows[i].key /\ row.view = rows[i].view
    PROVE  /\ rows' \in Seq(Rows) /\ Len(rows') = Len(rows)
           /\ \A n \in 1..Len(rows) : rows'[n].key = rows[n].key /\ rows'[n].view = rows[n].view
<1>1. Len(rows) \in Nat /\ DOMAIN rows = 1..Len(rows) /\ rows \in [1..Len(rows) -> Rows]
  OBVIOUS
<1>2. \A n \in 1..Len(rows) : rows'[n] = IF n = i THEN row ELSE rows[n]
  BY <1>1
<1>3. rows' \in [1..Len(rows) -> Rows]
  BY <1>1
<1>4. rows' \in Seq(Rows) /\ Len(rows') = Len(rows)
  BY <1>1, <1>3, IsASeq
<1> QED BY <1>2, <1>4

\* A row is delivered: it says what it said.
LEMMA MarkKeeps == WatchInv /\ MarkDelivered => WatchInv'
<1> SUFFICES ASSUME WatchInv, MarkDelivered PROVE WatchInv'
  OBVIOUS
<1>1. /\ snapshot' = snapshot /\ shown' = shown /\ watch' = watch /\ poll.pc = "mark" /\ NextRow
      /\ rows' = [rows EXCEPT ![Oldest(poll.batch)].delivered = TRUE]
  BY DEF MarkDelivered
<1>2. /\ poll' \in [pc : {"idle", "enqueue", "read", "send", "mark", "record"},
                    found : SUBSET Events, batch : SUBSET Nat]
      /\ poll'.found = poll.found /\ poll'.pc # "enqueue"
  BY <1>1, NextRowEffect DEF WatchInv
<1>3. rows \in Seq(Rows) /\ Len(rows) \in Nat
  BY DEF WatchInv, WatchTypeOK
<1>4. /\ rows' \in Seq(Rows) /\ Len(rows') = Len(rows)
      /\ \A n \in 1..Len(rows) : rows'[n].key = rows[n].key /\ rows'[n].view = rows[n].view
  <2> DEFINE i == Oldest(poll.batch)
  <2>1. rows' = [rows EXCEPT ![i] = [rows[i] EXCEPT !.delivered = TRUE]]
    BY <1>1
  <2> HIDE DEF i
  <2>2. ASSUME i \in 1..Len(rows)
        PROVE  LET row == [rows[i] EXCEPT !.delivered = TRUE] IN
               row \in Rows /\ row.key = rows[i].key /\ row.view = rows[i].view
    <3>1. rows[i] \in Rows
      BY <1>3, <2>2
    <3> QED BY <3>1 DEF Rows
  <2> QED BY <1>3, <2>1, <2>2, RowChanged
<1>5. WatchTypeOK'
  BY <1>1, <1>2, <1>4 DEF WatchInv, WatchTypeOK
<1> QED BY <1>1, <1>2, <1>4, <1>5, QuietKeeps

\* A row is tried once more: it says what it said.
LEMMA RecordKeeps == WatchInv /\ RecordFailure => WatchInv'
<1> SUFFICES ASSUME WatchInv, RecordFailure PROVE WatchInv'
  OBVIOUS
<1>1. /\ snapshot' = snapshot /\ shown' = shown /\ watch' = watch /\ poll.pc = "record" /\ NextRow
      /\ rows' = [rows EXCEPT ![Oldest(poll.batch)].attempts = @ + 1]
  BY DEF RecordFailure
<1>2. /\ poll' \in [pc : {"idle", "enqueue", "read", "send", "mark", "record"},
                    found : SUBSET Events, batch : SUBSET Nat]
      /\ poll'.found = poll.found /\ poll'.pc # "enqueue"
  BY <1>1, NextRowEffect DEF WatchInv
<1>3. rows \in Seq(Rows) /\ Len(rows) \in Nat
  BY DEF WatchInv, WatchTypeOK
<1>4. /\ rows' \in Seq(Rows) /\ Len(rows') = Len(rows)
      /\ \A n \in 1..Len(rows) : rows'[n].key = rows[n].key /\ rows'[n].view = rows[n].view
  <2> DEFINE i == Oldest(poll.batch)
  <2>1. rows' = [rows EXCEPT ![i] = [rows[i] EXCEPT !.attempts = rows[i].attempts + 1]]
    BY <1>1
  <2> HIDE DEF i
  <2>2. ASSUME i \in 1..Len(rows)
        PROVE  LET row == [rows[i] EXCEPT !.attempts = rows[i].attempts + 1] IN
               row \in Rows /\ row.key = rows[i].key /\ row.view = rows[i].view
    <3>1. rows[i] \in Rows
      BY <1>3, <2>2
    <3> QED BY <3>1 DEF Rows
  <2> QED BY <1>3, <2>1, <2>2, RowChanged
<1>5. WatchTypeOK'
  BY <1>1, <1>2, <1>4 DEF WatchInv, WatchTypeOK
<1> QED BY <1>1, <1>2, <1>4, <1>5, QuietKeeps

\* A poll that ends early loses what it found and had not enqueued, and says so.
LEMMA PollEndsKeeps == WatchInv /\ PollEnds => WatchInv'
<1> SUFFICES ASSUME WatchInv, PollEnds PROVE WatchInv'
  OBVIOUS
<1>1. snapshot' = snapshot /\ shown' = shown /\ rows' = rows /\ poll' = Idle
  BY DEF PollEnds
<1>2. /\ poll' \in [pc : {"idle", "enqueue", "read", "send", "mark", "record"},
                    found : SUBSET Events, batch : SUBSET Nat]
      /\ poll'.found = {} /\ poll'.pc # "enqueue"
  BY <1>1 DEF Idle
<1>3. /\ watch' \in [first : [Accounts -> Views], lost : BOOLEAN, unmarked : Nat, faults : Nat, changes : Nat]
      /\ watch'.first = watch.first /\ (~watch'.lost => ~watch.lost /\ poll.found = {})
  <2>1. PICK b \in BOOLEAN : b = (watch.lost \/ poll.found # {})
    BY Zenon
  <2> DEFINE n == watch.faults + 1
             u == IF poll.pc = "mark" THEN watch.unmarked + 1 ELSE watch.unmarked
             between == [watch EXCEPT !.faults = n, !.lost = b]
  <2>2. n \in Nat /\ u \in Nat
    BY DEF WatchInv, WatchTypeOK
  <2>3. watch' = [watch EXCEPT !.faults = n, !.lost = watch.lost \/ poll.found # {}, !.unmarked = u]
    BY DEF PollEnds
  <2> HIDE DEF n, u
  <2>4. /\ watch' \in [first : [Accounts -> Views], lost : BOOLEAN, unmarked : Nat, faults : Nat, changes : Nat]
        /\ watch'.first = watch.first /\ watch'.lost = b
    <3>1. watch' = [between EXCEPT !.unmarked = u]
      BY <2>1, <2>3, Zenon
    <3>2. /\ between \in [first : [Accounts -> Views], lost : BOOLEAN, unmarked : Nat, faults : Nat, changes : Nat]
          /\ between.first = watch.first /\ between.lost = b
      BY <2>2 DEF WatchInv, WatchTypeOK
    <3> HIDE DEF between
    <3> QED BY <2>2, <3>1, <3>2
  <2>5. ~b => ~watch.lost /\ poll.found = {}
    BY <2>1
  <2> QED BY <2>4, <2>5, Zenon
<1>4. WatchTypeOK'
  BY <1>1, <1>2, <1>3 DEF WatchInv, WatchTypeOK
<1>5. CASE poll.found = {}
  <2>1. poll.pc # "enqueue"
    BY <1>5 DEF WatchInv, PollOK
  <2> QED BY <1>1, <1>2, <1>3, <1>4, <1>5, <2>1, QuietKeeps
<1>6. CASE poll.found # {}
  <2>1. PollOK'
    BY <1>1, <1>2 DEF WatchInv, PollOK
  <2>2. RemovalsDated'
    BY <1>1, <1>2 DEF WatchInv, RemovalsDated
  <2>3. FoundTells'
    BY <1>3, <1>6 DEF FoundTells
  <2> QED BY <1>4, <2>1, <2>2, <2>3 DEF WatchInv
<1> QED BY <1>5, <1>6

\* What observe finds of an account: nothing, or one transition to what is listed.
LEMMA TransitionsTell ==
    ASSUME WatchTypeOK, NEW now \in Nat, now # snapshot.at
    PROVE  LET found == Transitions(shown, now) IN
           /\ found \subseteq Events
           /\ \A e, f \in found : e.key.account = f.key.account => e = f
           /\ \A e \in found : /\ e.key.kind = "removed" <=> e.view = "absent"
                               /\ e.key.kind = "removed" => e.key.mark = snapshot.at
                               /\ e.view = shown[e.key.account]
                               /\ e.key.kind \in {"tradable", "blocked"} => e.key.mark = now
                               /\ e.key.kind = "new" => /\ snapshot.accounts[e.key.account] = "absent"
                                                        /\ e.key.mark = 0
           /\ ~snapshot.initialized => found = {}
           /\ snapshot.initialized =>
                 \A a \in Accounts :
                    (\A e \in found : e.key.account # a) => shown[a] = snapshot.accounts[a]
<1> DEFINE old == snapshot.accounts
           appeared == {a \in Accounts : old[a] = "absent" /\ shown[a] # "absent"}
           removed == {a \in Accounts : old[a] # "absent" /\ shown[a] = "absent"}
           changed == {a \in Accounts : old[a] # shown[a]} \ (appeared \union removed)
           New(a) == [key |-> [account |-> a, kind |-> "new", mark |-> 0], view |-> shown[a]]
           Gone(a) == [key |-> RemovedKey(a), view |-> "absent"]
           Changed(a) == [key |-> [account |-> a, kind |-> shown[a], mark |-> now], view |-> shown[a]]
           found == Transitions(shown, now)
<1>1. \A a \in Accounts : shown[a] \in Views /\ old[a] \in Views
  BY DEF WatchTypeOK
<1>2. CASE ~snapshot.initialized
  BY <1>2 DEF Transitions
<1>3. CASE snapshot.initialized
  <2>1. found = {New(a) : a \in appeared} \union {Gone(a) : a \in removed}
                   \union {Changed(a) : a \in changed}
    BY <1>3 DEF Transitions
  <2>2. \A a \in appeared : /\ New(a) \in Events /\ New(a).key.account = a /\ New(a).view = shown[a]
                            /\ New(a).view # "absent" /\ New(a).key.kind = "new"
                            /\ New(a).key.mark = 0 /\ old[a] = "absent"
    BY <1>1 DEF Events, Keys
  <2>3. \A a \in removed : /\ Gone(a) \in Events /\ Gone(a).key.account = a /\ Gone(a).view = shown[a]
                           /\ Gone(a).view = "absent" /\ Gone(a).key.kind = "removed"
                           /\ Gone(a).key.mark = snapshot.at
    <3>1. snapshot.at \in Nat
      BY DEF WatchTypeOK
    <3> QED BY <3>1 DEF RemovedKey, Events, Keys, Views
  <2>4. \A a \in changed : /\ Changed(a) \in Events /\ Changed(a).key.account = a
                           /\ Changed(a).view = shown[a] /\ Changed(a).view # "absent"
                           /\ Changed(a).key.kind \in {"tradable", "blocked"}
                           /\ Changed(a).key.mark = now
    <3>1. \A a \in changed : shown[a] \in {"tradable", "blocked"}
      BY <1>1 DEF Views
    <3> QED BY <1>1, <3>1 DEF Events, Keys
  <2>5. /\ appeared \cap removed = {} /\ appeared \cap changed = {} /\ removed \cap changed = {}
        /\ \A a \in Accounts : a \in appeared \union removed \union changed \/ shown[a] = old[a]
    OBVIOUS
  <2> HIDE DEF appeared, removed, changed, New, Gone, Changed
  <2>6. \A e \in found : \/ \E a \in appeared : e = New(a)
                         \/ \E a \in removed : e = Gone(a)
                         \/ \E a \in changed : e = Changed(a)
    BY <2>1
  <2> HIDE DEF found
  <2>7. found \subseteq Events
    BY <2>2, <2>3, <2>4, <2>6
  <2>8. \A e, f \in found : e.key.account = f.key.account => e = f
    BY <2>2, <2>3, <2>4, <2>5, <2>6
  <2>9. \A e \in found : /\ e.key.kind = "removed" <=> e.view = "absent"
                         /\ e.key.kind = "removed" => e.key.mark = snapshot.at
                         /\ e.view = shown[e.key.account]
                         /\ e.key.kind \in {"tradable", "blocked"} => e.key.mark = now
                         /\ e.key.kind = "new" => old[e.key.account] = "absent" /\ e.key.mark = 0
    BY <2>2, <2>3, <2>4, <2>6
  <2>10. ASSUME NEW a \in Accounts, \A e \in found : e.key.account # a PROVE shown[a] = old[a]
    <3>1. /\ a \in appeared => New(a) \in found
          /\ a \in removed => Gone(a) \in found
          /\ a \in changed => Changed(a) \in found
      BY <2>1
    <3> QED BY <2>2, <2>3, <2>4, <2>5, <2>10, <3>1
  <2> QED BY <1>3, <2>7, <2>8, <2>9, <2>10 DEF found
<1> QED BY <1>2, <1>3

\* A listing: the snapshot moves on, and for every account it moved on for there is a
\* transition whose key is not in the outbox, but for one who comes back.
LEMMA ObserveKeeps == WatchInv /\ Observe => WatchInv'
<1> SUFFICES ASSUME WatchInv, Observe PROVE WatchInv'
  OBVIOUS
<1> DEFINE now == FreshMark
           found == Transitions(shown, now)
<1>1. WatchTypeOK /\ PollOK /\ RemovalsDated /\ FoundTells
  BY DEF WatchInv
<1>2. /\ now \in Nat /\ now # snapshot.at
      /\ \A n \in 1..Len(rows) : now # rows[n].key.mark
  BY <1>1, FreshMarkIsNew
<1>3. /\ found \subseteq Events
      /\ \A e, f \in found : e.key.account = f.key.account => e = f
      /\ \A e \in found : /\ e.key.kind = "removed" <=> e.view = "absent"
                          /\ e.key.kind = "removed" => e.key.mark = snapshot.at
                          /\ e.view = shown[e.key.account]
                          /\ e.key.kind \in {"tradable", "blocked"} => e.key.mark = now
                          /\ e.key.kind = "new" => /\ snapshot.accounts[e.key.account] = "absent"
                                                   /\ e.key.mark = 0
      /\ ~snapshot.initialized => found = {}
      /\ snapshot.initialized =>
            \A a \in Accounts :
               (\A e \in found : e.key.account # a) => shown[a] = snapshot.accounts[a]
  <2> HIDE DEF now
  <2> QED BY <1>1, <1>2, TransitionsTell
<1>4. /\ poll.pc = "idle" /\ poll.found = {} /\ rows' = rows /\ shown' = shown
      /\ poll' = [Idle EXCEPT !.pc = IF found = {} THEN "read" ELSE "enqueue", !.found = found]
      /\ snapshot' = [initialized |-> TRUE, at |-> now, accounts |-> shown]
      /\ watch' = IF snapshot.initialized THEN watch ELSE [watch EXCEPT !.first = shown]
  BY <1>1 DEF Observe, PollOK
<1> HIDE DEF now, found
<1>5. /\ poll'.found = found /\ poll'.pc = (IF found = {} THEN "read" ELSE "enqueue")
      /\ poll' \in [pc : {"idle", "enqueue", "read", "send", "mark", "record"},
                    found : SUBSET Events, batch : SUBSET Nat]
  BY <1>3, <1>4 DEF Idle
<1>6. /\ snapshot' \in [initialized : BOOLEAN, at : Nat, accounts : [Accounts -> Views]]
      /\ snapshot'.initialized = TRUE /\ snapshot'.at = now /\ snapshot'.accounts = shown
  BY <1>1, <1>2, <1>4 DEF WatchTypeOK
<1>7. /\ watch' \in [first : [Accounts -> Views], lost : BOOLEAN, unmarked : Nat, faults : Nat, changes : Nat]
      /\ watch'.lost = watch.lost
      /\ watch'.first = IF snapshot.initialized THEN watch.first ELSE shown
  BY <1>1, <1>4 DEF WatchTypeOK
<1>8. WatchTypeOK'
  BY <1>1, <1>4, <1>5, <1>6, <1>7 DEF WatchTypeOK
<1>9. PollOK'
  BY <1>3, <1>5, <1>6 DEF PollOK
<1>10. RemovalsDated'
  <2>1. \A n \in 1..Len(rows) : rows[n].key.kind = "removed" <=> rows[n].view = "absent"
    BY <1>1 DEF RemovalsDated
  <2> QED BY <1>2, <1>3, <1>4, <1>5, <1>6, <2>1 DEF RemovalsDated
<1>11. FoundTells'
  <2>1. rows \in Seq(Rows) /\ Len(rows) \in Nat
    BY <1>1 DEF WatchTypeOK
  <2> SUFFICES ASSUME ~watch.lost
               PROVE  /\ \A e \in found : HasKey(e.key) => GoneOnce(e.key.account)
                      /\ \A e \in found : e.view = shown[e.key.account]
                      /\ \A a \in Accounts :
                            (\A e \in found : e.key.account # a) => GoneOnce(a) \/ Told(a)' = shown[a]
    <3>1. FoundTells' <=>
             ((snapshot'.initialized /\ ~watch'.lost) =>
                /\ \A e \in poll'.found : HasKey(e.key)' => GoneOnce(e.key.account)'
                /\ \A e \in poll'.found : e.view = snapshot'.accounts[e.key.account]
                /\ \A a \in Accounts :
                      (\A e \in poll'.found : e.key.account # a)
                         => GoneOnce(a)' \/ Told(a)' = snapshot'.accounts[a])
      BY DEF FoundTells
    <3>2. \A a : (GoneOnce(a)' <=> GoneOnce(a)) /\ (HasKey(a)' <=> HasKey(a))
      BY <1>4 DEF GoneOnce, HasKey
    <3> QED BY <1>5, <1>6, <1>7, <3>1, <3>2
  <2>2. CASE snapshot.initialized
    <3>1. \A a \in Accounts : GoneOnce(a) \/ Told(a) = snapshot.accounts[a]
      BY <1>1, <1>4, <2>2 DEF FoundTells
    <3>2. \A a : Told(a)' = Told(a)
      BY <1>4, <1>7, <2>1, <2>2, SameRowsTell
    <3>3. ASSUME NEW e \in found, HasKey(e.key) PROVE GoneOnce(e.key.account)
      <4>1. PICK n \in 1..Len(rows) : rows[n].key = e.key
        BY <3>3 DEF HasKey
      <4>2. e.key.kind \in {"new", "removed", "tradable", "blocked"} /\ e.key.account \in Accounts
        BY <1>3 DEF Events, Keys
      <4>3. e.key.kind # "removed"
        <5>1. rows[n].key.kind = "removed" => rows[n].key.mark # snapshot.at
          BY <1>1 DEF RemovalsDated
        <5> QED BY <1>3, <4>1, <5>1
      <4>4. e.key.kind = "new"
        BY <1>2, <1>3, <4>1, <4>2, <4>3
      <4>5. GoneOnce(e.key.account) \/ Told(e.key.account) = "absent"
        BY <1>3, <3>1, <4>2, <4>4
      <4> QED BY <1>1, <4>1, <4>4, <4>5, AbsentIsGone
    <3> QED BY <1>3, <2>2, <3>1, <3>2, <3>3
  <2>3. CASE ~snapshot.initialized
    <3>1. rows = <<>> /\ found = {} /\ watch'.first = shown
      BY <1>1, <1>3, <1>7, <2>3 DEF PollOK
    <3>2. \A a : Told(a)' = shown[a]
      <4>1. \A a : {n \in 1..Len(rows') : rows'[n].key.account = a} = {}
        BY <1>4, <3>1
      <4> QED BY <3>1, <4>1 DEF Told
    <3> QED BY <3>1, <3>2
  <2> QED BY <2>2, <2>3
<1> QED BY <1>8, <1>9, <1>10, <1>11 DEF WatchInv

\* What was found reaches the outbox one by one: what its key keeps out was known.
LEMMA EnqueueKeeps == WatchInv /\ Enqueue => WatchInv'
<1> SUFFICES ASSUME WatchInv, Enqueue PROVE WatchInv'
  OBVIOUS
<1> DEFINE event == CHOOSE e \in poll.found : \A f \in poll.found : Precedes(e, f)
           rest == poll.found \ {event}
           row == [key |-> event.key, view |-> event.view, attempts |-> 0, delivered |-> FALSE]
<1>1. WatchTypeOK /\ PollOK /\ RemovalsDated /\ FoundTells
  BY DEF WatchInv
<1>2. event \in poll.found
  BY <1>1, NextIsFound DEF Enqueue, PollOK
<1>3. /\ rows' = (IF HasKey(event.key) THEN rows ELSE Append(rows, row))
      /\ poll' = [poll EXCEPT !.found = rest, !.pc = IF rest = {} THEN "read" ELSE poll.pc]
      /\ shown' = shown /\ snapshot' = snapshot /\ watch' = watch /\ poll.pc = "enqueue"
  BY DEF Enqueue, HasKey
<1>4. poll.found \subseteq Events /\ rows \in Seq(Rows) /\ Len(rows) \in Nat
  BY <1>1 DEF WatchTypeOK
<1> HIDE DEF event
<1>5. event \in Events /\ row \in Rows /\ row.key = event.key /\ row.view = event.view
  BY <1>2, <1>4 DEF Events, Rows
<1> HIDE DEF row
<1>6. /\ poll'.found = rest /\ poll'.pc = (IF rest = {} THEN "read" ELSE "enqueue")
      /\ poll' \in [pc : {"idle", "enqueue", "read", "send", "mark", "record"},
                    found : SUBSET Events, batch : SUBSET Nat]
  BY <1>1, <1>3 DEF WatchTypeOK
<1>7. rows' \in Seq(Rows)
  BY <1>3, <1>4, <1>5
<1>8. WatchTypeOK'
  BY <1>1, <1>3, <1>6, <1>7 DEF WatchTypeOK
<1>9. snapshot.initialized
  BY <1>1, <1>2 DEF PollOK
<1>10. PollOK'
  BY <1>1, <1>3, <1>6, <1>9 DEF PollOK
<1>11. RemovalsDated'
  <2>1. \A n \in 1..Len(rows') : (n \in 1..Len(rows) /\ rows'[n] = rows[n]) \/ rows'[n] = row
    BY <1>3, <1>4
  <2>2. /\ event.key.kind = "removed" <=> event.view = "absent"
        /\ event.key.kind = "removed" => event.key.mark # snapshot.at
    BY <1>1, <1>2 DEF RemovalsDated
  <2>3. \A n \in 1..Len(rows') : /\ rows'[n].key.kind = "removed" <=> rows'[n].view = "absent"
                                 /\ rows'[n].key.kind = "removed" => rows'[n].key.mark # snapshot.at
    BY <1>1, <1>5, <2>1, <2>2 DEF RemovalsDated
  <2> QED BY <1>1, <1>3, <1>6, <2>3 DEF RemovalsDated
<1>12. FoundTells'
  <2> SUFFICES ASSUME ~watch.lost
               PROVE  /\ \A e \in rest : HasKey(e.key)' => GoneOnce(e.key.account)'
                      /\ \A e \in rest : e.view = snapshot.accounts[e.key.account]
                      /\ \A a \in Accounts :
                            (\A e \in rest : e.key.account # a)
                               => GoneOnce(a)' \/ Told(a)' = snapshot.accounts[a]
    <3>1. FoundTells' <=>
             ((snapshot'.initialized /\ ~watch'.lost) =>
                /\ \A e \in poll'.found : HasKey(e.key)' => GoneOnce(e.key.account)'
                /\ \A e \in poll'.found : e.view = snapshot'.accounts[e.key.account]
                /\ \A a \in Accounts :
                      (\A e \in poll'.found : e.key.account # a)
                         => GoneOnce(a)' \/ Told(a)' = snapshot'.accounts[a])
      BY DEF FoundTells
    <3> QED BY <1>3, <1>6, <3>1
  <2>1. /\ \A e \in poll.found : HasKey(e.key) => GoneOnce(e.key.account)
        /\ \A e \in poll.found : e.view = snapshot.accounts[e.key.account]
        /\ \A a \in Accounts : (\A e \in poll.found : e.key.account # a)
                                  => GoneOnce(a) \/ Told(a) = snapshot.accounts[a]
    BY <1>1, <1>9 DEF FoundTells
  <2>2. \A e \in rest : e \in poll.found /\ e.key.account # event.key.account
    BY <1>1, <1>2 DEF PollOK
  <2>3. CASE HasKey(event.key)
    <3>1. \A a : (GoneOnce(a)' <=> GoneOnce(a)) /\ (HasKey(a)' <=> HasKey(a))
      BY <1>3, <2>3 DEF GoneOnce, HasKey
    <3>2. \A a : Told(a)' = Told(a)
      BY <1>3, <1>4, <2>3, SameRowsTell
    <3>3. GoneOnce(event.key.account)
      BY <1>2, <2>1, <2>3
    <3> QED BY <2>1, <2>2, <3>1, <3>2, <3>3
  <2>4. CASE ~HasKey(event.key)
    <3>1. rows' = Append(rows, row)
      BY <1>3, <2>4
    <3>2. \A a : /\ Told(a)' = IF a = event.key.account THEN event.view ELSE Told(a)
                 /\ GoneOnce(a) => GoneOnce(a)'
      BY <1>3, <1>4, <1>5, <3>1, NewRowTells
    <3>3. \A key : HasKey(key)' => HasKey(key) \/ key = event.key
      BY <1>4, <1>5, <3>1 DEF HasKey
    <3>4. \A e \in rest : HasKey(e.key)' => GoneOnce(e.key.account)'
      BY <2>1, <2>2, <3>2, <3>3
    <3>5. ASSUME NEW a \in Accounts, \A e \in rest : e.key.account # a
          PROVE  GoneOnce(a)' \/ Told(a)' = snapshot.accounts[a]
      <4>1. CASE a = event.key.account
        BY <1>2, <2>1, <3>2, <4>1
      <4>2. CASE a # event.key.account
        BY <2>1, <3>2, <3>5, <4>2
      <4> QED BY <4>1, <4>2
    <3> QED BY <2>1, <2>2, <3>4, <3>5
  <2> QED BY <2>3, <2>4
<1> QED BY <1>8, <1>10, <1>11, <1>12 DEF WatchInv

\* Every step keeps WatchInv.
LEMMA WatchStepKeeps == WatchInv /\ [WatchNext]_watchVars => WatchInv'
<1> SUFFICES ASSUME WatchInv, [WatchNext]_watchVars PROVE WatchInv'
  OBVIOUS
<1>1. CASE UNCHANGED watchVars
  BY <1>1, QuietKeeps DEF watchVars, WatchInv, WatchTypeOK
<1> QED BY <1>1, BrokerKeeps, PollEndsKeeps, ObserveKeeps, EnqueueKeeps, ReadKeeps,
           SendKeeps, MarkKeeps, RecordKeeps DEF WatchNext, WatchStep

\* WatchInv is an invariant of the monitor.
THEOREM WatchInvariant == WatchSpec => []WatchInv
BY WatchStarts, WatchStepKeeps, PTL DEF WatchSpec

\* Whatever is listed, and whenever the supervisor dies: what the outbox says last of an
\* account is what accounts.json says, unless found transitions were lost or the account
\* came back.
THEOREM OutboxAlwaysTells == WatchSpec => []OutboxTellsSnapshot
<1>1. WatchInv => OutboxTellsSnapshot
  BY DEF WatchInv, PollOK, FoundTells, OutboxTellsSnapshot
<1> QED BY WatchInvariant, <1>1, PTL

-----------------------------------------------------------------------------
(* What the chat is told                                                     *)

\* A row that is delivered, or an attempt to send it had failed.
Settled(m) == rows[m].delivered \/ rows[m].attempts # 0

\* The rows that are delivered, and the one that was sent and is marked next.
Accounted == {n \in 1..Len(rows) : rows[n].delivered \/ (poll.pc = "mark" /\ n = Oldest(poll.batch))}

\* While a batch is sent its rows are undelivered, and what is older than one of them and
\* not in it is settled.
BatchOK ==
    /\ poll.pc \in {"send", "mark", "record"} <=> poll.batch # {}
    /\ poll.batch \subseteq Undelivered
    /\ \A b \in poll.batch, m \in 1..Len(rows) : m < b => m \in poll.batch \/ Settled(m)

\* The chat holds rows, and no row in it came before an older one was settled.
ChatOK ==
    /\ chat \in Seq(Nat) /\ \A k \in 1..Len(chat) : chat[k] \in 1..Len(rows)
    /\ \A k \in 1..Len(chat), m \in 1..Len(rows) : m < chat[k] => Settled(m)

\* What is accounted for is there, and all the others in the chat are copies unmarked.
CopiesCounted ==
    /\ Accounted \subseteq InTheChat
    /\ Len(chat) <= Cardinality(Accounted) + watch.unmarked

ChatInv == BatchOK /\ ChatOK /\ CopiesCounted /\ InTurn

\* The row that is sent next is of the batch, and none of it is older.
LEMMA OldestOfBatch ==
    ASSUME WatchTypeOK, poll.batch # {}
    PROVE  /\ Oldest(poll.batch) \in poll.batch
           /\ \A m \in poll.batch : Oldest(poll.batch) <= m
<1>1. poll.batch \subseteq Nat
  BY DEF WatchTypeOK
<1>2. \E n \in poll.batch : \A m \in poll.batch : n <= m
  BY <1>1, LeastNatural
<1> QED BY <1>2 DEF Oldest

\* Rows and the chat are finitely many.
LEMMA ChatFinite ==
    ASSUME WatchTypeOK, ChatOK
    PROVE  /\ IsFiniteSet(Accounted) /\ Cardinality(Accounted) \in Nat
           /\ IsFiniteSet(InTheChat) /\ Cardinality(InTheChat) \in Nat
<1> DEFINE L == Len(rows)
<1>1. L \in Nat
  BY DEF WatchTypeOK
<1>2. Accounted \subseteq 1..L /\ InTheChat \subseteq 1..L
  BY DEF Accounted, InTheChat, ChatOK
<1> HIDE DEF L
<1>3. IsFiniteSet(1..L)
  BY <1>1, FS_Interval
<1>4. IsFiniteSet(Accounted) /\ IsFiniteSet(InTheChat)
  BY <1>2, <1>3, FS_Subset
<1> QED BY <1>4, FS_CardinalityType

\* A row that is settled stays so, and a new one is behind all that the chat holds.
LEMMA ChatStays ==
    ASSUME ChatOK, InTurn, chat' = chat, Len(rows) \in Nat, Len(rows') \in Nat,
           Len(rows) <= Len(rows'),
           \A n \in 1..Len(rows) : /\ rows[n].delivered => rows'[n].delivered
                                   /\ rows'[n].attempts = 0 => rows[n].attempts = 0
    PROVE  ChatOK' /\ InTurn'
<1>1. \A k \in 1..Len(chat) : chat[k] \in 1..Len(rows) /\ chat[k] \in 1..Len(rows')
  BY DEF ChatOK
<1>2. \A k \in 1..Len(chat), n \in 1..Len(rows') : n < chat[k] => n \in 1..Len(rows)
  BY <1>1
<1>3. ChatOK'
  <2>1. ASSUME NEW k \in 1..Len(chat), NEW m \in 1..Len(rows'), m < chat[k] PROVE Settled(m)'
    <3>1. m \in 1..Len(rows)
      BY <1>2, <2>1
    <3>2. Settled(m)
      BY <2>1, <3>1 DEF ChatOK
    <3> QED BY <3>1, <3>2 DEF Settled
  <2> QED BY <1>1, <2>1 DEF ChatOK
<1>4. InTurn'
  <2> SUFFICES ASSUME NEW k \in 1..Len(chat), NEW n \in 1..Len(rows'),
                      n < chat[k], rows'[n].attempts = 0
               PROVE  /\ \E i \in 1..Len(chat) : i < k /\ chat[i] = n
                      /\ \A i \in 1..Len(chat) : k < i => chat[i] # n
    BY DEF InTurn
  <2>1. n \in 1..Len(rows)
    BY <1>2
  <2> QED BY <2>1 DEF InTurn
<1> QED BY <1>3, <1>4

\* A step that neither sends nor marks.
LEMMA NothingSent ==
    ASSUME WatchInv, WatchTypeOK', ChatInv, BatchOK', chat' = chat, watch'.unmarked = watch.unmarked,
           Len(rows) <= Len(rows'),
           \A n \in 1..Len(rows) : /\ rows'[n].delivered <=> rows[n].delivered
                                   /\ rows'[n].attempts = 0 => rows[n].attempts = 0,
           \A n \in 1..Len(rows') : n \notin 1..Len(rows) => ~rows'[n].delivered,
           poll.pc # "mark", poll'.pc # "mark"
    PROVE  ChatInv'
<1>1. Len(rows) \in Nat /\ Len(rows') \in Nat
  BY DEF WatchInv, WatchTypeOK
<1>2. ChatOK' /\ InTurn'
  BY <1>1, ChatStays DEF ChatInv
<1>3. Accounted' = Accounted
  <2>1. \A n \in 1..Len(rows) : n \in 1..Len(rows')
    BY <1>1
  <2>2. Accounted = {n \in 1..Len(rows) : rows[n].delivered}
    BY DEF Accounted
  <2>3. Accounted' = {n \in 1..Len(rows') : rows'[n].delivered}
    BY DEF Accounted
  <2> QED BY <2>1, <2>2, <2>3
<1>4. CopiesCounted'
  <2>1. InTheChat' = InTheChat
    BY DEF InTheChat
  <2> HIDE DEF Accounted
  <2> QED BY <1>3, <2>1 DEF CopiesCounted, ChatInv
<1> QED BY <1>2, <1>4 DEF ChatInv

\* There is no batch between two polls and before the table is read.
LEMMA NoBatch ==
    ASSUME poll'.batch = {}, poll'.pc \in {"idle", "enqueue", "read"}
    PROVE  BatchOK'
BY DEF BatchOK

\* Before anything is listed the chat is empty.
LEMMA ChatStarts == WatchInit => ChatInv
<1> SUFFICES ASSUME WatchInit PROVE ChatInv
  OBVIOUS
<1>1. /\ rows = <<>> /\ chat = <<>> /\ Len(<<>>) = 0 /\ <<>> \in Seq(Nat)
      /\ poll = Idle /\ watch.unmarked = 0
  BY DEF WatchInit
<1>2. poll.batch = {} /\ poll.pc = "idle"
  BY <1>1 DEF Idle
<1>3. BatchOK
  BY <1>2 DEF BatchOK
<1>4. ChatOK /\ InTurn
  BY <1>1 DEF ChatOK, InTurn
<1>5. Accounted = {} /\ Cardinality({}) = 0
  BY <1>1, FS_EmptySet DEF Accounted
<1>6. CopiesCounted
  BY <1>1, <1>5 DEF CopiesCounted
<1> QED BY <1>3, <1>4, <1>6 DEF ChatInv

\* The broker's accounts change.
LEMMA BrokerKeepsChat == WatchInv /\ WatchTypeOK' /\ ChatInv /\ BrokerChanges => ChatInv'
<1> SUFFICES ASSUME WatchInv, ChatInv, BrokerChanges PROVE ChatInv'
  OBVIOUS
<1>1. /\ rows' = rows /\ poll' = poll /\ chat' = chat
      /\ watch' = [watch EXCEPT !.changes = @ + 1]
  BY DEF BrokerChanges
<1>2. watch'.unmarked = watch.unmarked
  BY <1>1 DEF WatchInv, WatchTypeOK
<1> QED BY <1>1, <1>2 DEF ChatInv, BatchOK, Undelivered, Settled, ChatOK, CopiesCounted,
                          Accounted, InTheChat, InTurn

\* A listing begins a poll, which has read nothing of the table.
LEMMA ObserveKeepsChat == WatchInv /\ WatchTypeOK' /\ ChatInv /\ Observe => ChatInv'
<1> SUFFICES ASSUME WatchInv, WatchTypeOK', ChatInv, Observe PROVE ChatInv'
  OBVIOUS
<1>1. rows' = rows /\ chat' = chat /\ poll.pc = "idle"
  BY DEF Observe
<1>2. poll'.batch = {} /\ poll'.pc \in {"read", "enqueue"}
  BY DEF Observe, Idle
<1>3. watch'.unmarked = watch.unmarked
  BY DEF Observe, WatchInv, WatchTypeOK
<1>4. Len(rows) \in Nat
  BY DEF WatchInv, WatchTypeOK
<1>5. BatchOK'
  BY <1>2, NoBatch
<1> QED BY <1>1, <1>2, <1>3, <1>4, <1>5, NothingSent

\* A new row is undelivered.
LEMMA EnqueueKeepsChat == WatchInv /\ WatchTypeOK' /\ ChatInv /\ Enqueue => ChatInv'
<1> SUFFICES ASSUME WatchInv, WatchTypeOK', ChatInv, Enqueue PROVE ChatInv'
  OBVIOUS
<1>1. chat' = chat /\ watch' = watch /\ poll.pc = "enqueue"
  BY DEF Enqueue
<1>2. poll'.batch = {} /\ poll'.pc \in {"read", "enqueue"}
  <2>1. poll.batch = {}
    BY <1>1 DEF ChatInv, BatchOK
  <2> DEFINE rest == poll.found \ {CHOOSE e \in poll.found : \A f \in poll.found : Precedes(e, f)}
             next == IF rest = {} THEN "read" ELSE poll.pc
  <2>2. poll' = [poll EXCEPT !.found = rest, !.pc = next]
    BY DEF Enqueue
  <2>3. next \in {"read", "enqueue"}
    BY <1>1
  <2> HIDE DEF rest, next
  <2> QED BY <2>1, <2>2, <2>3 DEF WatchInv, WatchTypeOK
<1>3. rows \in Seq(Rows) /\ Len(rows) \in Nat
  BY DEF WatchInv, WatchTypeOK
<1> DEFINE event == CHOOSE e \in poll.found : \A f \in poll.found : Precedes(e, f)
           row == [key |-> event.key, view |-> event.view, attempts |-> 0, delivered |-> FALSE]
<1>4. ~row.delivered /\ (rows' = rows \/ rows' = Append(rows, row))
  BY DEF Enqueue
<1> HIDE DEF row
<1>5. /\ Len(rows) <= Len(rows')
      /\ \A n \in 1..Len(rows) : rows'[n] = rows[n]
      /\ \A n \in 1..Len(rows') : n \notin 1..Len(rows) => ~rows'[n].delivered
  BY <1>3, <1>4
<1>6. BatchOK'
  BY <1>2, NoBatch
<1> QED BY <1>1, <1>2, <1>5, <1>6, NothingSent

\* The batch is the oldest undelivered rows: an older one than one of them is in it.
LEMMA ReadKeepsChat == WatchInv /\ WatchTypeOK' /\ ChatInv /\ ReadPending => ChatInv'
<1> SUFFICES ASSUME WatchInv, WatchTypeOK', ChatInv, ReadPending PROVE ChatInv'
  OBVIOUS
<1>1. /\ rows' = rows /\ chat' = chat /\ watch' = watch /\ poll.pc = "read"
      /\ poll' = [poll EXCEPT !.batch = Pending, !.pc = IF Pending = {} THEN "idle" ELSE "send"]
  BY DEF ReadPending
<1>2. poll'.batch = Pending /\ poll'.pc = IF Pending = {} THEN "idle" ELSE "send"
  BY <1>1 DEF WatchInv, WatchTypeOK
<1>3. Len(rows) \in Nat
  BY DEF WatchInv, WatchTypeOK
<1>4. ASSUME NEW b \in Pending, NEW m \in 1..Len(rows), m < b, ~Settled(m) PROVE m \in Pending
  <2> DEFINE Before(n) == {k \in Undelivered : k < n}
             A == Before(m)  B == Before(b)
  <2>1. b \in 1..Len(rows) /\ Cardinality(B) < Limit
    BY DEF Pending, Undelivered
  <2>2. m \in Undelivered
    BY <1>4 DEF Settled, Undelivered
  <2>3. Undelivered \subseteq 1..Len(rows)
    BY DEF Undelivered
  <2>4. \A k \in Undelivered : k < m => k < b
    BY <1>3, <1>4, <2>1, <2>3
  <2>5. A \subseteq B /\ B \subseteq 1..Len(rows)
    BY <2>3, <2>4
  <2> HIDE DEF A, B
  <2>6. IsFiniteSet(1..Len(rows))
    BY <1>3, FS_Interval
  <2>7. IsFiniteSet(B)
    BY <2>5, <2>6, FS_Subset
  <2>8. IsFiniteSet(A) /\ Cardinality(A) <= Cardinality(B)
    BY <2>5, <2>7, FS_Subset
  <2>9. Cardinality(A) \in Nat /\ Cardinality(B) \in Nat /\ Limit \in Nat
    BY <2>7, <2>8, FS_CardinalityType, AccountWatchAssumption
  <2>10. Cardinality(A) < Limit
    BY <2>1, <2>8, <2>9
  <2> QED BY <2>2, <2>10 DEF Pending, A
<1>5. BatchOK'
  <2>1. Undelivered' = Undelivered /\ \A m : Settled(m)' <=> Settled(m)
    BY <1>1 DEF Undelivered, Settled
  <2>2. Pending \subseteq Undelivered
    BY DEF Pending
  <2> HIDE DEF Pending, Settled, Undelivered
  <2> QED BY <1>1, <1>2, <1>4, <2>1, <2>2 DEF BatchOK
<1>6. poll'.pc # "mark"
  BY <1>2
<1> QED BY <1>1, <1>3, <1>5, <1>6, NothingSent

\* A row of the batch that is done with leaves it; what is older than the rest is settled.
LEMMA NextRowBatch ==
    ASSUME WatchTypeOK, WatchTypeOK', BatchOK, NextRow, poll.pc \in {"mark", "record"},
           Len(rows') = Len(rows),
           LET b == Oldest(poll.batch) IN rows'[b].delivered \/ rows'[b].attempts # 0,
           \A n \in 1..Len(rows) : n # Oldest(poll.batch) => rows'[n] = rows[n]
    PROVE  BatchOK' /\ poll'.pc # "mark"
<1> DEFINE b == Oldest(poll.batch)
           rest == poll.batch \ {b}
<1>1. CASE rest = {}
  <2>1. poll' = Idle
    BY <1>1 DEF NextRow
  <2>2. poll'.batch = {} /\ poll'.pc = "idle"
    BY <2>1 DEF Idle
  <2> QED BY <2>2, NoBatch
<1>2. CASE rest # {}
  <2>1. poll' = [poll EXCEPT !.pc = "send", !.batch = rest]
    BY <1>2 DEF NextRow
  <2> HIDE DEF rest, b
  <2>2. poll'.batch = rest /\ poll'.pc = "send"
    BY <2>1 DEF WatchTypeOK
  <2>3. rest \subseteq poll.batch /\ b \notin rest /\ \A x \in poll.batch : x = b \/ x \in rest
    BY DEF rest
  <2>4. \A n \in 1..Len(rows) : n # b => rows'[n] = rows[n]
    BY DEF b
  <2>5. rest \subseteq Undelivered'
    <3>1. \A x \in rest : x \in Undelivered /\ x # b
      BY <2>3 DEF BatchOK
    <3> QED BY <2>4, <3>1 DEF Undelivered
  <2>6. ASSUME NEW x \in rest, NEW m \in 1..Len(rows'), m < x PROVE m \in rest \/ Settled(m)'
    <3>1. CASE m = b
      BY <3>1 DEF b, Settled
    <3>2. CASE m # b
      <4>1. m \in poll.batch \/ Settled(m)
        BY <2>3, <2>6 DEF BatchOK
      <4> QED BY <2>3, <2>4, <3>2, <4>1 DEF Settled
    <3> QED BY <3>1, <3>2
  <2> QED BY <1>2, <2>2, <2>5, <2>6 DEF BatchOK
<1> QED BY <1>1, <1>2

\* A failed attempt settles its row.
LEMMA RecordKeepsChat == WatchInv /\ WatchTypeOK' /\ ChatInv /\ RecordFailure => ChatInv'
<1> SUFFICES ASSUME WatchInv, WatchTypeOK', ChatInv, RecordFailure PROVE ChatInv'
  OBVIOUS
<1> DEFINE b == Oldest(poll.batch)
<1>1. /\ chat' = chat /\ watch' = watch /\ poll.pc = "record" /\ NextRow
      /\ rows' = [rows EXCEPT ![b].attempts = @ + 1]
  BY DEF RecordFailure
<1>2. rows \in Seq(Rows) /\ Len(rows) \in Nat
  BY DEF WatchInv, WatchTypeOK
<1>3. b \in 1..Len(rows)
  <2>1. poll.batch # {} /\ poll.batch \subseteq 1..Len(rows)
    BY <1>1 DEF ChatInv, BatchOK, Undelivered
  <2> QED BY <2>1, OldestOfBatch DEF WatchInv
<1> HIDE DEF b
<1>4. /\ Len(rows') = Len(rows)
      /\ \A n \in 1..Len(rows) : n # b => rows'[n] = rows[n]
      /\ rows'[b] = [rows[b] EXCEPT !.attempts = rows[b].attempts + 1]
  BY <1>1, <1>2, <1>3
<1>5. rows[b] \in Rows
  BY <1>2, <1>3
<1>6. /\ rows'[b].delivered <=> rows[b].delivered
      /\ rows'[b].attempts # 0
  BY <1>4, <1>5 DEF Rows
<1>7. BatchOK' /\ poll'.pc # "mark"
  BY <1>1, <1>4, <1>6, NextRowBatch DEF WatchInv, ChatInv, b
<1> QED BY <1>1, <1>2, <1>4, <1>6, <1>7, NothingSent

\* The row that was in the chat already is accounted for by its mark.
LEMMA MarkKeepsChat == WatchInv /\ WatchTypeOK' /\ ChatInv /\ MarkDelivered => ChatInv'
<1> SUFFICES ASSUME WatchInv, WatchTypeOK', ChatInv, MarkDelivered PROVE ChatInv'
  OBVIOUS
<1> DEFINE b == Oldest(poll.batch)
<1>1. /\ chat' = chat /\ watch' = watch /\ poll.pc = "mark" /\ NextRow
      /\ rows' = [rows EXCEPT ![b].delivered = TRUE]
  BY DEF MarkDelivered
<1>2. rows \in Seq(Rows) /\ Len(rows) \in Nat
  BY DEF WatchInv, WatchTypeOK
<1>3. b \in 1..Len(rows)
  <2>1. poll.batch # {} /\ poll.batch \subseteq 1..Len(rows)
    BY <1>1 DEF ChatInv, BatchOK, Undelivered
  <2> QED BY <2>1, OldestOfBatch DEF WatchInv
<1>4. Accounted = {n \in 1..Len(rows) : rows[n].delivered \/ n = b}
  BY <1>1 DEF Accounted
<1> HIDE DEF b
<1>5. /\ Len(rows') = Len(rows)
      /\ \A n \in 1..Len(rows) : n # b => rows'[n] = rows[n]
      /\ rows'[b] = [rows[b] EXCEPT !.delivered = TRUE]
  <2>1. rows' = [rows EXCEPT ![b] = [rows[b] EXCEPT !.delivered = TRUE]]
    BY <1>1
  <2> DEFINE row == [rows[b] EXCEPT !.delivered = TRUE]
  <2>2. rows' = [rows EXCEPT ![b] = row]
    BY <2>1
  <2> HIDE DEF row
  <2>3. /\ Len(rows') = Len(rows) /\ rows'[b] = row
        /\ \A n \in 1..Len(rows) : n # b => rows'[n] = rows[n]
    BY <1>2, <1>3, <2>2
  <2> QED BY <2>3 DEF row
<1>6. rows[b] \in Rows
  BY <1>2, <1>3
<1>7. rows'[b].delivered /\ rows'[b].attempts = rows[b].attempts
  BY <1>5, <1>6 DEF Rows
<1>8. BatchOK' /\ poll'.pc # "mark"
  BY <1>1, <1>5, <1>7, NextRowBatch DEF WatchInv, ChatInv, b
<1>9. ChatOK' /\ InTurn'
  <2>1. \A n \in 1..Len(rows) : /\ rows[n].delivered => rows'[n].delivered
                                /\ rows'[n].attempts = 0 => rows[n].attempts = 0
    BY <1>5, <1>7
  <2> QED BY <1>1, <1>2, <1>5, <2>1, ChatStays DEF ChatInv
<1>10. Accounted' = Accounted
  <2>1. Accounted' = {n \in 1..Len(rows') : rows'[n].delivered}
    BY <1>8 DEF Accounted
  <2> QED BY <1>3, <1>4, <1>5, <1>7, <2>1
<1>11. CopiesCounted'
  <2>1. InTheChat' = InTheChat
    BY <1>1 DEF InTheChat
  <2> HIDE DEF Accounted
  <2> QED BY <1>1, <1>10, <2>1 DEF CopiesCounted, ChatInv
<1> QED BY <1>8, <1>9, <1>11 DEF ChatInv

\* A poll that ends before its mark leaves a copy that nothing accounts for.
LEMMA PollEndsKeepsChat == WatchInv /\ WatchTypeOK' /\ ChatInv /\ PollEnds => ChatInv'
<1> SUFFICES ASSUME WatchInv, WatchTypeOK', ChatInv, PollEnds PROVE ChatInv'
  OBVIOUS
<1>1. rows' = rows /\ chat' = chat /\ poll' = Idle
  BY DEF PollEnds
<1>2. poll'.batch = {} /\ poll'.pc = "idle"
  BY <1>1 DEF Idle
<1>3. watch.unmarked \in Nat /\ Len(rows) \in Nat
  BY DEF WatchInv, WatchTypeOK
<1>4. watch'.unmarked = IF poll.pc = "mark" THEN watch.unmarked + 1 ELSE watch.unmarked
  <2> DEFINE u == IF poll.pc = "mark" THEN watch.unmarked + 1 ELSE watch.unmarked
             before == [watch EXCEPT !.faults = watch.faults + 1, !.lost = watch.lost \/ poll.found # {}]
  <2>1. watch' = [before EXCEPT !.unmarked = u]
    BY DEF PollEnds
  <2>2. "unmarked" \in DOMAIN before
    BY DEF WatchInv, WatchTypeOK
  <2> HIDE DEF before, u
  <2>3. watch'.unmarked = u
    BY <2>1, <2>2
  <2> QED BY <2>3 DEF u
<1>5. BatchOK'
  BY <1>2, NoBatch
<1>6. CASE poll.pc # "mark"
  BY <1>1, <1>2, <1>3, <1>4, <1>5, <1>6, NothingSent
<1>7. CASE poll.pc = "mark"
  <2> DEFINE b == Oldest(poll.batch)
  <2>1. ChatOK' /\ InTurn'
    BY <1>1, <1>3, ChatStays DEF ChatInv
  <2>2. Accounted' \subseteq Accounted /\ Accounted \subseteq Accounted' \union {b}
    <3>1. Accounted' = {n \in 1..Len(rows) : rows[n].delivered}
      BY <1>1, <1>2 DEF Accounted
    <3> QED BY <3>1 DEF Accounted
  <2> HIDE DEF b, Accounted
  <2>3. IsFiniteSet(Accounted) /\ Cardinality(Accounted) \in Nat
    BY ChatFinite DEF WatchInv, ChatInv
  <2>4. IsFiniteSet(Accounted') /\ Cardinality(Accounted') \in Nat
    BY <2>2, <2>3, FS_Subset, FS_CardinalityType
  <2>5. /\ IsFiniteSet(Accounted' \union {b})
        /\ Cardinality(Accounted' \union {b}) \in Nat
        /\ Cardinality(Accounted' \union {b}) <= Cardinality(Accounted') + 1
    BY <2>4, FS_AddElement
  <2>6. Cardinality(Accounted) <= Cardinality(Accounted' \union {b})
    BY <2>2, <2>5, FS_Subset
  <2>7. CopiesCounted'
    <3>1. InTheChat' = InTheChat /\ Len(chat) \in Nat
      BY <1>1 DEF InTheChat, ChatInv, ChatOK
    <3>2. Len(chat) <= Cardinality(Accounted) + watch.unmarked /\ Accounted \subseteq InTheChat
      BY DEF ChatInv, CopiesCounted
    <3>3. Len(chat) <= Cardinality(Accounted') + watch'.unmarked
      BY <1>3, <1>4, <1>7, <2>3, <2>4, <2>5, <2>6, <3>1, <3>2
    <3> QED BY <1>1, <2>2, <3>1, <3>2, <3>3 DEF CopiesCounted
  <2> QED BY <1>5, <2>1, <2>7 DEF ChatInv
<1> QED BY <1>6, <1>7

\* What is sent next is in no older copy accounted for, and nothing older is unsettled:
\* the chat gets it in its turn.
LEMMA SendKeepsChat == WatchInv /\ WatchTypeOK' /\ ChatInv /\ Send => ChatInv'
<1> SUFFICES ASSUME WatchInv, WatchTypeOK', ChatInv, Send PROVE ChatInv'
  OBVIOUS
<1> DEFINE b == Oldest(poll.batch)
<1>1. rows' = rows /\ poll.pc = "send"
  BY DEF Send
<1>2. /\ Len(rows) \in Nat /\ watch.unmarked \in Nat /\ watch.faults \in Nat
      /\ chat \in Seq(Nat) /\ Len(chat) \in Nat
  BY DEF WatchInv, WatchTypeOK, ChatInv, ChatOK
<1>3. /\ b \in poll.batch /\ b \in 1..Len(rows) /\ ~rows[b].delivered
      /\ \A m \in poll.batch : b <= m
  <2>1. poll.batch # {} /\ poll.batch \subseteq Undelivered
    BY <1>1 DEF ChatInv, BatchOK
  <2> QED BY <2>1, OldestOfBatch DEF WatchInv, Undelivered
<1>4. \A m \in 1..Len(rows) : m < b => Settled(m)
  <2> SUFFICES ASSUME NEW m \in 1..Len(rows), m < b PROVE Settled(m)
    OBVIOUS
  <2>1. m \in poll.batch \/ Settled(m)
    BY <1>3 DEF ChatInv, BatchOK
  <2> QED BY <1>2, <1>3, <2>1
<1>5. /\ poll' = [poll EXCEPT !.pc = "mark"] \/ poll' = [poll EXCEPT !.pc = "record"]
      /\ \/ /\ poll' = [poll EXCEPT !.pc = "mark"]
            /\ chat' = Append(chat, b) /\ watch' = watch
         \/ /\ poll' = [poll EXCEPT !.pc = "record"]
            /\ chat' = Append(chat, b)
            /\ watch' = [watch EXCEPT !.faults = @ + 1, !.unmarked = @ + 1]
         \/ /\ poll' = [poll EXCEPT !.pc = "record"]
            /\ chat' = chat /\ watch' = [watch EXCEPT !.faults = @ + 1]
  BY DEF Send
<1>6. poll'.batch = poll.batch /\ poll'.pc \in {"mark", "record"}
  BY <1>5 DEF WatchInv, WatchTypeOK
<1>7. b' = b
  BY <1>6
<1>8. Accounted = {n \in 1..Len(rows) : rows[n].delivered}
  BY <1>1 DEF Accounted
<1>9. Accounted' = IF poll'.pc = "mark" THEN Accounted \union {b} ELSE Accounted
  <2>1. Accounted' = {n \in 1..Len(rows) : rows[n].delivered \/ (poll'.pc = "mark" /\ n = b)}
    BY <1>1, <1>7 DEF Accounted
  <2> QED BY <1>3, <1>8, <2>1
<1>10. BatchOK'
  <2>1. Undelivered' = Undelivered /\ \A m : Settled(m)' <=> Settled(m)
    BY <1>1 DEF Undelivered, Settled
  <2> HIDE DEF Undelivered, Settled
  <2> QED BY <1>1, <1>6, <2>1 DEF ChatInv, BatchOK
<1>11. b \notin Accounted
  BY <1>3, <1>8
<1> HIDE DEF b
<1>12. CASE chat' = chat
  <2>1. poll'.pc = "record" /\ watch'.unmarked = watch.unmarked
    <3>1. Append(chat, b) # chat
      BY <1>2
    <3>2. poll' = [poll EXCEPT !.pc = "record"] /\ watch' = [watch EXCEPT !.faults = @ + 1]
      BY <1>5, <1>12, <3>1
    <3> QED BY <3>2 DEF WatchInv, WatchTypeOK
  <2> QED BY <1>1, <1>2, <1>10, <1>12, <2>1, NothingSent
<1>13. CASE chat' = Append(chat, b)
  <2>1. /\ Len(chat') = Len(chat) + 1 /\ chat'[Len(chat) + 1] = b /\ chat' \in Seq(Nat)
        /\ \A k \in 1..Len(chat) : chat'[k] = chat[k]
    BY <1>2, <1>3, <1>13
  <2>2. \A k \in 1..Len(chat') : k \in 1..Len(chat) \/ k = Len(chat) + 1
    BY <1>2, <2>1
  <2>3. ChatOK'
    <3>1. \A k \in 1..Len(chat') : chat'[k] \in 1..Len(rows)
      BY <1>3, <2>1, <2>2 DEF ChatInv, ChatOK
    <3>2. ASSUME NEW k \in 1..Len(chat'), NEW m \in 1..Len(rows), m < chat'[k] PROVE Settled(m)
      <4>1. CASE k \in 1..Len(chat)
        BY <2>1, <3>2, <4>1 DEF ChatInv, ChatOK
      <4>2. CASE k = Len(chat) + 1
        BY <1>4, <2>1, <3>2, <4>2
      <4> QED BY <2>2, <4>1, <4>2
    <3> QED BY <1>1, <2>1, <3>1, <3>2 DEF ChatOK, Settled
  <2>4. InTurn'
    <3> SUFFICES ASSUME NEW k \in 1..Len(chat'), NEW n \in 1..Len(rows),
                        n < chat'[k], rows[n].attempts = 0
                 PROVE  /\ \E i \in 1..Len(chat') : i < k /\ chat'[i] = n
                        /\ \A i \in 1..Len(chat') : k < i => chat'[i] # n
      BY <1>1 DEF InTurn
    <3>1. rows[n].delivered /\ n # b
      <4>1. Settled(n)
        BY <1>1, <2>3 DEF ChatOK, Settled
      <4> QED BY <1>3, <4>1 DEF Settled
    <3>2. CASE k \in 1..Len(chat)
      <4>1. /\ \E i \in 1..Len(chat) : i < k /\ chat[i] = n
            /\ \A i \in 1..Len(chat) : k < i => chat[i] # n
        BY <2>1, <3>2 DEF ChatInv, InTurn
      <4>2. \E i \in 1..Len(chat') : i < k /\ chat'[i] = n
        BY <1>2, <2>1, <4>1
      <4>3. \A i \in 1..Len(chat') : k < i => chat'[i] # n
        BY <2>1, <2>2, <3>1, <4>1
      <4> QED BY <4>2, <4>3
    <3>3. CASE k = Len(chat) + 1
      <4>1. n \in InTheChat
        BY <1>8, <3>1 DEF ChatInv, CopiesCounted
      <4>2. PICK i \in 1..Len(chat) : chat[i] = n
        BY <4>1 DEF InTheChat
      <4>3. i \in 1..Len(chat') /\ i < k /\ chat'[i] = n
        BY <1>2, <2>1, <3>3, <4>2
      <4>4. \A j \in 1..Len(chat') : ~(k < j)
        BY <1>2, <2>1, <3>3
      <4> QED BY <4>3, <4>4
    <3> QED BY <2>2, <3>2, <3>3
  <2>5. InTheChat' = InTheChat \union {b}
    <3>1. \A k \in 1..Len(chat) : k \in 1..Len(chat')
      BY <1>2, <2>1
    <3>2. Len(chat) + 1 \in 1..Len(chat')
      BY <1>2, <2>1
    <3>3. InTheChat \union {b} \subseteq InTheChat'
      BY <2>1, <3>1, <3>2 DEF InTheChat
    <3>4. ASSUME NEW n \in InTheChat' PROVE n \in InTheChat \union {b}
      <4>1. PICK k \in 1..Len(chat') : n = chat'[k]
        BY DEF InTheChat
      <4> QED BY <2>1, <2>2, <4>1 DEF InTheChat
    <3> QED BY <3>3, <3>4
  <2>6. IsFiniteSet(Accounted) /\ Cardinality(Accounted) \in Nat
    BY ChatFinite DEF WatchInv, ChatInv
  <2>7. Len(chat) <= Cardinality(Accounted) + watch.unmarked /\ Accounted \subseteq InTheChat
    BY DEF ChatInv, CopiesCounted
  <2> HIDE DEF Accounted, InTheChat
  <2>8. CASE poll'.pc = "mark"
    <3>1. watch' = watch
      <4>1. poll' # [poll EXCEPT !.pc = "record"]
        BY <2>8 DEF WatchInv, WatchTypeOK
      <4> QED BY <1>5, <4>1
    <3>2. Accounted' = Accounted \union {b}
      BY <1>9, <2>8
    <3>3. Cardinality(Accounted \union {b}) = Cardinality(Accounted) + 1
      BY <1>11, <2>6, FS_AddElement
    <3>4. Len(chat') <= Cardinality(Accounted') + watch'.unmarked
      BY <1>2, <2>1, <2>6, <2>7, <3>1, <3>2, <3>3
    <3>5. CopiesCounted'
      BY <2>5, <2>7, <3>2, <3>4 DEF CopiesCounted
    <3> QED BY <1>10, <2>3, <2>4, <3>5 DEF ChatInv
  <2>9. CASE poll'.pc # "mark"
    <3>1. watch'.unmarked = watch.unmarked + 1
      <4>1. poll' # [poll EXCEPT !.pc = "mark"]
        BY <2>9 DEF WatchInv, WatchTypeOK
      <4>2. Append(chat, b) # chat
        BY <1>2
      <4>3. watch' = [watch EXCEPT !.faults = @ + 1, !.unmarked = @ + 1]
        BY <1>5, <1>13, <4>1, <4>2
      <4> QED BY <4>3 DEF WatchInv, WatchTypeOK
    <3>2. Accounted' = Accounted
      BY <1>9, <2>9
    <3>3. Len(chat') <= Cardinality(Accounted') + watch'.unmarked
      BY <1>2, <2>1, <2>6, <2>7, <3>1, <3>2
    <3>4. CopiesCounted'
      BY <2>5, <2>7, <3>2, <3>3 DEF CopiesCounted
    <3> QED BY <1>10, <2>3, <2>4, <3>4 DEF ChatInv
  <2> QED BY <2>8, <2>9
<1> QED BY <1>5, <1>12, <1>13

\* WatchInv and ChatInv together are an invariant of the monitor.
LEMMA ChatInvariant == WatchSpec => [](WatchInv /\ ChatInv)
<1>1. WatchInit => WatchInv /\ ChatInv
  BY WatchStarts, ChatStarts
<1>2. WatchInv /\ ChatInv /\ [WatchNext]_watchVars => (WatchInv /\ ChatInv)'
  <2> SUFFICES ASSUME WatchInv, ChatInv, [WatchNext]_watchVars PROVE WatchInv' /\ ChatInv'
    OBVIOUS
  <2>1. WatchInv'
    BY WatchStepKeeps
  <2>2. WatchTypeOK'
    BY <2>1 DEF WatchInv
  <2>3. CASE UNCHANGED watchVars
    BY <2>1, <2>3 DEF watchVars, ChatInv, BatchOK, Undelivered, Settled, ChatOK, CopiesCounted,
                Accounted, InTheChat, InTurn
  <2>4. CASE WatchNext
    BY <2>1, <2>2, <2>4, BrokerKeepsChat, PollEndsKeepsChat, ObserveKeepsChat, EnqueueKeepsChat,
       ReadKeepsChat, SendKeepsChat, MarkKeepsChat, RecordKeepsChat DEF WatchNext, WatchStep
  <2> QED BY <2>1, <2>3, <2>4
<1> QED BY <1>1, <1>2, PTL DEF WatchSpec

\* Whatever fails, is lost or dies: what is marked delivered is in the chat, each row is
\* there again at most for a copy that could not be marked, and none overtakes an older
\* one that had not failed.
THEOREM ChatAlwaysGetsRowsInTurn == WatchSpec => []ChatGetsRowsInTurn
<1>1. WatchInv /\ ChatInv => ChatGetsRowsInTurn
  <2> SUFFICES ASSUME WatchInv, ChatInv PROVE ChatGetsRowsInTurn
    OBVIOUS
  <2>1. ASSUME NEW n \in 1..Len(rows), rows[n].delivered PROVE n \in InTheChat
    <3>1. n \in Accounted
      BY <2>1 DEF Accounted
    <3> QED BY <3>1 DEF ChatInv, CopiesCounted
  <2>2. /\ IsFiniteSet(InTheChat) /\ Cardinality(InTheChat) \in Nat /\ Cardinality(Accounted) \in Nat
    BY ChatFinite DEF WatchInv, ChatInv
  <2>3. Cardinality(Accounted) <= Cardinality(InTheChat)
    <3>1. Accounted \subseteq InTheChat
      BY DEF ChatInv, CopiesCounted
    <3> HIDE DEF Accounted, InTheChat
    <3> QED BY <2>2, <3>1, FS_Subset
  <2>4. Len(chat) <= Cardinality(InTheChat) + watch.unmarked
    <3>1. Len(chat) \in Nat /\ watch.unmarked \in Nat
      BY DEF WatchInv, WatchTypeOK, ChatInv, ChatOK
    <3>2. Len(chat) <= Cardinality(Accounted) + watch.unmarked
      BY DEF ChatInv, CopiesCounted
    <3> QED BY <2>2, <2>3, <3>1, <3>2
  <2>5. InTurn
    BY DEF ChatInv
  <2> QED BY <2>1, <2>4, <2>5 DEF ChatGetsRowsInTurn
<1> QED BY ChatInvariant, <1>1, PTL

-----------------------------------------------------------------------------
(* The rate limiter                                                          *)

Ages == 0..OldAge

\* The k-th age from the end: the k-th last request.
FromEnd(s, k) == s[Len(s) - k + 1]

\* The ages grow towards the front.
InOrder(s) == \A k, l \in 1..Len(s) : k <= l => FromEnd(s, k) <= FromEnd(s, l)

\* A request that went out less than Per - Overshoot ago still has its timestamp, or
\* one of a later request, which counts it too; no timestamp is more than Overshoot
\* older than its request.
Matched(st, se) ==
    \A k \in 1..Len(se) :
        FromEnd(se, k) < Per - Overshoot => k <= Len(st) /\ FromEnd(st, k) <= FromEnd(se, k) + Overshoot

LimiterInv ==
    /\ stamps \in Seq(Ages) /\ sent \in Seq(Ages)
    /\ Len(stamps) <= MaxRequests /\ Len(sent) <= MaxRequests + 1
    /\ InOrder(stamps)
    /\ Matched(stamps, sent)

USE RateLimiterAssumption

\* The timestamps out of the window come first, and are counted by Expired.
LEMMA ExpiredCounts ==
    ASSUME NEW s \in Seq(Ages), InOrder(s), NEW late \in 0..Overshoot
    PROVE  /\ Expired(s, late) \in 0..Len(s)
           /\ \A i \in 1..Len(s) : i <= Expired(s, late) <=> s[i] - late >= Per
<1> DEFINE T == {i \in 1..Len(s) + 1 : i = Len(s) + 1 \/ s[i] - late < Per}
<1>1. Len(s) \in Nat /\ DOMAIN s = 1..Len(s) /\ \A i \in 1..Len(s) : s[i] \in Int
  BY DEF Ages, OldAge
<1>2. PICK m \in T : \A i \in T : m <= i
  <2>1. T \subseteq Nat /\ Len(s) + 1 \in T
    BY <1>1
  <2> HIDE DEF T
  <2> QED BY <2>1, LeastNatural
<1>3. \A i, j \in 1..Len(s) : i <= j => s[i] >= s[j]
  <2> SUFFICES ASSUME NEW i \in 1..Len(s), NEW j \in 1..Len(s), i <= j PROVE s[i] >= s[j]
    OBVIOUS
  <2> DEFINE k == Len(s) - j + 1  l == Len(s) - i + 1
  <2>1. k \in 1..Len(s) /\ l \in 1..Len(s) /\ k <= l /\ FromEnd(s, k) = s[j] /\ FromEnd(s, l) = s[i]
    BY <1>1 DEF FromEnd
  <2> QED BY <1>1, <2>1 DEF InOrder
<1>4. m - 1 \in 0..Len(s) /\ \A i \in DOMAIN s : i <= m - 1 <=> s[i] - late >= Per
  <2>1. m \in 1..Len(s) + 1 /\ (m = Len(s) + 1 \/ s[m] - late < Per)
    BY <1>2
  <2>2. ASSUME NEW i \in 1..Len(s) PROVE i <= m - 1 <=> s[i] - late >= Per
    <3>1. CASE i < m
      <4>1. i \notin T
        BY <1>1, <1>2, <2>1, <3>1
      <4> QED BY <1>1, <2>1, <3>1, <4>1
    <3>2. CASE i >= m
      <4>1. m \in 1..Len(s) /\ s[i] <= s[m] /\ s[m] - late < Per
        BY <1>1, <1>3, <2>1, <3>2
      <4> QED BY <1>1, <2>1, <3>2, <4>1
    <3> QED BY <1>1, <2>1, <3>1, <3>2
  <2> QED BY <1>1, <2>1, <2>2
<1>5. \E n \in 0..Len(s) : \A i \in DOMAIN s : i <= n <=> s[i] - late >= Per
  BY <1>4
<1> QED BY <1>1, <1>5 DEF Expired

\* What is in the window is the end of the list, and no more of it is.
LEMMA WindowIsEnd ==
    ASSUME NEW s \in Seq(Ages), InOrder(s), NEW late \in 0..Overshoot
    PROVE  /\ InWindow(s, late) \in Seq(Ages) /\ Len(InWindow(s, late)) \in 0..Len(s)
           /\ InOrder(InWindow(s, late))
           /\ \A k \in 1..Len(InWindow(s, late)) : FromEnd(InWindow(s, late), k) = FromEnd(s, k)
           /\ \A k \in 1..Len(s) : k <= Len(InWindow(s, late)) <=> FromEnd(s, k) - late < Per
<1> DEFINE n == Expired(s, late)  w == InWindow(s, late)
<1>1. n \in 0..Len(s) /\ \A i \in 1..Len(s) : i <= n <=> s[i] - late >= Per
  BY ExpiredCounts
<1>2. Len(s) \in Nat /\ \A i \in 1..Len(s) : s[i] \in Ages
  OBVIOUS
<1>3. /\ w \in Seq(Ages) /\ Len(w) = Len(s) - n
      /\ \A i \in 1..Len(w) : w[i] = s[n + i]
  <2>1. w = SubSeq(s, n + 1, Len(s))
    BY DEF InWindow
  <2> HIDE DEF n, w
  <2> QED BY <1>1, <1>2, <2>1, SubSeqProperties
<1> HIDE DEF n, w
<1>4. \A k \in 1..Len(w) : FromEnd(w, k) = FromEnd(s, k)
  BY <1>1, <1>2, <1>3 DEF FromEnd
<1>5. \A k \in 1..Len(s) : k <= Len(w) <=> FromEnd(s, k) - late < Per
  <2> SUFFICES ASSUME NEW k \in 1..Len(s) PROVE k <= Len(w) <=> FromEnd(s, k) - late < Per
    OBVIOUS
  <2>1. Len(s) - k + 1 \in 1..Len(s) /\ (Len(s) - k + 1 <= n <=> ~(k <= Len(w)))
    BY <1>1, <1>2, <1>3
  <2>2. FromEnd(s, k) \in Int
    BY <1>2, <2>1 DEF FromEnd, Ages, OldAge
  <2> QED BY <1>1, <2>1, <2>2 DEF FromEnd
<1>6. InOrder(w)
  <2>1. \A k \in 1..Len(w) : k \in 1..Len(s)
    BY <1>1, <1>2, <1>3
  <2> QED BY <1>4, <2>1 DEF InOrder
<1> QED BY <1>1, <1>2, <1>3, <1>4, <1>5, <1>6 DEF w

\* The k-th last age is one.
LEMMA FromEndAge == ASSUME NEW s \in Seq(Ages), NEW k \in 1..Len(s) PROVE FromEnd(s, k) \in Ages
<1>1. Len(s) - k + 1 \in 1..Len(s)
  OBVIOUS
<1> QED BY <1>1 DEF FromEnd

\* Time passes for the k-th last as for all.
LEMMA AgedLast ==
    ASSUME NEW s \in Seq(Ages), NEW d \in Nat
    PROVE  /\ Aged(s, d) \in Seq(Ages) /\ Len(Aged(s, d)) = Len(s)
           /\ \A k \in 1..Len(s) :
                 /\ FromEnd(s, k) \in Ages
                 /\ FromEnd(Aged(s, d), k) = IF FromEnd(s, k) + d < OldAge THEN FromEnd(s, k) + d ELSE OldAge
           /\ InOrder(s) => InOrder(Aged(s, d))
<1>1. Len(s) \in Nat /\ DOMAIN s = 1..Len(s) /\ OldAge \in Nat /\ \A i \in 1..Len(s) : s[i] \in Ages
  BY DEF OldAge
<1>2. Aged(s, d) \in Seq(Ages) /\ Len(Aged(s, d)) = Len(s)
  <2>1. Aged(s, d) \in [1..Len(s) -> Ages]
    BY <1>1 DEF Aged, Ages
  <2> QED BY <1>1, <2>1, IsASeq
<1>3. ASSUME NEW k \in 1..Len(s)
      PROVE  /\ FromEnd(s, k) \in Ages
             /\ FromEnd(Aged(s, d), k) = IF FromEnd(s, k) + d < OldAge THEN FromEnd(s, k) + d ELSE OldAge
  <2>1. Len(s) - k + 1 \in 1..Len(s)
    BY <1>1
  <2> QED BY <1>1, <1>2, <2>1 DEF FromEnd, Aged
<1>4. InOrder(s) => InOrder(Aged(s, d))
  <2> SUFFICES ASSUME InOrder(s), NEW k \in 1..Len(s), NEW l \in 1..Len(s), k <= l
               PROVE  FromEnd(Aged(s, d), k) <= FromEnd(Aged(s, d), l)
    BY <1>2 DEF InOrder
  <2>1. FromEnd(s, k) <= FromEnd(s, l)
    BY DEF InOrder
  <2> QED BY <1>1, <1>3, <2>1 DEF Ages
<1> QED BY <1>2, <1>3, <1>4

\* A new one becomes the last, and every other one later than it was.
LEMMA AppendLast ==
    ASSUME NEW s \in Seq(Ages), NEW x \in Ages
    PROVE  /\ Append(s, x) \in Seq(Ages) /\ Len(Append(s, x)) = Len(s) + 1
           /\ FromEnd(Append(s, x), 1) = x
           /\ \A k \in 2..Len(s) + 1 : FromEnd(Append(s, x), k) = FromEnd(s, k - 1)
<1>1. Len(s) \in Nat
  OBVIOUS
<1> QED BY <1>1, AppendProperties DEF FromEnd

\* The gateway counts one request more, and the oldest no longer.
LEMMA SentNowLast ==
    ASSUME NEW s \in Seq(Ages), Len(s) <= MaxRequests + 1
    PROVE  /\ SentNow(s) \in Seq(Ages) /\ Len(SentNow(s)) \in 1..MaxRequests + 1
           /\ FromEnd(SentNow(s), 1) = 0
           /\ \A k \in 2..Len(SentNow(s)) : k - 1 \in 1..Len(s) /\ FromEnd(SentNow(s), k) = FromEnd(s, k - 1)
<1> DEFINE all == Append(s, 0)
<1>1. 0 \in Ages /\ Len(s) \in Nat
  BY DEF Ages, OldAge
<1>2. /\ all \in Seq(Ages) /\ Len(all) = Len(s) + 1 /\ FromEnd(all, 1) = 0
      /\ \A k \in 2..Len(s) + 1 : FromEnd(all, k) = FromEnd(s, k - 1)
  BY <1>1, AppendLast
<1>3. SentNow(s) = IF Len(all) > MaxRequests + 1 THEN Tail(all) ELSE all
  BY DEF SentNow
<1> HIDE DEF all
<1>4. CASE Len(all) > MaxRequests + 1
  <2>1. all # <<>>
    BY <1>1, <1>2
  <2>2. /\ Tail(all) \in Seq(Ages) /\ Len(Tail(all)) = Len(all) - 1
        /\ \A i \in 1..Len(Tail(all)) : Tail(all)[i] = all[i + 1]
    BY <1>2, <2>1, HeadTailProperties
  <2>3. \A k \in 1..Len(s) : FromEnd(Tail(all), k) = FromEnd(all, k)
    BY <1>1, <1>2, <2>2 DEF FromEnd
  <2>4. Len(s) = MaxRequests + 1 /\ SentNow(s) = Tail(all) /\ Len(SentNow(s)) = Len(s)
    BY <1>1, <1>2, <1>3, <1>4, <2>2
  <2> QED BY <1>1, <1>2, <2>2, <2>3, <2>4
<1>5. CASE ~(Len(all) > MaxRequests + 1)
  BY <1>1, <1>2, <1>3, <1>5
<1> QED BY <1>4, <1>5

\* A list without what is out of its window still matches.
LEMMA WindowMatched ==
    ASSUME NEW s \in Seq(Ages), NEW se \in Seq(Ages), InOrder(s), Matched(s, se), NEW late \in 0..Overshoot
    PROVE  Matched(InWindow(s, late), se)
<1> DEFINE w == InWindow(s, late)
<1>1. /\ Len(w) \in 0..Len(s)
      /\ \A k \in 1..Len(w) : FromEnd(w, k) = FromEnd(s, k)
      /\ \A k \in 1..Len(s) : k <= Len(w) <=> FromEnd(s, k) - late < Per
  BY WindowIsEnd
<1> HIDE DEF w
<1> SUFFICES ASSUME NEW k \in 1..Len(se), FromEnd(se, k) < Per - Overshoot
             PROVE  k <= Len(w) /\ FromEnd(w, k) <= FromEnd(se, k) + Overshoot
  BY DEF Matched, w
<1>2. k \in 1..Len(s) /\ FromEnd(s, k) <= FromEnd(se, k) + Overshoot
  BY DEF Matched
<1>3. FromEnd(s, k) \in Int /\ FromEnd(se, k) \in Int
  BY <1>2, FromEndAge DEF Ages, OldAge
<1>4. FromEnd(s, k) - late < Per
  BY <1>2, <1>3
<1> QED BY <1>1, <1>2, <1>4

\* Time passes for the timestamps as for the requests.
LEMMA AgedMatched ==
    ASSUME NEW s \in Seq(Ages), NEW se \in Seq(Ages), Matched(s, se), NEW d \in Nat
    PROVE  Matched(Aged(s, d), Aged(se, d))
<1> SUFFICES ASSUME NEW k \in 1..Len(se), FromEnd(Aged(se, d), k) < Per - Overshoot
             PROVE  k <= Len(s) /\ FromEnd(Aged(s, d), k) <= FromEnd(Aged(se, d), k) + Overshoot
  BY AgedLast DEF Matched
<1>1. FromEnd(se, k) \in Ages /\ FromEnd(Aged(se, d), k) = IF FromEnd(se, k) + d < OldAge THEN FromEnd(se, k) + d ELSE OldAge
  BY AgedLast
<1>2. FromEnd(Aged(se, d), k) = FromEnd(se, k) + d /\ FromEnd(se, k) < Per - Overshoot
  BY <1>1 DEF Ages, OldAge
<1>3. k \in 1..Len(s) /\ FromEnd(s, k) <= FromEnd(se, k) + Overshoot
  BY <1>2 DEF Matched
<1>4. FromEnd(s, k) \in Ages /\ FromEnd(Aged(s, d), k) <= FromEnd(s, k) + d
  <2>1. FromEnd(s, k) \in Ages /\ FromEnd(Aged(s, d), k) = IF FromEnd(s, k) + d < OldAge THEN FromEnd(s, k) + d ELSE OldAge
    BY <1>3, AgedLast
  <2> QED BY <2>1 DEF Ages, OldAge
<1>5. FromEnd(Aged(s, d), k) \in Int
  <2>1. FromEnd(s, k) \in Ages /\ FromEnd(Aged(s, d), k) = IF FromEnd(s, k) + d < OldAge THEN FromEnd(s, k) + d ELSE OldAge
    BY <1>3, AgedLast
  <2> QED BY <2>1 DEF Ages, OldAge
<1> QED BY <1>1, <1>2, <1>3, <1>4, <1>5 DEF Ages

\* A timestamp that is no older than the others, of a request that goes out or is refused.
LEMMA StampMatched ==
    ASSUME NEW s \in Seq(Ages), NEW se \in Seq(Ages), Len(se) <= MaxRequests + 1,
           InOrder(s), Matched(s, se), NEW x \in 0..Overshoot,
           \A k \in 1..Len(s) : x <= FromEnd(s, k)
    PROVE  /\ InOrder(Append(s, x))
           /\ Matched(Append(s, x), se)
           /\ Matched(Append(s, x), SentNow(se))
<1> DEFINE a == Append(s, x)
<1>1. /\ a \in Seq(Ages) /\ Len(a) = Len(s) + 1 /\ FromEnd(a, 1) = x
      /\ \A k \in 2..Len(s) + 1 : FromEnd(a, k) = FromEnd(s, k - 1)
  <2>1. x \in Ages
    BY DEF Ages, OldAge
  <2> QED BY <2>1, AppendLast
<1> HIDE DEF a
<1>2. Len(s) \in Nat /\ Len(se) \in Nat /\ x \in Int
  OBVIOUS
<1>3. \A k \in 1..Len(s) : FromEnd(s, k) \in Int
  BY FromEndAge DEF Ages, OldAge
<1>4. InOrder(a)
  <2> SUFFICES ASSUME NEW k \in 1..Len(a), NEW l \in 1..Len(a), k <= l PROVE FromEnd(a, k) <= FromEnd(a, l)
    BY DEF InOrder
  <2>1. CASE l = 1
    BY <1>1, <1>2, <2>1
  <2>2. CASE k = 1 /\ l # 1
    BY <1>1, <1>2, <2>2
  <2>3. CASE k # 1 /\ l # 1
    <3>1. /\ k - 1 \in 1..Len(s) /\ l - 1 \in 1..Len(s) /\ k - 1 <= l - 1
          /\ FromEnd(a, k) = FromEnd(s, k - 1) /\ FromEnd(a, l) = FromEnd(s, l - 1)
      BY <1>1, <1>2, <2>3
    <3> QED BY <3>1 DEF InOrder
  <2> QED BY <2>1, <2>2, <2>3
<1>5. Matched(a, se)
  <2> SUFFICES ASSUME NEW k \in 1..Len(se), FromEnd(se, k) < Per - Overshoot
               PROVE  k <= Len(a) /\ FromEnd(a, k) <= FromEnd(se, k) + Overshoot
    BY DEF Matched
  <2>1. k \in 1..Len(s) /\ FromEnd(s, k) <= FromEnd(se, k) + Overshoot
    BY <1>2 DEF Matched
  <2>2. FromEnd(a, k) \in Int /\ FromEnd(a, k) <= FromEnd(s, k)
    <3>1. CASE k = 1
      BY <1>1, <1>2, <2>1, <3>1
    <3>2. CASE k # 1
      <4>1. k - 1 \in 1..Len(s) /\ k - 1 <= k /\ FromEnd(a, k) = FromEnd(s, k - 1)
        BY <1>1, <1>2, <2>1, <3>2
      <4> QED BY <1>3, <2>1, <4>1 DEF InOrder
    <3> QED BY <3>1, <3>2
  <2>3. FromEnd(se, k) \in Int
    BY FromEndAge DEF Ages, OldAge
  <2> QED BY <1>1, <1>2, <1>3, <2>1, <2>2, <2>3
<1>6. Matched(a, SentNow(se))
  <2>1. /\ SentNow(se) \in Seq(Ages) /\ Len(SentNow(se)) \in 1..MaxRequests + 1
        /\ FromEnd(SentNow(se), 1) = 0
        /\ \A k \in 2..Len(SentNow(se)) : k - 1 \in 1..Len(se) /\ FromEnd(SentNow(se), k) = FromEnd(se, k - 1)
    BY SentNowLast
  <2> SUFFICES ASSUME NEW k \in 1..Len(SentNow(se)), FromEnd(SentNow(se), k) < Per - Overshoot
               PROVE  k <= Len(a) /\ FromEnd(a, k) <= FromEnd(SentNow(se), k) + Overshoot
    BY DEF Matched
  <2>2. CASE k = 1
    BY <1>1, <1>2, <2>1, <2>2
  <2>3. CASE k # 1
    <3>1. k - 1 \in 1..Len(se) /\ FromEnd(SentNow(se), k) = FromEnd(se, k - 1)
      BY <2>1, <2>3
    <3>2. k - 1 <= Len(s) /\ FromEnd(s, k - 1) <= FromEnd(se, k - 1) + Overshoot
      BY <3>1 DEF Matched
    <3>3. k \in 2..Len(s) + 1
      BY <1>2, <2>1, <2>3, <3>2
    <3> QED BY <1>1, <1>2, <3>1, <3>2, <3>3
  <2> QED BY <2>2, <2>3
<1> QED BY <1>4, <1>5, <1>6 DEF a

\* The limiter starts with nothing sent.
LEMMA LimiterStarts == LimiterInit => LimiterInv
<1>1. <<>> \in Seq(Ages) /\ Len(<<>>) = 0
  OBVIOUS
<1> QED BY <1>1 DEF LimiterInit, LimiterInv, InOrder, Matched

\* Time keeps the invariant.
LEMMA WaitKeeps == LimiterInv /\ Wait => LimiterInv'
<1> SUFFICES ASSUME LimiterInv, Wait PROVE LimiterInv'
  OBVIOUS
<1>1. stamps \in Seq(Ages) /\ sent \in Seq(Ages) /\ InOrder(stamps) /\ Matched(stamps, sent)
  BY DEF LimiterInv
<1>2. stamps' = Aged(stamps, 1) /\ sent' = Aged(sent, 1)
  BY DEF Wait
<1>3. stamps' \in Seq(Ages) /\ Len(stamps') = Len(stamps) /\ InOrder(stamps')
  BY <1>1, <1>2, AgedLast
<1>4. sent' \in Seq(Ages) /\ Len(sent') = Len(sent)
  BY <1>1, <1>2, AgedLast
<1>5. Matched(stamps', sent')
  BY <1>1, <1>2, AgedMatched
<1>6. Len(stamps) <= MaxRequests /\ Len(sent) <= MaxRequests + 1
  BY DEF LimiterInv
<1> QED BY <1>3, <1>4, <1>5, <1>6 DEF LimiterInv

\* So does a timestamp put behind fewer than MaxRequests that are at least as old.
LEMMA StampKeeps ==
    ASSUME NEW s \in Seq(Ages), NEW se \in Seq(Ages), Len(se) <= MaxRequests + 1,
           InOrder(s), Matched(s, se), Len(s) < MaxRequests, NEW x \in 0..Overshoot,
           \A k \in 1..Len(s) : x <= FromEnd(s, k),
           stamps' = Append(s, x), sent' \in {se, SentNow(se)}
    PROVE  LimiterInv'
<1>1. x \in Ages /\ Len(s) \in Nat
  BY DEF Ages, OldAge
<1>2. Append(s, x) \in Seq(Ages) /\ Len(Append(s, x)) = Len(s) + 1
  BY <1>1, AppendLast
<1>3. SentNow(se) \in Seq(Ages) /\ Len(SentNow(se)) \in 1..MaxRequests + 1
  BY SentNowLast
<1>4. InOrder(Append(s, x)) /\ Matched(Append(s, x), se) /\ Matched(Append(s, x), SentNow(se))
  BY StampMatched
<1>5. stamps' \in Seq(Ages) /\ Len(stamps') <= MaxRequests /\ InOrder(stamps')
  BY <1>1, <1>2, <1>4
<1>6. sent' \in Seq(Ages) /\ Len(sent') <= MaxRequests + 1 /\ Matched(stamps', sent')
  BY <1>3, <1>4
<1> QED BY <1>5, <1>6 DEF LimiterInv

\* A request within the limit keeps it.
LEMMA AtOnceKeeps == LimiterInv /\ AcquireAtOnce => LimiterInv'
<1> SUFFICES ASSUME LimiterInv, AcquireAtOnce PROVE LimiterInv'
  OBVIOUS
<1> DEFINE w == InWindow(stamps, 0)
<1>1. /\ stamps \in Seq(Ages) /\ sent \in Seq(Ages) /\ Len(sent) <= MaxRequests + 1
      /\ InOrder(stamps) /\ Matched(stamps, sent)
  BY DEF LimiterInv
<1>2. 0 \in 0..Overshoot
  OBVIOUS
<1>3. w \in Seq(Ages) /\ Len(w) \in 0..Len(stamps) /\ InOrder(w)
  BY <1>1, <1>2, WindowIsEnd
<1>4. Matched(w, sent)
  BY <1>1, <1>2, WindowMatched
<1>5. Len(w) < MaxRequests /\ stamps' = Append(w, 0) /\ sent' \in {sent, SentNow(sent)}
  BY <1>3 DEF AcquireAtOnce, Full
<1> HIDE DEF w
<1>6. \A k \in 1..Len(w) : 0 <= FromEnd(w, k)
  BY <1>3, FromEndAge DEF Ages, OldAge
<1> QED BY <1>1, <1>2, <1>3, <1>4, <1>5, <1>6, StampKeeps

\* So does one that waits: what is then out of the window includes the oldest timestamp,
\* so there is room for one more.
LEMMA AfterSleepKeeps == LimiterInv /\ AcquireAfterSleep => LimiterInv'
<1> SUFFICES ASSUME LimiterInv, AcquireAfterSleep PROVE LimiterInv'
  OBVIOUS
<1> DEFINE w == InWindow(stamps, 0)
<1>1. /\ stamps \in Seq(Ages) /\ sent \in Seq(Ages) /\ Len(sent) <= MaxRequests + 1
      /\ Len(stamps) <= MaxRequests /\ InOrder(stamps) /\ Matched(stamps, sent)
  BY DEF LimiterInv
<1>2. 0 \in 0..Overshoot
  OBVIOUS
<1>3. /\ w \in Seq(Ages) /\ Len(w) \in 0..Len(stamps) /\ InOrder(w)
      /\ \A k \in 1..Len(w) : FromEnd(w, k) = FromEnd(stamps, k)
      /\ \A k \in 1..Len(stamps) : k <= Len(w) <=> FromEnd(stamps, k) - 0 < Per
  BY <1>1, <1>2, WindowIsEnd
<1>4. Matched(w, sent)
  BY <1>1, <1>2, WindowMatched
<1>5. PICK late \in 0..Overshoot :
          LET slept == Per - w[1] + late IN
          /\ stamps' = Append(InWindow(Aged(w, slept), late), late)
          /\ sent' \in {Aged(sent, slept), SentNow(Aged(sent, slept))}
  BY DEF AcquireAfterSleep
<1>6. Len(w) = MaxRequests
  BY <1>1, <1>3 DEF AcquireAfterSleep, Full
<1> DEFINE slept == Per - w[1] + late
           aged == Aged(w, slept)
           left == InWindow(aged, late)
<1>7. /\ stamps' = Append(left, late)
      /\ sent' \in {Aged(sent, slept), SentNow(Aged(sent, slept))}
  BY <1>5
<1> HIDE DEF w
<1>8. FromEnd(w, Len(w)) = w[1] /\ w[1] \in Ages /\ w[1] < Per
  <2>1. Len(w) \in 1..Len(stamps) /\ Len(w) \in 1..Len(w)
    BY <1>1, <1>3, <1>6
  <2>2. FromEnd(w, Len(w)) = w[1]
    BY <2>1 DEF FromEnd
  <2>3. FromEnd(w, Len(w)) \in Ages
    BY <1>3, <2>1, FromEndAge
  <2>4. FromEnd(w, Len(w)) - 0 < Per
    BY <1>3, <2>1
  <2> QED BY <2>2, <2>3, <2>4 DEF Ages, OldAge
<1>9. slept \in Nat /\ w[1] + slept = Per + late /\ slept > late
  BY <1>8 DEF Ages, OldAge
<1> HIDE DEF slept
<1>10. /\ aged \in Seq(Ages) /\ Len(aged) = Len(w) /\ InOrder(aged)
       /\ \A k \in 1..Len(w) : 
             /\ FromEnd(w, k) \in Ages
             /\ FromEnd(aged, k) = IF FromEnd(w, k) + slept < OldAge THEN FromEnd(w, k) + slept ELSE OldAge
  BY <1>3, <1>9, AgedLast
<1>11. Aged(sent, slept) \in Seq(Ages) /\ Len(Aged(sent, slept)) <= MaxRequests + 1
  BY <1>1, <1>9, AgedLast
<1>12. Matched(aged, Aged(sent, slept))
  BY <1>1, <1>3, <1>4, <1>9, AgedMatched
<1> HIDE DEF aged
<1>13. /\ left \in Seq(Ages) /\ Len(left) \in 0..Len(aged) /\ InOrder(left)
       /\ \A k \in 1..Len(left) : FromEnd(left, k) = FromEnd(aged, k)
       /\ \A k \in 1..Len(aged) : k <= Len(left) <=> FromEnd(aged, k) - late < Per
  BY <1>10, WindowIsEnd
<1>14. Matched(left, Aged(sent, slept))
  BY <1>10, <1>11, <1>12, WindowMatched
<1> HIDE DEF left
<1>15. Len(left) < MaxRequests
  <2>1. Len(w) \in 1..Len(w)
    BY <1>6
  <2>2. FromEnd(aged, Len(w)) - late >= Per
    BY <1>8, <1>9, <1>10, <2>1 DEF OldAge
  <2>3. ~(Len(w) <= Len(left))
    BY <1>9, <1>10, <1>13, <2>1, <2>2 DEF Ages, OldAge
  <2> QED BY <1>6, <1>10, <1>13, <2>3
<1>16. \A k \in 1..Len(left) : late <= FromEnd(left, k)
  <2> SUFFICES ASSUME NEW k \in 1..Len(left) PROVE late <= FromEnd(left, k)
    OBVIOUS
  <2>1. k \in 1..Len(w) /\ FromEnd(left, k) = FromEnd(aged, k)
    BY <1>3, <1>10, <1>13
  <2>2. FromEnd(w, k) \in Ages /\ FromEnd(aged, k) = IF FromEnd(w, k) + slept < OldAge THEN FromEnd(w, k) + slept ELSE OldAge
    BY <1>10, <2>1
  <2> QED BY <1>9, <2>1, <2>2 DEF Ages, OldAge
<1> QED BY <1>7, <1>11, <1>13, <1>14, <1>15, <1>16, StampKeeps

\* LimiterInv is an invariant of the limiter.
THEOREM LimiterInvariant == LimiterSpec => []LimiterInv
<1>1. LimiterInv /\ [LimiterNext]_limiterVars => LimiterInv'
  <2>1. LimiterInv /\ UNCHANGED limiterVars => LimiterInv'
    BY DEF LimiterInv, limiterVars, InOrder, Matched, FromEnd
  <2> QED BY <2>1, WaitKeeps, AtOnceKeeps, AfterSleepKeeps DEF LimiterNext
<1> QED BY LimiterStarts, <1>1, PTL DEF LimiterSpec

\* When a request goes out, the one MaxRequests before it is Per - Overshoot old at least:
\* a younger one would still have its timestamp, one too many.
THEOREM LimitAlwaysHolds == LimiterSpec => []LimitHolds
<1>1. LimiterInv => LimitHolds
  <2> SUFFICES ASSUME LimiterInv, Len(sent) = MaxRequests + 1 PROVE sent[1] >= Per - Overshoot
    BY DEF LimitHolds
  <2> DEFINE k == MaxRequests + 1
  <2>1. k \in 1..Len(sent) /\ FromEnd(sent, k) = sent[1]
    BY DEF LimiterInv, FromEnd
  <2>2. sent[1] \in Int
    BY <2>1, FromEndAge DEF LimiterInv, Ages, OldAge
  <2>3. ~(FromEnd(sent, k) < Per - Overshoot)
    <3>1. FromEnd(sent, k) < Per - Overshoot => k <= Len(stamps)
      BY <2>1 DEF LimiterInv, Matched
    <3>2. Len(stamps) <= MaxRequests /\ Len(stamps) \in Nat
      BY DEF LimiterInv
    <3> QED BY <3>1, <3>2
  <2> QED BY <2>1, <2>2, <2>3
<1> QED BY LimiterInvariant, <1>1, PTL
=============================================================================

---- MODULE ExtractorPageProofs ----
(***************************************************************************)
(* From cursor to Kafka exactly-once, for every value of the extractor's   *)
(* constants in which every config has a state key of its own and every    *)
(* changelog partition belongs to one token (OwnState, OwnLog): the two    *)
(* conditions that the runs shared_state and shared_changelog drop.        *)
(*                                                                         *)
(* The argument: a token that an instance holds unfenced has a clean       *)
(* transaction whenever no poll of it is in hand (CleanBetween), because   *)
(* the producer is started after the tokens are taken and a poll that ends *)
(* completes, aborts or ends the cycle.  So a restore and a poll start     *)
(* from the committed cursor (LocalCurrent), and what a poll has in its    *)
(* transaction is the page behind that cursor and nothing else             *)
(* (PageInHand).                                                           *)
(***************************************************************************)
EXTENDS ExtractorLeaseProofs, SequenceTheorems

\* Each config has a state key of its own (extract_state_key is not shared).
OwnState == \A c, d \in Config : KeyOf[c] = KeyOf[d] => c = d

\* State keys in one changelog partition have one token.
OwnLog == \A k, m \in StateKey : LogOf[k] = LogOf[m] => TokenOf[k] = TokenOf[m]

-----------------------------------------------------------------------------
(* Pages *)

\* The items behind from, up to item number to.
Items(from, to) == [n \in 1..(to - from) |-> from + n]

\* A page grows by one item at its end.
LEMMA ItemsAppend ==
    ASSUME NEW from \in Nat, NEW to \in Nat, from <= to
    PROVE  Append(Items(from, to), to + 1) = Items(from, to + 1)
<1>1. to - from \in Nat /\ (to + 1) - from = (to - from) + 1
  OBVIOUS
<1>2. /\ Items(from, to) \in Seq(Nat) /\ Len(Items(from, to)) = to - from
      /\ \A n \in 1..(to - from) : Items(from, to)[n] = from + n
  BY <1>1 DEF Items
<1>3. /\ Items(from, to + 1) \in Seq(Nat) /\ Len(Items(from, to + 1)) = (to - from) + 1
      /\ \A n \in 1..((to - from) + 1) : Items(from, to + 1)[n] = from + n
  BY <1>1 DEF Items
<1>4. /\ Append(Items(from, to), to + 1) \in Seq(Nat)
      /\ Len(Append(Items(from, to), to + 1)) = (to - from) + 1
      /\ \A n \in 1..((to - from) + 1) : Append(Items(from, to), to + 1)[n] = from + n
  <2> DEFINE s == Items(from, to)
             k == to - from
  <2>1. s \in Seq(Nat) /\ Len(s) = k /\ k \in Nat /\ to + 1 \in Nat /\ from + (k + 1) = to + 1
    BY <1>1, <1>2
  <2>2. \A n \in 1..k : s[n] = from + n
    BY <1>2
  <2> HIDE DEF s, k
  <2>3. /\ Append(s, to + 1) \in Seq(Nat) /\ Len(Append(s, to + 1)) = k + 1
        /\ \A n \in 1..k : Append(s, to + 1)[n] = s[n]
        /\ Append(s, to + 1)[k + 1] = to + 1
    BY <2>1
  <2>4. \A n \in 1..(k + 1) : n \in 1..k \/ n = k + 1
    BY <2>1
  <2>5. \A n \in 1..(k + 1) : Append(s, to + 1)[n] = from + n
    BY <2>1, <2>2, <2>3, <2>4
  <2> QED BY <2>3, <2>5 DEF s, k
<1> DEFINE grown == Append(Items(from, to), to + 1)
           whole == Items(from, to + 1)
<1>5. /\ grown \in Seq(Nat) /\ whole \in Seq(Nat) /\ Len(grown) = Len(whole)
      /\ \A n \in 1..Len(grown) : grown[n] = whole[n]
  <2> HIDE DEF Items
  <2> QED BY <1>3, <1>4
<1> HIDE DEF grown, whole
<1>6. grown = whole
  BY <1>5, SeqEqual
<1> QED BY <1>6 DEF grown, whole

\* No items at all.
LEMMA ItemsNone ==
    ASSUME NEW from \in Nat
    PROVE  Items(from, from) = <<>>
<1>1. from - from = 0
  OBVIOUS
<1>2. Items(from, from) = [n \in 1..0 |-> from + n]
  BY <1>1 DEF Items
<1>3. Items(from, from) \in Seq(Nat) /\ Len(Items(from, from)) = 0
  BY <1>2
<1> HIDE DEF Items
<1> QED BY <1>3, EmptySeq

\* Pages join without a gap.
LEMMA ItemsJoin ==
    ASSUME NEW from \in Nat, NEW to \in Nat, from <= to
    PROVE  Items(0, from) \o Items(from, to) = Items(0, to)
<1> DEFINE s == Items(0, from)
           u == Items(from, to)
           v == Items(0, to)
           k == to - from
<1>1. k \in Nat /\ from + k = to
  OBVIOUS
<1>2. s \in Seq(Nat) /\ Len(s) = from /\ \A n \in 1..from : s[n] = n
  BY DEF Items
<1>3. u \in Seq(Nat) /\ Len(u) = k /\ \A n \in 1..k : u[n] = from + n
  BY <1>1 DEF Items
<1>4. v \in Seq(Nat) /\ Len(v) = to /\ \A n \in 1..to : v[n] = n
  BY DEF Items
<1> HIDE DEF s, u, v, k
<1>5. /\ s \o u \in Seq(Nat) /\ Len(s \o u) = to
      /\ \A n \in 1..to : (s \o u)[n] = IF n <= from THEN s[n] ELSE u[n - from]
  BY <1>1, <1>2, <1>3
<1>6. \A n \in 1..to : (s \o u)[n] = n
  <2> SUFFICES ASSUME NEW n \in 1..to PROVE (s \o u)[n] = n
    OBVIOUS
  <2>1. CASE n <= from
    BY <2>1, <1>2, <1>5
  <2>2. CASE ~(n <= from)
    <3>1. PICK m \in 1..k : m = n - from /\ from + m = n
      BY <2>2, <1>1
    <3>2. (s \o u)[n] = u[m]
      BY <2>2, <3>1, <1>5
    <3>3. u[m] = n
      BY <3>1, <1>3
    <3> QED BY <3>2, <3>3
  <2> QED BY <2>1, <2>2
<1> QED BY <1>4, <1>5, <1>6, SeqEqual DEF s, u, v

-----------------------------------------------------------------------------
(* What the brokers hold of a config and of a token *)

\* The committed records of c, and the cursor the last of some records holds.
Committed(c) == {r \in log[LogOf[KeyOf[c]]] : r.key = KeyOf[c] /\ ~r.open}
LastCursor(R, c) ==
    IF R = {} THEN 0 ELSE (CHOOSE r \in R : \A s \in R : s.at <= r.at).cursors[c]

\* The transaction of token t has no record in the changelog.
NothingOpen(t) == \A l \in Log : \A r \in log[l] : r.open => TokenOf[r.key] # t

Clean(t) == txn[t] = NoTxn /\ NothingOpen(t)

\* The transaction of c's token holds records of c, all with cursor n.
StateSent(c, n) ==
    /\ \E r \in log[LogOf[KeyOf[c]]] : r.open /\ r.key = KeyOf[c]
    /\ \A l \in Log : \A r \in log[l] :
           r.open /\ TokenOf[r.key] = Token(c) => r.key = KeyOf[c] /\ r.cursors[c] = n

\* An offset is one record's, and an open record is the last of its partition.
LogsInOrder ==
    \A l \in Log : \A r, s \in log[l] :
        /\ r.at = s.at => r = s
        /\ r.open => s.at <= r.at

\* Where a config's state, its token and its changelog partition are.
LEMMA Layout ==
    ASSUME NEW c \in Config
    PROVE  /\ KeyOf[c] \in StateKey /\ LogOf[KeyOf[c]] \in Log
           /\ Token(c) \in Partition /\ Token(c) = TokenOf[KeyOf[c]]
           /\ c \in ConfigsOf(KeyOf[c])
  BY PageLogAssumption DEF Log, Token, ConfigsOf

\* The cursor of c in the state of its key is the one in the last of its records.
LEMMA StateInIs ==
    ASSUME NEW R, NEW c \in Config
    PROVE  StateIn(R, KeyOf[c])[c] = LastCursor({r \in R : r.key = KeyOf[c]}, c)
<1> DEFINE of == {r \in R : r.key = KeyOf[c]}
           last == CHOOSE r \in of : \A s \in of : s.at <= r.at
<1>1. CASE of = {}
  BY <1>1, Layout DEF StateIn, LastCursor
<1>2. CASE of # {}
  <2>1. StateIn(R, KeyOf[c]) = last.cursors
    BY <1>2 DEF StateIn
  <2>2. LastCursor(of, c) = last.cursors[c]
    BY <1>2 DEF LastCursor
  <2> HIDE DEF of, last
  <2> QED BY <2>1, <2>2 DEF of
<1> QED BY <1>1, <1>2

\* The committed cursor is the one in the last committed record ...
LEMMA DurableIs ==
    ASSUME NEW c \in Config
    PROVE  /\ Durable(c) = LastCursor(Committed(c), c)
           /\ Durable(c)' = LastCursor(Committed(c)', c)
<1>1. {r \in Closed(LogOf[KeyOf[c]]) : r.key = KeyOf[c]} = Committed(c)
  BY DEF Closed, Committed
<1>2. {r \in Closed(LogOf[KeyOf[c]])' : r.key = KeyOf[c]} = Committed(c)'
  BY DEF Closed, Committed
<1>3. /\ Durable(c) = StateIn(Closed(LogOf[KeyOf[c]]), KeyOf[c])[c]
      /\ Durable(c)' = StateIn(Closed(LogOf[KeyOf[c]])', KeyOf[c])[c]
  BY DEF Durable
<1> QED BY <1>1, <1>2, <1>3, StateInIs

\* ... and a step that commits no record of c does not move it.
LEMMA DurableKept ==
    ASSUME NEW c \in Config, Committed(c)' = Committed(c)
    PROVE  Durable(c)' = Durable(c)
  BY DurableIs

\* The committed cursor is a cursor.
LEMMA DurableType ==
    ASSUME Types, NEW c \in Config
    PROVE  Durable(c) \in Cursor
<1>1. BrokerTypeOK /\ Bounded
  BY DEF Types, TypeOK
<1>2. Closed(LogOf[KeyOf[c]]) \in SUBSET log[LogOf[KeyOf[c]]]
  BY DEF Closed
<1> QED BY <1>1, <1>2, Layout, StateInType DEF Durable

\* What a step leaves of the brokers' view of the configs and tokens it is not
\* about: those whose token is not t.
Elsewhere(t) ==
    /\ \A u \in Partition : u # t /\ NothingOpen(u) => NothingOpen(u)'
    /\ \A d \in Config, n \in Cursor : Token(d) # t /\ StateSent(d, n) => StateSent(d, n)'

\* The brokers are left alone.
LEMMA SameView ==
    ASSUME UNCHANGED log
    PROVE  /\ \A c \in Config : Durable(c)' = Durable(c)
           /\ \A t \in Partition : NothingOpen(t)' = NothingOpen(t)
           /\ \A c \in Config, n \in Cursor : StateSent(c, n)' = StateSent(c, n)
           /\ LogsInOrder => LogsInOrder'
<1>1. \A c \in Config : Durable(c)' = Durable(c)
  BY DurableKept DEF Committed
<1>2. \A t \in Partition : NothingOpen(t)' = NothingOpen(t)
  BY DEF NothingOpen
<1>3. \A c \in Config, n \in Cursor : StateSent(c, n)' = StateSent(c, n)
  BY DEF StateSent
<1>4. LogsInOrder => LogsInOrder'
  BY DEF LogsInOrder
<1> QED BY <1>1, <1>2, <1>3, <1>4

\* A transaction is aborted: its records are gone and nothing else is.
LEMMA DropView ==
    ASSUME Types, LogsInOrder, NEW t \in Partition, Drop(t)
    PROVE  /\ \A c \in Config : Durable(c)' = Durable(c)
           /\ NothingOpen(t)'
           /\ Elsewhere(t)
           /\ LogsInOrder'
<1>1. \A l \in Log : log'[l] = {r \in log[l] : ~(r.open /\ TokenOf[r.key] = t)}
  BY DEF Drop
<1>2. ASSUME NEW c \in Config PROVE Committed(c)' = Committed(c)
  BY <1>1, Layout DEF Committed
<1>3. NothingOpen(t)'
  BY <1>1 DEF NothingOpen
<1>4. Elsewhere(t)
  <2>1. \A u \in Partition : u # t /\ NothingOpen(u) => NothingOpen(u)'
    BY <1>1 DEF NothingOpen
  <2>2. ASSUME NEW d \in Config, NEW n \in Cursor, Token(d) # t, StateSent(d, n)
        PROVE  StateSent(d, n)'
    <3>1. PICK r \in log[LogOf[KeyOf[d]]] : r.open /\ r.key = KeyOf[d]
      BY <2>2 DEF StateSent
    <3>2. r \in log'[LogOf[KeyOf[d]]]
      BY <1>1, <2>2, <3>1, Layout
    <3> QED BY <1>1, <2>2, <3>1, <3>2 DEF StateSent
  <2> QED BY <2>1, <2>2 DEF Elsewhere
<1>5. LogsInOrder'
  BY <1>1 DEF LogsInOrder
<1> QED BY <1>2, <1>3, <1>4, <1>5, DurableKept

\* The state of a page is sent: its record is the open one of its token, at the
\* end of a partition that has no other open record.
LEMMA SendView ==
    ASSUME Types, LogsInOrder, OwnState, OwnLog,
           NEW i \in Instance, NEW c \in Config, NothingOpen(Token(c)),
           NEW n \in Cursor, n = cursor[i][c],
           SendState(i, KeyOf[c], NewState(i, c))
    PROVE  /\ \A d \in Config : Durable(d)' = Durable(d)
           /\ StateSent(c, n)'
           /\ Elsewhere(Token(c))
           /\ LogsInOrder'
<1> DEFINE l == LogOf[KeyOf[c]]
           new == [at |-> EndOffset(l), key |-> KeyOf[c], cursors |-> NewState(i, c), open |-> TRUE]
<1>a. BrokerTypeOK /\ Bounded
  BY DEF Types, TypeOK
<1>1. /\ log'[l] = log[l] \cup {new}
      /\ \A m \in Log : m # l => log'[m] = log[m]
  BY <1>a, Layout DEF SendState, BrokerTypeOK
<1>2. /\ new.at = EndOffset(l) /\ new.key = KeyOf[c] /\ new.open
      /\ new.cursors[c] = n
  BY Layout DEF NewState
<1> HIDE DEF new
<1>3. EndOffset(l) \in Nat /\ \A s \in log[l] : s.at < EndOffset(l) /\ s.at \in Nat
  BY <1>a, Layout, EndOffsetBehind, RecordFields
<1>4. \A s \in log[l] : ~s.open
  <2> SUFFICES ASSUME NEW s \in log[l], s.open PROVE FALSE
    OBVIOUS
  <2>1. s.key \in StateKey /\ LogOf[s.key] = l
    BY <1>a, Layout, RecordFields
  <2>2. TokenOf[s.key] = Token(c)
    BY <2>1, Layout DEF OwnLog
  <2> QED BY <2>2, Layout DEF NothingOpen
<1>5. ASSUME NEW d \in Config PROVE Committed(d)' = Committed(d)
  BY <1>1, <1>2, Layout DEF Committed
<1>6. StateSent(c, n)'
  <2>1. \A m \in Log : \A r \in log'[m] : r.open /\ TokenOf[r.key] = Token(c) => r = new
    BY <1>1 DEF NothingOpen
  <2>2. new \in log'[l]
    BY <1>1
  <2> QED BY <2>1, <2>2, <1>2 DEF StateSent
<1>7. Elsewhere(Token(c))
  <2>1. \A u \in Partition : u # Token(c) /\ NothingOpen(u) => NothingOpen(u)'
    BY <1>1, <1>2, Layout DEF NothingOpen
  <2>2. ASSUME NEW d \in Config, NEW k \in Cursor, Token(d) # Token(c), StateSent(d, k)
        PROVE  StateSent(d, k)'
    <3>1. \A m \in Log : log[m] \subseteq log'[m]
      BY <1>1
    <3>2. \A m \in Log : \A r \in log'[m] : r \in log[m] \/ TokenOf[r.key] = Token(c)
      BY <1>1, <1>2, Layout
    <3> QED BY <2>2, <3>1, <3>2, Layout DEF StateSent
  <2> QED BY <2>1, <2>2 DEF Elsewhere
<1>8. LogsInOrder'
  <2> SUFFICES ASSUME NEW m \in Log, NEW r \in log'[m], NEW s \in log'[m]
               PROVE  /\ r.at = s.at => r = s
                      /\ r.open => s.at <= r.at
    BY DEF LogsInOrder
  <2>1. CASE m # l
    BY <2>1, <1>1 DEF LogsInOrder
  <2>2. CASE m = l
    <3>1. (r \in log[l] \/ r = new) /\ (s \in log[l] \/ s = new)
      BY <1>1, <2>2
    <3> QED BY <3>1, <1>2, <1>3, <1>4, Layout DEF LogsInOrder
  <2> QED BY <2>1, <2>2
<1> QED BY <1>5, <1>6, <1>7, <1>8, DurableKept

\* A page commits: its cursor is the committed one, and no other moves.
LEMMA SettleView ==
    ASSUME Types, LogsInOrder, OwnState, NEW c \in Config, NEW n \in Cursor,
           StateSent(c, n), Settle(Token(c))
    PROVE  /\ Durable(c)' = n
           /\ \A d \in Config \ {c} : Durable(d)' = Durable(d)
           /\ NothingOpen(Token(c))'
           /\ Elsewhere(Token(c))
           /\ LogsInOrder'
<1> DEFINE t == Token(c)
           l == LogOf[KeyOf[c]]
<1>a. BrokerTypeOK /\ Bounded
  BY DEF Types, TypeOK
<1>1. \A m \in Log : log'[m] = {Settled(r, t) : r \in log[m]}
  BY DEF Settle
<1>2. ASSUME NEW m \in Log, NEW r \in log[m]
      PROVE  /\ Settled(r, t) \in log'[m]
             /\ Settled(r, t).at = r.at /\ Settled(r, t).key = r.key
             /\ Settled(r, t).cursors = r.cursors
             /\ Settled(r, t).open = (r.open /\ TokenOf[r.key] # t)
             /\ TokenOf[r.key] # t => Settled(r, t) = r
  <2>1. TokenOf[r.key] # t => Settled(r, t) = r
    BY DEF Settled
  <2> QED BY <2>1, <1>1, <1>a, SettledFields
<1>3. ASSUME NEW m \in Log, NEW s \in log'[m]
      PROVE  \E r \in log[m] : s = Settled(r, t)
  BY <1>1
<1> HIDE DEF t, l
<1>c. l \in Log /\ l = LogOf[KeyOf[c]] /\ t = TokenOf[KeyOf[c]] /\ t = Token(c)
  BY Layout DEF l, t
<1>4. PICK r0 \in log[l] : r0.open /\ r0.key = KeyOf[c] /\ r0.cursors[c] = n
  BY <1>c DEF StateSent
<1>5. \A r \in log[l] : r.at <= r0.at /\ (r.at = r0.at => r = r0) /\ r.at \in Nat
  BY <1>4, <1>c, <1>a, RecordFields DEF LogsInOrder
<1>6. Durable(c)' = n
  <2> DEFINE s0 == Settled(r0, t)
             R == {r \in log'[l] : r.key = KeyOf[c] /\ ~r.open}
             last == CHOOSE r \in R : \A s \in R : s.at <= r.at
  <2>1. s0 \in R /\ s0.at = r0.at /\ s0.cursors[c] = n
    BY <1>2, <1>4, <1>c
  <2>2. \A s \in R : s.at \in Nat /\ s.at <= s0.at /\ (s.at = s0.at => s = s0)
    <3> SUFFICES ASSUME NEW s \in R
                 PROVE  s.at \in Nat /\ s.at <= s0.at /\ (s.at = s0.at => s = s0)
      OBVIOUS
    <3>1. PICK r \in log[l] : s = Settled(r, t)
      BY <1>3, <1>c
    <3>2. s.at = r.at
      BY <3>1, <1>2, <1>c
    <3> QED BY <3>1, <3>2, <2>1, <1>5
  <2> HIDE DEF R, s0
  <2>3. last \in R /\ \A s \in R : s.at <= last.at
    BY <2>1, <2>2
  <2>4. last = s0
    <3> HIDE DEF last
    <3> QED BY <2>1, <2>2, <2>3
  <2>5. R = Committed(c)'
    BY <1>c DEF R, Committed
  <2>6. LastCursor(R, c) = n
    BY <2>1, <2>4 DEF LastCursor
  <2> QED BY <2>5, <2>6, DurableIs
<1>7. ASSUME NEW d \in Config \ {c} PROVE Durable(d)' = Durable(d)
  <2>1. KeyOf[d] # KeyOf[c] /\ LogOf[KeyOf[d]] \in Log
    BY Layout DEF OwnState
  <2>2. \A r \in log[LogOf[KeyOf[d]]] :
            r.key = KeyOf[d] => Settled(r, t) = r \/ ~r.open
    BY <2>1, <1>2, <1>c DEF StateSent
  <2>3. \A r \in log[LogOf[KeyOf[d]]] : r.key = KeyOf[d] /\ ~r.open => Settled(r, t) = r
    <3> SUFFICES ASSUME NEW r \in log[LogOf[KeyOf[d]]], ~r.open PROVE Settled(r, t) = r
      OBVIOUS
    <3>1. r \in LogRecord(r.key) /\ r.open = FALSE
      BY <2>1, <1>a, RecordFields
    <3>2. [r EXCEPT !.open = FALSE] = r
      BY <3>1 DEF LogRecord
    <3> QED BY <3>2 DEF Settled
  <2>4. Committed(d)' \subseteq Committed(d)
    <3> SUFFICES ASSUME NEW s \in log'[LogOf[KeyOf[d]]], s.key = KeyOf[d], ~s.open
                 PROVE  s \in log[LogOf[KeyOf[d]]]
      BY DEF Committed
    <3>1. PICK r \in log[LogOf[KeyOf[d]]] : s = Settled(r, t)
      BY <1>3, <2>1
    <3>2. r.key = KeyOf[d]
      BY <3>1, <1>2, <2>1
    <3> QED BY <3>1, <3>2, <2>2, <2>3
  <2>5. Committed(d) \subseteq Committed(d)'
    <3> SUFFICES ASSUME NEW r \in log[LogOf[KeyOf[d]]], r.key = KeyOf[d], ~r.open
                 PROVE  r \in log'[LogOf[KeyOf[d]]]
      BY DEF Committed
    <3> QED BY <2>1, <2>3, <1>2
  <2> QED BY <2>4, <2>5, DurableKept
<1>8. NothingOpen(t)'
  <2> SUFFICES ASSUME NEW m \in Log, NEW s \in log'[m], s.open PROVE TokenOf[s.key] # t
    BY DEF NothingOpen
  <2>1. PICK r \in log[m] : s = Settled(r, t)
    BY <1>3
  <2> QED BY <2>1, <1>2
<1>9. Elsewhere(t)
  <2>1. ASSUME NEW u \in Partition, u # t, NothingOpen(u) PROVE NothingOpen(u)'
    <3> SUFFICES ASSUME NEW m \in Log, NEW s \in log'[m], s.open PROVE TokenOf[s.key] # u
      BY DEF NothingOpen
    <3>1. PICK r \in log[m] : s = Settled(r, t)
      BY <1>3
    <3> QED BY <3>1, <1>2, <2>1 DEF NothingOpen
  <2>2. ASSUME NEW d \in Config, NEW k \in Cursor, Token(d) # t, StateSent(d, k)
        PROVE  StateSent(d, k)'
    <3>1. PICK r \in log[LogOf[KeyOf[d]]] : r.open /\ r.key = KeyOf[d]
      BY <2>2 DEF StateSent
    <3>2. r \in log'[LogOf[KeyOf[d]]]
      BY <1>2, <2>2, <3>1, Layout
    <3>3. \A m \in Log : \A s \in log'[m] :
              s.open /\ TokenOf[s.key] = Token(d) => s \in log[m]
      <4> SUFFICES ASSUME NEW m \in Log, NEW s \in log'[m], TokenOf[s.key] = Token(d)
                   PROVE  s \in log[m]
        OBVIOUS
      <4>1. PICK v \in log[m] : s = Settled(v, t)
        BY <1>3
      <4> QED BY <4>1, <1>2, <2>2
    <3> QED BY <2>2, <3>1, <3>2, <3>3 DEF StateSent
  <2> QED BY <2>1, <2>2 DEF Elsewhere
<1>10. LogsInOrder'
  <2> SUFFICES ASSUME NEW m \in Log, NEW r \in log'[m], NEW s \in log'[m]
               PROVE  /\ r.at = s.at => r = s
                      /\ r.open => s.at <= r.at
    BY DEF LogsInOrder
  <2>1. PICK v \in log[m] : r = Settled(v, t)
    BY <1>3
  <2>2. PICK w \in log[m] : s = Settled(w, t)
    BY <1>3
  <2> QED BY <2>1, <2>2, <1>2 DEF LogsInOrder
<1> QED BY <1>6, <1>7, <1>8, <1>9, <1>10, <1>c

-----------------------------------------------------------------------------
(* Pages at the brokers *)

\* The transaction of c's token holds the items of c from the committed cursor up
\* to item number to, and nothing of another config.
Behind(c, from, to) ==
    /\ Durable(c) = from /\ from <= to
    /\ txn[Token(c)].sent = [d \in Config |-> IF d = c THEN Items(from, to) ELSE <<>>]

\* A page being filled, and one that waits for its commit.
PageOpen(c, from, to) ==
    /\ Behind(c, from, to)
    /\ NothingOpen(Token(c))
    /\ from = to => txn[Token(c)] = NoTxn
PageSent(c, from, to) ==
    /\ Behind(c, from, to) /\ from < to
    /\ StateSent(c, to)

\* A step leaves token u alone: its holder, a clean transaction, the page in it.
Kept(u) ==
    /\ holder'[u] = holder[u]
    /\ Clean(u) => Clean(u)'
    /\ \A c \in Config : Token(c) = u =>
           /\ Durable(c)' = Durable(c)
           /\ \A from, to \in Cursor : /\ PageOpen(c, from, to) => PageOpen(c, from, to)'
                                       /\ PageSent(c, from, to) => PageSent(c, from, to)'

\* A step at token t: the others are left alone.
Aside(t) == \A u \in Partition \ {t} : Kept(u)

\* The parts of the types the steps below use.
LEMMA TypeFacts ==
    ASSUME Types
    PROVE  /\ holder \in [Partition -> Instance \cup {None}]
           /\ txn \in [Partition -> [open : BOOLEAN, sent : [Config -> Seq(1..NumItems)]]]
           /\ output \in [Config -> Seq(1..NumItems)]
           /\ RunnerTypeOK /\ PollTypeOK
           /\ \A c \in Config : Token(c) \in Partition
           /\ \A i \in Instance : i # None
  BY RunnersAssumption, Layout DEF Types, TypeOK, BrokerTypeOK

\* What is true of a token's page stays true while nothing of that token changes.
LEMMA AsideFrom ==
    ASSUME NEW t \in Partition, Elsewhere(t),
           \A u \in Partition \ {t} : holder'[u] = holder[u] /\ txn'[u] = txn[u],
           \A c \in Config : Token(c) # t => Durable(c)' = Durable(c)
    PROVE  Aside(t)
<1>1. ASSUME NEW u \in Partition \ {t}, Clean(u) PROVE Clean(u)'
  BY <1>1 DEF Clean, Elsewhere
<1>2. ASSUME NEW c \in Config, Token(c) # t, NEW from \in Cursor, NEW to \in Cursor
      PROVE  /\ PageOpen(c, from, to) => PageOpen(c, from, to)'
             /\ PageSent(c, from, to) => PageSent(c, from, to)'
  <2>1. Token(c) \in Partition \ {t}
    BY <1>2, Layout
  <2>2. Behind(c, from, to) => Behind(c, from, to)'
    BY <1>2, <2>1 DEF Behind
  <2>3. /\ NothingOpen(Token(c)) => NothingOpen(Token(c))'
        /\ StateSent(c, to) => StateSent(c, to)'
    BY <1>2, <2>1 DEF Elsewhere
  <2> QED BY <2>1, <2>2, <2>3 DEF PageOpen, PageSent
<1> QED BY <1>1, <1>2 DEF Aside, Kept

\* The brokers are left alone.
LEMMA BrokersRest ==
    ASSUME UNCHANGED brokerVars
    PROVE  /\ \A u \in Partition : Kept(u)
           /\ \A c \in Config : Durable(c)' = Durable(c)
           /\ LogsInOrder => LogsInOrder'
           /\ UNCHANGED <<holder, output>>
<1>1. UNCHANGED <<holder, txn, log, output>>
  BY DEF brokerVars
<1>2. \A t \in Partition : Clean(t) => Clean(t)'
  BY <1>1, SameView DEF Clean
<1>3. \A c \in Config : Durable(c)' = Durable(c)
  BY <1>1, SameView
<1>4. ASSUME NEW c \in Config, NEW from \in Cursor, NEW to \in Cursor
      PROVE  /\ PageOpen(c, from, to) => PageOpen(c, from, to)'
             /\ PageSent(c, from, to) => PageSent(c, from, to)'
  <2>1. Behind(c, from, to) => Behind(c, from, to)'
    BY <1>1, <1>3 DEF Behind
  <2>2. NothingOpen(Token(c))' = NothingOpen(Token(c)) /\ StateSent(c, to)' = StateSent(c, to)
    BY <1>1, SameView, Layout
  <2> QED BY <1>1, <2>1, <2>2 DEF PageOpen, PageSent
<1> QED BY <1>1, <1>2, <1>3, <1>4, SameView DEF Kept

\* A transaction that is dropped leaves its token clean and every cursor in place.
LEMMA DropRest ==
    ASSUME Types, LogsInOrder, NEW t \in Partition, Drop(t),
           txn' = [txn EXCEPT ![t] = NoTxn],
           \A u \in Partition \ {t} : holder'[u] = holder[u]
    PROVE  /\ Clean(t)' /\ Aside(t)
           /\ \A c \in Config : Durable(c)' = Durable(c)
           /\ LogsInOrder'
<1>1. \A u \in Partition \ {t} : txn'[u] = txn[u]
  BY TypeFacts
<1>2. txn'[t] = NoTxn
  BY TypeFacts
<1> QED BY <1>1, <1>2, DropView, AsideFrom DEF Clean

\* producer.start(): the instance holds a clean token.
LEMMA InitProducerIdRest ==
    ASSUME Types, LogsInOrder, NEW i \in Instance, NEW t \in Partition, InitProducerId(i, t)
    PROVE  /\ holder'[t] = i /\ Clean(t)' /\ Aside(t) /\ LogsInOrder'
           /\ \A c \in Config : Durable(c)' = Durable(c)
<1>1. holder'[t] = i /\ \A u \in Partition \ {t} : holder'[u] = holder[u]
  BY TypeFacts DEF InitProducerId
<1> QED BY <1>1, DropRest DEF InitProducerId

\* An abort: unless it is fenced, the token is clean again.
LEMMA AbortTxnRest ==
    ASSUME Types, LogsInOrder, NEW i \in Instance, NEW t \in Partition, AbortTxn(i, t)
    PROVE  /\ holder' = holder /\ Aside(t) /\ LogsInOrder'
           /\ holder[t] = i => Clean(t)'
           /\ holder[t] # i => UNCHANGED brokerVars
           /\ \A c \in Config : Durable(c)' = Durable(c)
<1>1. CASE holder[t] = i
  BY <1>1, DropRest DEF AbortTxn
<1>2. CASE holder[t] # i
  BY <1>2, BrokersRest DEF AbortTxn, Aside
<1> QED BY <1>1, <1>2

\* A timeout leaves the token without a holder.
LEMMA TxnTimeoutRest ==
    ASSUME Types, LogsInOrder, NEW t \in Partition, TxnTimeout(t)
    PROVE  /\ holder'[t] = None /\ Aside(t) /\ LogsInOrder'
           /\ \A c \in Config : Durable(c)' = Durable(c)
<1>1. holder'[t] = None /\ \A u \in Partition \ {t} : holder'[u] = holder[u]
  BY TypeFacts DEF TxnTimeout
<1> QED BY <1>1, DropRest DEF TxnTimeout

\* A message is sent: the page is one item longer.
LEMMA SendItemRest ==
    ASSUME Types, LogsInOrder, NEW i \in Instance, NEW c \in Config,
           NEW to \in Cursor, to + 1 \in Cursor,
           SendItem(i, c, to + 1)
    PROVE  /\ holder' = holder /\ holder[Token(c)] = i /\ Aside(Token(c)) /\ LogsInOrder'
           /\ \A d \in Config : Durable(d)' = Durable(d)
           /\ \A from \in Cursor : PageOpen(c, from, to) => PageOpen(c, from, to + 1)'
<1>a. holder' = holder /\ holder[Token(c)] = i /\ UNCHANGED log
  BY DEF SendItem
<1>b. /\ \A u \in Partition \ {Token(c)} : txn'[u] = txn[u]
      /\ txn'[Token(c)].sent = [txn[Token(c)].sent EXCEPT ![c] = Append(@, to + 1)]
  BY TypeFacts DEF SendItem
<1>c. \A d \in Config : Durable(d)' = Durable(d)
  BY <1>a, SameView
<1>1. Aside(Token(c))
  <2>1. Elsewhere(Token(c))
    BY <1>a, SameView DEF Elsewhere
  <2> QED BY <2>1, <1>a, <1>b, <1>c, AsideFrom, Layout
<1>2. ASSUME NEW from \in Cursor, PageOpen(c, from, to) PROVE PageOpen(c, from, to + 1)'
  <2>1. from \in Nat /\ to \in Nat /\ from <= to /\ from # to + 1 /\ from <= to + 1
    BY <1>2, PageLogAssumption DEF Cursor, PageOpen, Behind
  <2>2. Append(Items(from, to), to + 1) = Items(from, to + 1)
    BY <2>1, ItemsAppend
  <2>3. txn'[Token(c)].sent = [d \in Config |-> IF d = c THEN Items(from, to + 1) ELSE <<>>]
    BY <1>2, <1>b, <2>2 DEF PageOpen, Behind
  <2>4. Behind(c, from, to + 1)'
    BY <1>2, <1>c, <2>1, <2>3 DEF PageOpen, Behind
  <2>5. NothingOpen(Token(c))'
    BY <1>2, <1>a, SameView, Layout DEF PageOpen
  <2> QED BY <2>1, <2>4, <2>5 DEF PageOpen
<1> QED BY <1>a, <1>c, <1>1, <1>2, SameView

\* The page's state is sent.
LEMMA SendStateRest ==
    ASSUME Types, LogsInOrder, OwnState, OwnLog, NEW i \in Instance, NEW c \in Config,
           NEW from \in Cursor, NEW to \in Cursor, to = cursor[i][c], from < to,
           PageOpen(c, from, to), SendState(i, KeyOf[c], NewState(i, c))
    PROVE  /\ holder' = holder /\ Aside(Token(c))
           /\ \A d \in Config : Durable(d)' = Durable(d)
           /\ PageSent(c, from, to)'
           /\ LogsInOrder'
<1>1. holder' = holder /\ txn' = txn
  BY DEF SendState
<1>2. NothingOpen(Token(c))
  BY DEF PageOpen
<1>3. /\ \A d \in Config : Durable(d)' = Durable(d)
      /\ StateSent(c, to)' /\ Elsewhere(Token(c)) /\ LogsInOrder'
  BY <1>2, SendView
<1>4. Behind(c, from, to)'
  BY <1>1, <1>3 DEF PageOpen, Behind
<1> QED BY <1>1, <1>3, <1>4, AsideFrom, Layout DEF PageSent

\* The page commits: its items are downstream, and the token is clean.
LEMMA CommitTxnRest ==
    ASSUME Types, LogsInOrder, OwnState, NEW i \in Instance, NEW c \in Config,
           NEW from \in Cursor, NEW to \in Cursor,
           PageSent(c, from, to), CommitTxn(i, Token(c))
    PROVE  /\ holder' = holder /\ holder[Token(c)] = i /\ Aside(Token(c)) /\ Clean(Token(c))'
           /\ Durable(c)' = to
           /\ \A d \in Config \ {c} : Durable(d)' = Durable(d)
           /\ output' = [output EXCEPT ![c] = @ \o Items(from, to)]
           /\ PageOpen(c, to, to)'
           /\ LogsInOrder'
<1>1. holder' = holder /\ holder[Token(c)] = i /\ Settle(Token(c))
  BY DEF CommitTxn
<1>2. txn'[Token(c)] = NoTxn /\ \A u \in Partition \ {Token(c)} : txn'[u] = txn[u]
  BY TypeFacts DEF CommitTxn
<1>3. /\ Durable(c)' = to
      /\ \A d \in Config \ {c} : Durable(d)' = Durable(d)
      /\ NothingOpen(Token(c))' /\ Elsewhere(Token(c)) /\ LogsInOrder'
  BY <1>1, SettleView DEF PageSent
<1>4. output' = [output EXCEPT ![c] = @ \o Items(from, to)]
  <2>1. \A d \in Config : txn[Token(c)].sent[d] = IF d = c THEN Items(from, to) ELSE <<>>
    BY DEF PageSent, Behind
  <2>2. \A d \in Config : output[d] \o <<>> = output[d]
    BY TypeFacts, ConcatEmptySeq
  <2>3. output' = [d \in Config |-> output[d] \o txn[Token(c)].sent[d]]
    BY DEF CommitTxn
  <2>4. \A d \in Config : output'[d] = IF d = c THEN output[c] \o Items(from, to) ELSE output[d]
    BY <2>1, <2>2, <2>3
  <2> QED BY <2>3, <2>4, TypeFacts
<1>5. PageOpen(c, to, to)'
  <2>1. to \in Nat /\ Items(to, to) = <<>>
    BY ItemsNone, PageLogAssumption DEF Cursor
  <2>2. txn'[Token(c)].sent = [d \in Config |-> IF d = c THEN Items(to, to) ELSE <<>>]
    BY <1>2, <2>1 DEF NoTxn
  <2> QED BY <1>2, <1>3, <2>1, <2>2 DEF PageOpen, Behind
<1>6. \A d \in Config : Token(d) # Token(c) => d \in Config \ {c}
  OBVIOUS
<1> QED BY <1>1, <1>2, <1>3, <1>4, <1>5, <1>6, AsideFrom, Layout DEF Clean

-----------------------------------------------------------------------------
(* Pages in the hands of an instance *)

\* No poll of i has a page of token t in hand, and i may start one.
InHand(i, t) == \E c \in Config : Token(c) = t /\ Active(i, c)
Between(i, t) ==
    /\ holder[t] = i /\ ~Unwinding(i)
    /\ t \in tokens[i] \ starting[i]
    /\ ~InHand(i, t)

CleanBetween(i) == \A t \in Partition : Between(i, t) => Clean(t)

\* The page a poll has in hand is what its token's transaction holds; the local
\* store has the cursor the page starts from, and the page's own from its end on.
PageMatches(i, c) ==
    \A from, to \in Cursor :
        from = base[i][c] /\ to = cursor[i][c] =>
            /\ poll[i][c] = "paging" =>
                   PageOpen(c, from, to) /\ (~Unwinding(i) => local[i][c] = from)
            /\ poll[i][c] = "closing" =>
                   PageSent(c, from, to) /\ (~Unwinding(i) => local[i][c] = to)

PageInHand(i) ==
    \A c \in Config : holder[Token(c)] = i /\ Active(i, c) => PageMatches(i, c)

\* The polls that are about to start, in this cycle or the next, read the
\* committed cursor.
MayPoll(i, c) ==
    /\ holder[Token(c)] = i /\ ~Unwinding(i)
    /\ Token(c) \in tokens[i]
    /\ cycle[i] \in {"idle", "polling"}
    /\ poll[i][c] = "queued" \/ (poll[i][c] = "none" /\ ~failed[i])

LocalCurrent(i) == \A c \in Config : MayPoll(i, c) => local[i][c] = Durable(c)

\* A restore fills an empty store.
WipedBeforeRestore(i) == pc[i] = "fencing" => \A c \in Config : local[i][c] = 0

PagesOf(i) ==
    /\ CleanBetween(i)
    /\ PageInHand(i)
    /\ LocalCurrent(i)
    /\ WipedBeforeRestore(i)

PageInv ==
    /\ LogsInOrder
    /\ \A i \in Instance : PagesOf(i)
    /\ ExactlyOnce

\* A step that keeps i's own state and the tokens i holds keeps what is true of it.
SameAt(i) ==
    /\ pc'[i] = pc[i] /\ tokens'[i] = tokens[i] /\ starting'[i] = starting[i]
    /\ cycle'[i] = cycle[i] /\ failed'[i] = failed[i] /\ poll'[i] = poll[i]
    /\ local'[i] = local[i] /\ base'[i] = base[i] /\ cursor'[i] = cursor[i]

LEMMA BystanderStep ==
    ASSUME NEW i \in Instance, PagesOf(i), SameAt(i),
           \A u \in Partition : holder'[u] = i => Kept(u)
    PROVE  PagesOf(i)'
<1> USE DEF SameAt
<1>1. CleanBetween(i)'
  <2> SUFFICES ASSUME NEW t \in Partition, Between(i, t)' PROVE Clean(t)'
    BY DEF CleanBetween
  <2>1. Kept(t)
    BY DEF Between
  <2>2. Between(i, t)
    BY <2>1 DEF Between, InHand, Active, Unwinding, Kept
  <2> QED BY <2>1, <2>2 DEF PagesOf, CleanBetween, Kept
<1>2. PageInHand(i)'
  <2> SUFFICES ASSUME NEW c \in Config, (holder[Token(c)])' = i, Active(i, c)'
               PROVE  PageMatches(i, c)'
    BY DEF PageInHand
  <2>1. Token(c) \in Partition /\ Kept(Token(c))
    BY Layout DEF Token
  <2>2. holder[Token(c)] = i /\ Active(i, c)
    BY <2>1 DEF Kept, Active, Token
  <2>3. PageMatches(i, c)
    BY <2>2 DEF PagesOf, PageInHand
  <2>4. ASSUME NEW from \in Cursor, NEW to \in Cursor
        PROVE  /\ PageOpen(c, from, to) => PageOpen(c, from, to)'
               /\ PageSent(c, from, to) => PageSent(c, from, to)'
    BY <2>1 DEF Kept
  <2> HIDE DEF SameAt
  <2>5. /\ base'[i][c] = base[i][c] /\ cursor'[i][c] = cursor[i][c]
        /\ poll'[i][c] = poll[i][c] /\ local'[i][c] = local[i][c]
        /\ Unwinding(i)' = Unwinding(i)
    BY DEF SameAt, Unwinding
  <2> QED BY <2>3, <2>4, <2>5 DEF PageMatches
<1>3. LocalCurrent(i)'
  <2> SUFFICES ASSUME NEW c \in Config, MayPoll(i, c)' PROVE (local[i][c])' = Durable(c)'
    BY DEF LocalCurrent
  <2>1. Token(c) \in Partition /\ Kept(Token(c))
    BY Layout DEF MayPoll, Token
  <2>2. MayPoll(i, c)
    BY <2>1 DEF MayPoll, Kept, Unwinding, Token
  <2> QED BY <2>1, <2>2 DEF PagesOf, LocalCurrent, Kept
<1>4. WipedBeforeRestore(i)'
  BY DEF PagesOf, WipedBeforeRestore
<1> QED BY <1>1, <1>2, <1>3, <1>4 DEF PagesOf

\* A clean token is an empty page behind the committed cursor.
LEMMA CleanOpens ==
    ASSUME NEW c \in Config, Clean(Token(c)), NEW n \in Cursor, Durable(c) = n
    PROVE  PageOpen(c, n, n)
<1>1. n \in Nat /\ Items(n, n) = <<>>
  BY ItemsNone, PageLogAssumption DEF Cursor
<1>2. txn[Token(c)].sent = [d \in Config |-> IF d = c THEN Items(n, n) ELSE <<>>]
  BY <1>1 DEF Clean, NoTxn
<1> QED BY <1>1, <1>2 DEF PageOpen, Behind, Clean

\* The page in hand of an unfenced poll.
LEMMA PageOfPoll ==
    ASSUME Types, NEW i \in Instance, PageInHand(i), NEW c \in Config, holder[Token(c)] = i
    PROVE  /\ base[i][c] \in Cursor /\ cursor[i][c] \in Cursor
           /\ poll[i][c] = "paging" =>
                  /\ PageOpen(c, base[i][c], cursor[i][c])
                  /\ ~Unwinding(i) => local[i][c] = base[i][c]
           /\ poll[i][c] = "closing" =>
                  /\ PageSent(c, base[i][c], cursor[i][c])
                  /\ ~Unwinding(i) => local[i][c] = cursor[i][c]
<1>1. base[i][c] \in Cursor /\ cursor[i][c] \in Cursor
  BY TypeFacts DEF PollTypeOK
<1> QED BY <1>1 DEF PageInHand, PageMatches, Active

-----------------------------------------------------------------------------
(* What a step of one instance leaves of the others' tokens *)

\* A poll of c changes the transaction of its own token only, and that one only as
\* the token's holder.
LEMMA PollRest ==
    ASSUME Types, LogsInOrder, OwnState, OwnLog, NEW i \in Instance, PagesOf(i),
           NEW c \in Config, PollStep(i, c)
    PROVE  /\ holder' = holder /\ LogsInOrder' /\ Aside(Token(c))
           /\ holder[Token(c)] # i => \A u \in Partition : Kept(u)
           /\ \A d \in Config \ {c} : Durable(d)' = Durable(d)
<1> DEFINE t == Token(c)
           from == base[i][c]
           to == cursor[i][c]
           Rest == /\ holder' = holder /\ LogsInOrder' /\ Aside(t)
                   /\ holder[t] # i => \A u \in Partition : Kept(u)
                   /\ \A d \in Config \ {c} : Durable(d)' = Durable(d)
<1>a. t \in Partition /\ from \in Cursor /\ to \in Cursor /\ Cursor \subseteq Int
  BY TypeFacts, PageLogAssumption DEF PollTypeOK, Cursor
<1>b. PageInHand(i)
  BY DEF PagesOf
<1>1. ASSUME UNCHANGED brokerVars PROVE Rest
  BY <1>1, BrokersRest DEF Aside
<1>2. ASSUME AbortTxn(i, t) PROVE Rest
  BY <1>2, <1>a, AbortTxnRest, BrokersRest
<1>3. ASSUME poll[i][c] = "closing", CommitTxn(i, t) PROVE Rest
  <2>1. holder[t] = i
    BY <1>3 DEF CommitTxn
  <2>2. PageSent(c, from, to)
    BY <1>3, <1>b, <2>1, PageOfPoll
  <2> QED BY <1>3, <1>a, <2>1, <2>2, CommitTxnRest
<1>4. CASE YieldMessage(i, c)
  <2>1. to + 1 \in Cursor /\ SendItem(i, c, to + 1)
    BY <1>4, <1>a, PageLogAssumption DEF YieldMessage, Cursor
  <2> QED BY <1>a, <2>1, SendItemRest
<1>5. CASE YieldState(i, c)
  <2>1. /\ poll[i][c] = "paging" /\ SendState(i, KeyOf[c], NewState(i, c))
        /\ holder[t] = i /\ from < to
    BY <1>5, <1>a, Layout DEF YieldState, SendState
  <2>2. PageOpen(c, from, to)
    BY <1>b, <2>1, PageOfPoll
  <2> QED BY <1>a, <2>1, <2>2, SendStateRest
<1>6. CASE CommitPage(i, c)
  BY <1>6, <1>3 DEF CommitPage
<1>7. CASE PollFails(i, c)
  BY <1>7, <1>2 DEF PollFails
<1>8. CASE CancelPoll(i, c)
  BY <1>8, <1>1, <1>2 DEF CancelPoll
<1>9. CASE CancelCommit(i, c)
  BY <1>9, <1>1, <1>3 DEF CancelCommit
<1>10. CASE PollOne(i, c) \/ PollCompletes(i, c) \/ PollFenced(i, c)
  BY <1>10, <1>1 DEF PollOne, PollCompletes, PollFenced
<1> QED BY <1>4, <1>5, <1>6, <1>7, <1>8, <1>9, <1>10 DEF PollStep

\* The poll steps of c change what instance i has of c, and its cycle.
LEMMA PollLocally ==
    ASSUME Types, NEW i \in Instance, NEW c \in Config, PollStep(i, c)
    PROVE  /\ UNCHANGED loopVars
           /\ \A j \in Instance \ {i} : SameAt(j)
           /\ \A d \in Config \ {c} :
                  /\ poll'[i][d] = poll[i][d] /\ local'[i][d] = local[i][d]
                  /\ base'[i][d] = base[i][d] /\ cursor'[i][d] = cursor[i][d]
<1>a. RunnerTypeOK /\ PollTypeOK
  BY TypeFacts
<1> USE DEF RunnerTypeOK, PollTypeOK
<1>1. CASE PollOne(i, c)
  BY <1>1, <1>a DEF PollOne, SameAt, loopVars, cycleVars
<1>2. CASE YieldMessage(i, c)
  BY <1>2, <1>a DEF YieldMessage, SameAt, loopVars, cycleVars
<1>3. CASE YieldState(i, c)
  BY <1>3, <1>a DEF YieldState, SameAt, loopVars, cycleVars
<1>4. CASE CommitPage(i, c)
  BY <1>4, <1>a DEF CommitPage, SameAt, loopVars, cycleVars
<1>5. CASE PollCompletes(i, c)
  BY <1>5, <1>a DEF PollCompletes, PollEnds, SameAt, loopVars
<1>6. CASE PollFails(i, c)
  BY <1>6, <1>a DEF PollFails, PollEnds, SameAt, loopVars
<1>7. CASE PollFenced(i, c)
  BY <1>7, <1>a DEF PollFenced, PollEnds, SameAt, loopVars
<1>8. CASE CancelPoll(i, c)
  BY <1>8, <1>a DEF CancelPoll, PollEnds, SameAt, loopVars
<1>9. CASE CancelCommit(i, c)
  BY <1>9, <1>a DEF CancelCommit, PollEnds, SameAt, loopVars
<1> QED BY <1>1, <1>2, <1>3, <1>4, <1>5, <1>6, <1>7, <1>8, <1>9 DEF PollStep

\* A step of the instance's own, other than a poll's, leaves the brokers alone, or
\* starts a producer for a token.
StepOf(i) ==
    \/ ListenerStep(i)
    \/ LoopStep(i)
    \/ CycleStep(i)
    \/ Lifecycle(i)
    \/ GroupStep(i)

\* The others keep their state, and the tokens they hold.
LEMMA OthersKept ==
    ASSUME Types, LogsInOrder, OwnState, OwnLog, NEW i \in Instance, PagesOf(i), StepOf(i),
           NEW j \in Instance, j # i
    PROVE  SameAt(j) /\ \A u \in Partition : holder'[u] = j => Kept(u)
<1>a. RunnerTypeOK /\ PollTypeOK
  BY TypeFacts
<1>b. ASSUME UNCHANGED brokerVars PROVE \A u \in Partition : Kept(u)
  BY <1>b, BrokersRest
<1>c. ASSUME NEW c \in Config, PollStep(i, c)
      PROVE  SameAt(j) /\ \A u \in Partition : holder'[u] = j => Kept(u)
  <2>1. SameAt(j)
    BY <1>c, PollLocally
  <2>2. \A u \in Partition : holder'[u] = j => Kept(u)
    BY <1>c, PollRest, Layout DEF Aside
  <2> QED BY <2>1, <2>2
<1>d. ASSUME NEW t \in Partition, StartTask(i, t)
      PROVE  SameAt(j) /\ \A u \in Partition : holder'[u] = j => Kept(u)
  <2>1. SameAt(j)
    BY <1>a, <1>d DEF StartTask, SameAt, cycleVars, pollVars, RunnerTypeOK
  <2>2. \A u \in Partition : holder'[u] = j => Kept(u)
    BY <1>d, InitProducerIdRest DEF StartTask, Aside
  <2> QED BY <2>1, <2>2
<1> USE DEF RunnerTypeOK, PollTypeOK
<1>1. CASE OnRevokedStandby(i)
  BY <1>1, <1>a, <1>b DEF OnRevokedStandby, cycleVars, pollVars, SameAt
<1>2. CASE OnRevoked(i)
  BY <1>2, <1>a, <1>b DEF OnRevoked, pollVars, SameAt
<1>3. CASE SuspendTokens(i)
  BY <1>3, <1>a, <1>b DEF SuspendTokens, CloseTasks, Everywhere, pollVars, SameAt
<1>4. CASE SuspendTokensFails(i)
  BY <1>4, <1>a, <1>b DEF SuspendTokensFails, pollVars, SameAt
<1>5. CASE OnRevokedAfterFailure(i)
  BY <1>5, <1>a, <1>b DEF OnRevokedAfterFailure, pollVars, SameAt
<1>6. CASE OnRevokedAgain(i)
  BY <1>6, <1>a, <1>b DEF OnRevokedAgain, CloseTasks, Everywhere, cycleVars, pollVars,
     SameAt
<1>7. CASE OnAssigned(i)
  BY <1>7, <1>a, <1>b DEF OnAssigned, cycleVars, pollVars, SameAt
<1>8. CASE CallGetmany(i)
  BY <1>8, <1>a, <1>b DEF CallGetmany, cycleVars, pollVars, SameAt
<1>9. CASE GetmanyReturns(i)
  BY <1>9, <1>a, <1>b DEF GetmanyReturns, cycleVars, pollVars, SameAt
<1>10. CASE NothingPending(i)
  BY <1>10, <1>a, <1>b DEF NothingPending, NextTop, cycleVars, pollVars, SameAt
<1>11. CASE StartPendingTokens(i)
  BY <1>11, <1>a, <1>b DEF StartPendingTokens, CloseTasks, NextTop, Everywhere,
     cycleVars, pollVars, SameAt
<1>12. CASE Restore(i)
  BY <1>12, <1>a, <1>b DEF Restore, pollVars, SameAt
<1>13. CASE PollCycle(i)
  BY <1>13, <1>a, <1>b DEF PollCycle, loopVars, SameAt
<1>14. CASE Interrupt(i)
  BY <1>14, <1>a, <1>b DEF Interrupt, cycleVars, pollVars, SameAt
<1>15. CASE Exit(i)
  BY <1>15, <1>a, <1>b DEF Exit, ProcessGone, Everywhere, SameAt
<1>16. CASE Crash(i)
  BY <1>16, <1>a, <1>b DEF Crash, ProcessGone, Everywhere, SameAt
<1>17. CASE Restart(i)
  BY <1>17, <1>a, <1>b DEF Restart, cycleVars, pollVars, SameAt
<1>18. CASE GroupStep(i)
  BY <1>18, <1>a, <1>b DEF GroupStep, loopVars, cycleVars, pollVars, SameAt
<1> QED BY <1>c, <1>d, <1>1, <1>2, <1>3, <1>4, <1>5, <1>6, <1>7, <1>8, <1>9, <1>10,
     <1>11, <1>12, <1>13, <1>14, <1>15, <1>16, <1>17, <1>18
     DEF StepOf, ListenerStep, LoopStep, CycleStep, Lifecycle

-----------------------------------------------------------------------------
(* What a step of an instance makes of its own pages *)

\* Every way a poll ends leaves its token clean, or the instance unwinding, or
\* another in the token's place.
LEMMA CleanBetweenStep ==
    ASSUME LeaseInv, LogsInOrder, OwnState, OwnLog, NEW i \in Instance, PagesOf(i), StepOf(i)
    PROVE  CleanBetween(i)'
<1> SUFFICES ASSUME NEW t \in Partition, Between(i, t)' PROVE Clean(t)'
  BY DEF CleanBetween
<1>a. Types /\ RunnerTypeOK /\ PollTypeOK /\ Control(i)
  BY TypeFacts DEF LeaseInv
<1>b. CleanBetween(i) /\ PageInHand(i)
  BY DEF PagesOf
<1>c. UNCHANGED brokerVars /\ Between(i, t) => Clean(t)'
  BY <1>b, BrokersRest DEF CleanBetween, Kept
<1>d. ASSUME NEW c \in Config, PollStep(i, c), t # Token(c), Between(i, t) PROVE Clean(t)'
  BY <1>a, <1>b, <1>d, PollRest DEF Aside, Kept, CleanBetween
<1>e. ASSUME NEW c \in Config, PollStep(i, c)
      PROVE  /\ holder[t] = i /\ ~Unwinding(i) /\ t \in tokens[i] \ starting[i]
             /\ t # Token(c) => Between(i, t)
  <2>1. holder' = holder /\ UNCHANGED loopVars
    BY <1>a, <1>e, PollRest, PollLocally
  <2>2. \A d \in Config \ {c} : poll'[i][d] = poll[i][d]
    BY <1>a, <1>e, PollLocally
  <2> QED BY <2>1, <2>2 DEF Between, Unwinding, loopVars, InHand, Active
<1> USE DEF RunnerTypeOK, PollTypeOK
<1>1. CASE OnRevokedStandby(i)
  BY <1>1, <1>a, <1>b, <1>c DEF OnRevokedStandby, brokerVars, cycleVars, pollVars,
     Between, InHand, Active, Unwinding
<1>2. CASE OnRevoked(i)
  BY <1>2, <1>a, <1>b, <1>c DEF OnRevoked, brokerVars, pollVars, Between, InHand,
     Active, Unwinding
<1>3. CASE SuspendTokens(i)
  BY <1>3, <1>a, <1>b, <1>c DEF SuspendTokens, CloseTasks, Everywhere, brokerVars,
     pollVars, Between, InHand, Active, Unwinding
<1>4. CASE SuspendTokensFails(i)
  BY <1>4, <1>a, <1>b, <1>c DEF SuspendTokensFails, brokerVars, pollVars, Between,
     InHand, Active, Unwinding
<1>5. CASE OnRevokedAfterFailure(i)
  BY <1>5, <1>a, <1>b, <1>c DEF OnRevokedAfterFailure, brokerVars, pollVars, Between,
     InHand, Active, Unwinding
<1>6. CASE OnRevokedAgain(i)
  BY <1>6, <1>a, <1>b, <1>c DEF OnRevokedAgain, CloseTasks, Everywhere, brokerVars,
     cycleVars, pollVars, Between, InHand, Active, Unwinding
<1>7. CASE OnAssigned(i)
  BY <1>7, <1>a, <1>b, <1>c DEF OnAssigned, brokerVars, cycleVars, pollVars, Between,
     InHand, Active, Unwinding
<1>8. CASE CallGetmany(i)
  BY <1>8, <1>a, <1>b, <1>c DEF CallGetmany, brokerVars, cycleVars, pollVars, Between,
     InHand, Active, Unwinding
<1>9. CASE GetmanyReturns(i)
  BY <1>9, <1>a, <1>b, <1>c DEF GetmanyReturns, brokerVars, cycleVars, pollVars,
     Between, InHand, Active, Unwinding
<1>10. CASE NothingPending(i)
  BY <1>10, <1>a, <1>b, <1>c DEF NothingPending, NextTop, brokerVars, cycleVars,
     pollVars, Between, InHand, Active, Unwinding
<1>11. CASE StartPendingTokens(i)
  BY <1>11, <1>a, <1>b, <1>c DEF StartPendingTokens, CloseTasks, NextTop, Everywhere,
     brokerVars, cycleVars, pollVars, Between, InHand, Active, Unwinding
<1>12. ASSUME NEW u \in Partition, StartTask(i, u) PROVE Clean(t)'
  <2>1. InitProducerId(i, u)
    BY <1>12 DEF StartTask
  <2>2. CASE t = u
    BY <1>a, <2>1, <2>2, InitProducerIdRest
  <2>3. CASE t # u
    <3>1. Kept(t)
      BY <1>a, <2>1, <2>3, InitProducerIdRest DEF Aside
    <3>2. Between(i, t)
      BY <1>a, <1>12, <2>3, <3>1 DEF StartTask, Between, InHand, Active, Unwinding,
         Kept, pollVars
    <3> QED BY <1>b, <3>1, <3>2 DEF Kept, CleanBetween
  <2> QED BY <2>2, <2>3
<1>13. CASE Restore(i)
  BY <1>13, <1>a, <1>b, <1>c DEF Restore, brokerVars, pollVars, Control, Between,
     InHand, Active, Unwinding
<1>14. CASE PollCycle(i)
  BY <1>14, <1>a, <1>b, <1>c DEF PollCycle, Owned, brokerVars, loopVars, Control,
     CycleInFlight, Quiet, Between, InHand, Active, Unwinding
<1>15. ASSUME NEW c \in Config, PollOne(i, c) PROVE Clean(t)'
  <2>1. PollStep(i, c)
    BY <1>15 DEF PollStep
  <2>2. CASE t = Token(c)
    BY <1>a, <1>15, <2>1, <2>2 DEF PollOne, Between, InHand, Active
  <2> QED BY <1>d, <1>e, <2>1, <2>2
<1>16. ASSUME NEW c \in Config, YieldMessage(i, c) PROVE Clean(t)'
  <2>1. PollStep(i, c)
    BY <1>16 DEF PollStep
  <2>2. CASE t = Token(c)
    BY <1>a, <1>16, <2>1, <2>2 DEF YieldMessage, Between, InHand, Active
  <2> QED BY <1>d, <1>e, <2>1, <2>2
<1>17. ASSUME NEW c \in Config, YieldState(i, c) PROVE Clean(t)'
  <2>1. PollStep(i, c)
    BY <1>17 DEF PollStep
  <2>2. CASE t = Token(c)
    BY <1>a, <1>17, <2>1, <2>2 DEF YieldState, Between, InHand, Active
  <2> QED BY <1>d, <1>e, <2>1, <2>2
<1>18. ASSUME NEW c \in Config, CommitPage(i, c) PROVE Clean(t)'
  <2>1. PollStep(i, c)
    BY <1>18 DEF PollStep
  <2>2. CASE t = Token(c)
    BY <1>a, <1>18, <2>1, <2>2 DEF CommitPage, Between, InHand, Active
  <2> QED BY <1>d, <1>e, <2>1, <2>2
<1>19. ASSUME NEW c \in Config, PollCompletes(i, c) PROVE Clean(t)'
  <2>1. PollStep(i, c)
    BY <1>19 DEF PollStep
  <2>2. CASE t = Token(c)
    <3>1. poll[i][c] = "paging" /\ cursor[i][c] = base[i][c] /\ UNCHANGED brokerVars
      BY <1>19 DEF PollCompletes
    <3>2. PageOpen(c, base[i][c], cursor[i][c])
      BY <1>a, <1>b, <1>e, <2>1, <2>2, <3>1, PageOfPoll
    <3>3. Clean(t)
      BY <2>2, <3>1, <3>2 DEF PageOpen, Clean
    <3> QED BY <3>1, <3>3, BrokersRest DEF Kept
  <2> QED BY <1>d, <1>e, <2>1, <2>2
<1>20. ASSUME NEW c \in Config, PollFails(i, c) PROVE Clean(t)'
  <2>1. PollStep(i, c)
    BY <1>20 DEF PollStep
  <2>2. CASE t = Token(c)
    BY <1>a, <1>20, <1>e, <2>1, <2>2, AbortTxnRest DEF PollFails
  <2> QED BY <1>d, <1>e, <2>1, <2>2
<1>21. ASSUME NEW c \in Config, PollFenced(i, c) PROVE Clean(t)'
  <2>1. PollStep(i, c)
    BY <1>21 DEF PollStep
  <2>2. CASE t = Token(c)
    BY <1>21, <1>e, <2>1, <2>2 DEF PollFenced
  <2> QED BY <1>d, <1>e, <2>1, <2>2
<1>22. ASSUME NEW c \in Config, CancelPoll(i, c) PROVE Clean(t)'
  <2>1. PollStep(i, c)
    BY <1>22 DEF PollStep
  <2>2. tokens[i] = {} \/ Unwinding(i)
    BY <1>a, <1>22 DEF CancelPoll, Cancelled, Control, CancelledByRevoke, HoldsNothing,
       Unwinding
  <2> QED BY <1>e, <2>1, <2>2
<1>23. ASSUME NEW c \in Config, CancelCommit(i, c) PROVE Clean(t)'
  <2>1. PollStep(i, c)
    BY <1>23 DEF PollStep
  <2>2. tokens[i] = {} \/ Unwinding(i)
    BY <1>a, <1>23 DEF CancelCommit, Cancelled, Control, CancelledByRevoke,
       HoldsNothing, Unwinding
  <2> QED BY <1>e, <2>1, <2>2
<1>24. CASE Interrupt(i)
  BY <1>24, <1>a, <1>b, <1>c DEF Interrupt, brokerVars, cycleVars, pollVars, Between,
     InHand, Active, Unwinding
<1>25. CASE Exit(i)
  BY <1>25, <1>a, <1>b, <1>c DEF Exit, ProcessGone, Everywhere, brokerVars, Between,
     InHand, Active, Unwinding
<1>26. CASE Crash(i)
  BY <1>26, <1>a, <1>b, <1>c DEF Crash, ProcessGone, Everywhere, brokerVars, Between,
     InHand, Active, Unwinding
<1>27. CASE Restart(i)
  BY <1>27, <1>a, <1>b, <1>c DEF Restart, brokerVars, cycleVars, pollVars, Between,
     InHand, Active, Unwinding
<1>28. CASE GroupStep(i)
  BY <1>28, <1>a, <1>b, <1>c DEF GroupStep, brokerVars, loopVars, cycleVars, pollVars,
     Between, InHand, Active, Unwinding
<1> QED BY <1>1, <1>2, <1>3, <1>4, <1>5, <1>6, <1>7, <1>8, <1>9, <1>10, <1>11, <1>12,
     <1>13, <1>14, <1>15, <1>16, <1>17, <1>18, <1>19, <1>20, <1>21, <1>22, <1>23, <1>24,
     <1>25, <1>26, <1>27, <1>28
     DEF StepOf, ListenerStep, LoopStep, CycleStep, PollStep, Lifecycle

\* A page in hand stays what its token's transaction holds: the token's lock keeps
\* the instance's other polls away, the holder the other instances.
LEMMA PageInHandStep ==
    ASSUME LeaseInv, LogsInOrder, OwnState, OwnLog, NEW i \in Instance, PagesOf(i), StepOf(i)
    PROVE  PageInHand(i)'
<1> SUFFICES ASSUME NEW d \in Config, (holder[Token(d)])' = i, Active(i, d)'
             PROVE  PageMatches(i, d)'
  BY DEF PageInHand
<1>a. Types /\ RunnerTypeOK /\ PollTypeOK /\ Control(i)
  BY TypeFacts DEF LeaseInv
<1>b. PageInHand(i) /\ CleanBetween(i) /\ LocalCurrent(i)
  BY DEF PagesOf
<1>c. UNCHANGED brokerVars => Kept(Token(d))
  BY BrokersRest, Layout
<1>d. ASSUME Kept(Token(d)), poll'[i][d] = poll[i][d],
             base'[i][d] = base[i][d], cursor'[i][d] = cursor[i][d],
             ~Unwinding(i)' => ~Unwinding(i) /\ local'[i][d] = local[i][d]
      PROVE  PageMatches(i, d)'
  <2>1. PageMatches(i, d)
    BY <1>b, <1>d DEF PageInHand, Active, Kept, Token
  <2> QED BY <1>d, <2>1 DEF PageMatches, Kept
<1>e. ASSUME NEW c \in Config, PollStep(i, c), c # d, Active(i, c) \/ UNCHANGED brokerVars
      PROVE  PageMatches(i, d)'
  <2>1. /\ UNCHANGED loopVars
        /\ poll'[i][d] = poll[i][d] /\ local'[i][d] = local[i][d]
        /\ base'[i][d] = base[i][d] /\ cursor'[i][d] = cursor[i][d]
    BY <1>a, <1>e, PollLocally
  <2>2. Active(i, d)
    BY <2>1 DEF Active
  <2>3. CASE UNCHANGED brokerVars
    BY <1>c, <1>d, <2>1, <2>3 DEF Unwinding, loopVars
  <2>4. CASE Active(i, c)
    <3>1. Token(d) # Token(c)
      BY <1>a, <1>e, <2>2, <2>4 DEF Control, OnePagePerToken
    <3>2. Kept(Token(d))
      BY <1>a, <1>e, <3>1, PollRest, Layout DEF Aside
    <3> QED BY <1>d, <2>1, <3>2 DEF Unwinding, loopVars
  <2> QED BY <1>e, <2>3, <2>4
<1>f. cycle[i] = "none" \/ cycle[i] = "idle" => ~Active(i, d)
  BY <1>a DEF Control, CycleInFlight, Quiet, Active
<1> USE DEF RunnerTypeOK, PollTypeOK
<1>1. CASE OnRevokedStandby(i)
  BY <1>1, <1>a, <1>c, <1>d DEF OnRevokedStandby, brokerVars, cycleVars, pollVars,
     Unwinding
<1>2. CASE OnRevoked(i)
  BY <1>2, <1>a, <1>c, <1>d DEF OnRevoked, brokerVars, pollVars, Unwinding
<1>3. CASE SuspendTokens(i)
  BY <1>3 DEF SuspendTokens, Quiet, Active, pollVars
<1>4. CASE SuspendTokensFails(i)
  BY <1>4 DEF SuspendTokensFails, Quiet, Active, pollVars
<1>5. CASE OnRevokedAfterFailure(i)
  BY <1>5, <1>a, <1>c, <1>d DEF OnRevokedAfterFailure, brokerVars, pollVars, Unwinding
<1>6. CASE OnRevokedAgain(i)
  <2>1. CASE cycle[i] = "none"
    BY <1>6, <1>f, <2>1 DEF OnRevokedAgain, pollVars, Active
  <2>2. CASE pc[i] = "unwinding"
    BY <1>6, <1>c, <1>d, <2>2 DEF OnRevokedAgain, pollVars, Unwinding
  <2> QED BY <1>6, <2>1, <2>2 DEF OnRevokedAgain
<1>7. CASE OnAssigned(i)
  BY <1>7, <1>a, <1>c, <1>d DEF OnAssigned, brokerVars, cycleVars, pollVars, Unwinding
<1>8. CASE CallGetmany(i)
  BY <1>8, <1>a, <1>c, <1>d DEF CallGetmany, brokerVars, cycleVars, pollVars, Unwinding
<1>9. CASE GetmanyReturns(i)
  BY <1>9, <1>a, <1>c, <1>d DEF GetmanyReturns, brokerVars, cycleVars, pollVars,
     Unwinding
<1>10. CASE NothingPending(i)
  BY <1>10, <1>a, <1>c, <1>d DEF NothingPending, NextTop, brokerVars, cycleVars,
     pollVars, Unwinding
<1>11. CASE StartPendingTokens(i)
  <2>1. cycle[i] = "none"
    BY <1>a, <1>11 DEF StartPendingTokens, Control, JoinsWithoutCycle, Unwinding
  <2> QED BY <1>11, <1>f, <2>1 DEF StartPendingTokens, pollVars, Active
<1>12. ASSUME NEW t \in Partition, StartTask(i, t) PROVE PageMatches(i, d)'
  <2>1. cycle[i] = "none"
    BY <1>a, <1>12 DEF StartTask, Control, FencesWithoutCycle
  <2> QED BY <1>12, <1>f, <2>1 DEF StartTask, pollVars, Active
<1>13. CASE Restore(i)
  <2>1. cycle[i] = "none"
    BY <1>a, <1>13 DEF Restore, Control, FencesWithoutCycle
  <2> QED BY <1>13, <1>f, <2>1 DEF Restore, pollVars, Active
<1>14. CASE PollCycle(i)
  BY <1>14, <1>a DEF PollCycle, Active
<1>15. ASSUME NEW c \in Config, PollOne(i, c) PROVE PageMatches(i, d)'
  <2>1. PollStep(i, c) /\ UNCHANGED brokerVars
    BY <1>15 DEF PollOne, PollStep
  <2>2. CASE c = d
    <3> DEFINE n == local[i][d]
    <3>1. /\ poll[i][d] = "queued" /\ cycle[i] = "polling" /\ ~Unwinding(i)
          /\ base'[i][d] = n /\ cursor'[i][d] = n /\ poll'[i][d] = "paging"
          /\ local' = local /\ n \in Cursor /\ holder[Token(d)] = i
      BY <1>15, <1>a, <2>2 DEF PollOne, brokerVars, Unwinding
    <3>2. Token(d) \in tokens[i] /\ starting[i] = {}
      BY <1>a, <3>1 DEF Control, PollsOwned, FencesWithoutCycle
    <3>3. Durable(d) = n
      BY <1>b, <3>1, <3>2 DEF LocalCurrent, MayPoll
    <3>4. Clean(Token(d))
      <4>1. ~InHand(i, Token(d))
        BY <1>15, <2>2 DEF PollOne, InToken, InHand, Active
      <4> QED BY <1>b, <3>1, <3>2, <4>1, Layout DEF CleanBetween, Between
    <3>5. PageOpen(d, n, n)
      BY <3>1, <3>3, <3>4, CleanOpens
    <3>6. PageOpen(d, n, n)'
      BY <1>c, <2>1, <3>1, <3>5 DEF Kept
    <3> QED BY <3>1, <3>6 DEF PageMatches
  <2> QED BY <1>e, <2>1, <2>2
<1>16. ASSUME NEW c \in Config, YieldMessage(i, c) PROVE PageMatches(i, d)'
  <2>1. PollStep(i, c) /\ Active(i, c)
    BY <1>16 DEF YieldMessage, PollStep, Active
  <2>2. CASE c = d
    <3>a. PICK from \in Cursor, to \in Cursor : from = base[i][d] /\ to = cursor[i][d]
      BY <1>a
    <3>1. /\ poll[i][d] = "paging" /\ poll' = poll /\ UNCHANGED loopVars
          /\ SendItem(i, d, to + 1) /\ to + 1 \in Cursor
          /\ base' = base /\ cursor'[i][d] = to + 1 /\ local' = local
      BY <1>16, <1>a, <2>2, <3>a, PageLogAssumption DEF YieldMessage, Cursor
    <3>2. holder[Token(d)] = i
      BY <3>1 DEF SendItem
    <3>3. PageOpen(d, from, to) /\ (~Unwinding(i) => local[i][d] = from)
      BY <1>a, <1>b, <3>1, <3>2, <3>a, PageOfPoll
    <3>4. PageOpen(d, from, to + 1)'
      BY <1>a, <3>1, <3>3, <3>a, SendItemRest
    <3> QED BY <3>a, <3>1, <3>3, <3>4 DEF PageMatches, Unwinding, loopVars
  <2> QED BY <1>e, <2>1, <2>2
<1>17. ASSUME NEW c \in Config, YieldState(i, c) PROVE PageMatches(i, d)'
  <2>1. PollStep(i, c) /\ Active(i, c)
    BY <1>17 DEF YieldState, PollStep, Active
  <2>2. CASE c = d
    <3>a. PICK from \in Cursor, to \in Cursor : from = base[i][d] /\ to = cursor[i][d]
      BY <1>a
    <3>1. /\ poll[i][d] = "paging" /\ poll'[i][d] = "closing" /\ UNCHANGED loopVars
          /\ SendState(i, KeyOf[d], NewState(i, d))
          /\ from < to /\ base' = base /\ cursor' = cursor /\ local'[i][d] = to
      BY <1>17, <1>a, <2>2, <3>a, PageLogAssumption DEF YieldState, Cursor
    <3>2. holder[Token(d)] = i
      BY <3>1 DEF SendState, Token
    <3>3. PageOpen(d, from, to)
      BY <1>a, <1>b, <3>1, <3>2, <3>a, PageOfPoll
    <3>4. PageSent(d, from, to)'
      BY <1>a, <3>1, <3>3, <3>a, SendStateRest
    <3> QED BY <3>a, <3>1, <3>4 DEF PageMatches
  <2> QED BY <1>e, <2>1, <2>2
<1>18. ASSUME NEW c \in Config, CommitPage(i, c) PROVE PageMatches(i, d)'
  <2>1. PollStep(i, c) /\ Active(i, c)
    BY <1>18 DEF CommitPage, PollStep, Active
  <2>2. CASE c = d
    <3>a. PICK from \in Cursor, to \in Cursor : from = base[i][d] /\ to = cursor[i][d]
      BY <1>a
    <3>1. /\ poll[i][d] = "closing" /\ poll'[i][d] = "paging" /\ UNCHANGED loopVars
          /\ CommitTxn(i, Token(d))
          /\ base'[i][d] = to /\ cursor' = cursor /\ local' = local
      BY <1>18, <1>a, <2>2, <3>a DEF CommitPage
    <3>2. holder[Token(d)] = i
      BY <3>1 DEF CommitTxn
    <3>3. PageSent(d, from, to) /\ (~Unwinding(i) => local[i][d] = to)
      BY <1>a, <1>b, <3>1, <3>2, <3>a, PageOfPoll
    <3>4. PageOpen(d, to, to)'
      BY <1>a, <3>1, <3>3, CommitTxnRest
    <3> QED BY <3>a, <3>1, <3>3, <3>4 DEF PageMatches, Unwinding, loopVars
  <2> QED BY <1>e, <2>1, <2>2
<1>19. ASSUME NEW c \in Config, PollCompletes(i, c) PROVE PageMatches(i, d)'
  <2>1. PollStep(i, c) /\ (Active(i, c) \/ UNCHANGED brokerVars)
    BY <1>19, <1>a DEF PollCompletes, PollStep, Active
  <2>2. c # d
    BY <1>19, <1>a DEF PollCompletes, PollEnds, Active
  <2> QED BY <1>e, <2>1, <2>2
<1>20. ASSUME NEW c \in Config, PollFails(i, c) PROVE PageMatches(i, d)'
  <2>1. PollStep(i, c) /\ (Active(i, c) \/ UNCHANGED brokerVars)
    BY <1>20, <1>a DEF PollFails, PollStep, Active
  <2>2. c # d
    BY <1>20, <1>a DEF PollFails, PollEnds, Active
  <2> QED BY <1>e, <2>1, <2>2
<1>21. ASSUME NEW c \in Config, PollFenced(i, c) PROVE PageMatches(i, d)'
  <2>1. PollStep(i, c) /\ (Active(i, c) \/ UNCHANGED brokerVars)
    BY <1>21, <1>a DEF PollFenced, PollStep, Active
  <2>2. c # d
    BY <1>21, <1>a DEF PollFenced, PollEnds, Active
  <2> QED BY <1>e, <2>1, <2>2
<1>22. ASSUME NEW c \in Config, CancelPoll(i, c) PROVE PageMatches(i, d)'
  <2>1. PollStep(i, c) /\ (Active(i, c) \/ UNCHANGED brokerVars)
    <3>1. PollStep(i, c)
      BY <1>22 DEF PollStep
    <3>2. poll[i][c] \in Poll
      BY <1>a
    <3> QED BY <1>22, <3>1, <3>2 DEF CancelPoll, Active, Poll
  <2>2. c # d
    BY <1>22, <1>a DEF CancelPoll, PollEnds, Active
  <2> QED BY <1>e, <2>1, <2>2
<1>23. ASSUME NEW c \in Config, CancelCommit(i, c) PROVE PageMatches(i, d)'
  <2>1. PollStep(i, c) /\ (Active(i, c) \/ UNCHANGED brokerVars)
    BY <1>23, <1>a DEF CancelCommit, PollStep, Active
  <2>2. c # d
    BY <1>23, <1>a DEF CancelCommit, PollEnds, Active
  <2> QED BY <1>e, <2>1, <2>2
<1>24. CASE Interrupt(i)
  BY <1>24, <1>a, <1>c, <1>d DEF Interrupt, brokerVars, cycleVars, pollVars, Unwinding
<1>25. CASE Exit(i)
  BY <1>25, <1>a DEF Exit, ProcessGone, Everywhere, Active
<1>26. CASE Crash(i)
  BY <1>26, <1>a DEF Crash, ProcessGone, Everywhere, Active
<1>27. CASE Restart(i)
  BY <1>27, <1>a, <1>c, <1>d DEF Restart, brokerVars, cycleVars, pollVars, Unwinding
<1>28. CASE GroupStep(i)
  BY <1>28, <1>a, <1>c, <1>d DEF GroupStep, brokerVars, loopVars, cycleVars, pollVars,
     Unwinding
<1> QED BY <1>1, <1>2, <1>3, <1>4, <1>5, <1>6, <1>7, <1>8, <1>9, <1>10, <1>11, <1>12,
     <1>13, <1>14, <1>15, <1>16, <1>17, <1>18, <1>19, <1>20, <1>21, <1>22, <1>23, <1>24,
     <1>25, <1>26, <1>27, <1>28
     DEF StepOf, ListenerStep, LoopStep, CycleStep, PollStep, Lifecycle

\* The local store is current wherever a poll may start: a restore finds every
\* page behind it settled, a completed poll leaves its last page's cursor.
LEMMA LocalCurrentStep ==
    ASSUME LeaseInv, LogsInOrder, OwnState, OwnLog, NEW i \in Instance, PagesOf(i), StepOf(i)
    PROVE  LocalCurrent(i)'
<1> SUFFICES ASSUME NEW d \in Config, MayPoll(i, d)' PROVE local'[i][d] = Durable(d)'
  BY DEF LocalCurrent
<1>a. Types /\ RunnerTypeOK /\ PollTypeOK /\ Control(i)
  BY TypeFacts DEF LeaseInv
<1>b. PageInHand(i) /\ CleanBetween(i) /\ LocalCurrent(i) /\ WipedBeforeRestore(i)
  BY DEF PagesOf
<1>c. UNCHANGED brokerVars => Durable(d)' = Durable(d) /\ holder' = holder
  BY BrokersRest
<1>d. ASSUME MayPoll(i, d), local'[i][d] = local[i][d], Durable(d)' = Durable(d)
      PROVE  local'[i][d] = Durable(d)'
  BY <1>b, <1>d DEF LocalCurrent
<1>e. ASSUME NEW c \in Config, PollStep(i, c), c # d, failed[i] => failed'[i], 
             cycle[i] \in {"idle", "polling"}
      PROVE  local'[i][d] = Durable(d)'
  <2>1. holder' = holder /\ Durable(d)' = Durable(d) /\ UNCHANGED loopVars
    BY <1>a, <1>b, <1>e, PollRest, PollLocally
  <2>2. poll'[i][d] = poll[i][d] /\ local'[i][d] = local[i][d]
    BY <1>a, <1>e, PollLocally
  <2>3. MayPoll(i, d)
    BY <1>e, <2>1, <2>2 DEF MayPoll, Unwinding, loopVars
  <2> QED BY <1>d, <2>1, <2>2, <2>3
<1>f. ASSUME NEW c \in Config, Cancelled(i), PollEnds(i, c, FALSE), UNCHANGED loopVars
      PROVE  FALSE
  BY <1>a, <1>f DEF Cancelled, PollEnds, MayPoll, Unwinding, loopVars, RunnerTypeOK
<1> USE DEF RunnerTypeOK, PollTypeOK
<1>1. CASE OnRevokedStandby(i)
  BY <1>1, <1>a, <1>c, <1>d DEF OnRevokedStandby, brokerVars, cycleVars, pollVars,
     MayPoll, Unwinding
<1>2. CASE OnRevoked(i)
  BY <1>2, <1>a, <1>c, <1>d DEF OnRevoked, brokerVars, pollVars, MayPoll, Unwinding
<1>3. CASE SuspendTokens(i)
  BY <1>3, <1>a, <1>c, <1>d DEF SuspendTokens, CloseTasks, Everywhere, brokerVars,
     pollVars, MayPoll, Unwinding
<1>4. CASE SuspendTokensFails(i)
  BY <1>4, <1>a, <1>c, <1>d DEF SuspendTokensFails, brokerVars, pollVars, MayPoll,
     Unwinding
<1>5. CASE OnRevokedAfterFailure(i)
  BY <1>5, <1>a, <1>c, <1>d DEF OnRevokedAfterFailure, brokerVars, pollVars, MayPoll,
     Unwinding
<1>6. CASE OnRevokedAgain(i)
  BY <1>6, <1>a, <1>c, <1>d DEF OnRevokedAgain, CloseTasks, Everywhere, brokerVars,
     cycleVars, pollVars, MayPoll, Unwinding
<1>7. CASE OnAssigned(i)
  BY <1>7, <1>a, <1>c, <1>d DEF OnAssigned, brokerVars, cycleVars, pollVars, MayPoll,
     Unwinding
<1>8. CASE CallGetmany(i)
  BY <1>8, <1>a, <1>c, <1>d DEF CallGetmany, brokerVars, cycleVars, pollVars, MayPoll,
     Unwinding
<1>9. CASE GetmanyReturns(i)
  BY <1>9, <1>a, <1>c, <1>d DEF GetmanyReturns, brokerVars, cycleVars, pollVars,
     MayPoll, Unwinding
<1>10. CASE NothingPending(i)
  BY <1>10, <1>a, <1>c, <1>d DEF NothingPending, NextTop, brokerVars, cycleVars,
     pollVars, MayPoll, Unwinding
<1>11. CASE StartPendingTokens(i)
  BY <1>11, <1>a DEF StartPendingTokens, Control, JoinsWithoutCycle, Unwinding,
     cycleVars, MayPoll
<1>12. ASSUME NEW t \in Partition, StartTask(i, t) PROVE local'[i][d] = Durable(d)'
  BY <1>12, <1>a DEF StartTask, Control, FencesWithoutCycle, cycleVars, MayPoll
<1>13. CASE Restore(i)
  <2> DEFINE l == LogOf[KeyOf[d]]
  <2>1. /\ pc[i] = "fencing" /\ starting[i] = {} /\ UNCHANGED brokerVars /\ tokens' = tokens
        /\ local'[i][d] = IF HasRecord(KeyOf[d]) THEN Restorable(KeyOf[d])[d] ELSE local[i][d]
    BY <1>13, <1>a DEF Restore, Restored
  <2>2. Clean(Token(d))
    <3>1. ~InHand(i, Token(d))
      BY <1>a, <2>1 DEF Control, FencesWithoutCycle, CycleInFlight, Quiet, InHand, Active
    <3>2. Between(i, Token(d))
      BY <1>c, <2>1, <3>1 DEF MayPoll, Between, Unwinding
    <3> QED BY <1>b, <3>2, Layout DEF CleanBetween
  <2>3. l \in Log /\ \A r \in log[l] : ~r.open
    <3> SUFFICES ASSUME NEW r \in log[l], r.open PROVE FALSE
      BY Layout
    <3>1. r.key \in StateKey /\ LogOf[r.key] = l
      BY <1>a, Layout, RecordFields DEF Types, TypeOK
    <3>2. TokenOf[r.key] = Token(d)
      BY <3>1, Layout DEF OwnLog
    <3> QED BY <2>2, <3>2, Layout DEF Clean, NothingOpen
  <2>4. Stable(l) = log[l] /\ Closed(l) = log[l]
    BY <2>3 DEF Stable, Closed
  <2>5. CASE HasRecord(KeyOf[d])
    BY <1>c, <2>1, <2>4, <2>5 DEF Restorable, Durable
  <2>6. CASE ~HasRecord(KeyOf[d])
    <3>1. {r \in log[l] : r.key = KeyOf[d]} = {}
      BY <2>4, <2>6 DEF HasRecord
    <3>2. Durable(d) = 0
      BY <2>4, <3>1, Layout DEF Durable, StateIn
    <3>3. local[i][d] = 0
      BY <1>b, <2>1 DEF WipedBeforeRestore
    <3> QED BY <1>c, <2>1, <2>6, <3>2, <3>3
  <2> QED BY <2>5, <2>6
<1>14. CASE PollCycle(i)
  <2>1. MayPoll(i, d)
    BY <1>14, <1>a, <1>c DEF PollCycle, MayPoll, Owned, Control, CycleInFlight, Quiet,
       Unwinding, loopVars
  <2> QED BY <1>14, <1>c, <1>d, <2>1 DEF PollCycle
<1>15. ASSUME NEW c \in Config, PollOne(i, c) PROVE local'[i][d] = Durable(d)'
  <2>1. PollStep(i, c) /\ c # d /\ UNCHANGED cycleVars
    BY <1>15, <1>a DEF PollOne, PollStep, MayPoll
  <2> QED BY <1>e, <2>1 DEF MayPoll, cycleVars
<1>16. ASSUME NEW c \in Config, YieldMessage(i, c) PROVE local'[i][d] = Durable(d)'
  <2>1. PollStep(i, c) /\ c # d /\ UNCHANGED cycleVars
    BY <1>16, <1>a DEF YieldMessage, PollStep, MayPoll
  <2> QED BY <1>e, <2>1 DEF MayPoll, cycleVars
<1>17. ASSUME NEW c \in Config, YieldState(i, c) PROVE local'[i][d] = Durable(d)'
  <2>1. PollStep(i, c) /\ c # d /\ UNCHANGED cycleVars
    BY <1>17, <1>a DEF YieldState, PollStep, MayPoll
  <2> QED BY <1>e, <2>1 DEF MayPoll, cycleVars
<1>18. ASSUME NEW c \in Config, CommitPage(i, c) PROVE local'[i][d] = Durable(d)'
  <2>1. PollStep(i, c) /\ c # d /\ UNCHANGED cycleVars
    BY <1>18, <1>a DEF CommitPage, PollStep, MayPoll
  <2> QED BY <1>e, <2>1 DEF MayPoll, cycleVars
<1>19. ASSUME NEW c \in Config, PollCompletes(i, c) PROVE local'[i][d] = Durable(d)'
  <2>1. PollStep(i, c) /\ poll[i][c] = "paging" /\ UNCHANGED brokerVars
        /\ PollEnds(i, c, FALSE) /\ cursor[i][c] = base[i][c]
        /\ UNCHANGED loopVars /\ local' = local
    BY <1>19 DEF PollCompletes, PollStep
  <2>2. cycle[i] \in {"idle", "polling"} /\ failed'[i] = failed[i]
    BY <1>a, <2>1 DEF PollEnds, MayPoll
  <2>3. CASE c = d
    <3>1. holder[Token(d)] = i /\ ~Unwinding(i)
      BY <1>c, <2>1 DEF MayPoll, Unwinding, loopVars
    <3>2. PageOpen(d, base[i][d], cursor[i][d]) /\ local[i][d] = base[i][d]
      BY <1>a, <1>b, <2>1, <2>3, <3>1, PageOfPoll
    <3> QED BY <1>c, <2>1, <3>2 DEF PageOpen, Behind
  <2> QED BY <1>e, <2>1, <2>2, <2>3
<1>20. ASSUME NEW c \in Config, PollFails(i, c) PROVE local'[i][d] = Durable(d)'
  <2>1. PollStep(i, c) /\ PollEnds(i, c, TRUE)
    BY <1>20 DEF PollFails, PollStep
  <2>2. failed'[i] /\ c # d
    BY <1>a, <2>1 DEF PollEnds, MayPoll
  <2>3. cycle[i] \in {"idle", "polling"}
    BY <1>a, <2>1 DEF PollEnds, MayPoll
  <2> QED BY <1>e, <2>1, <2>2, <2>3
<1>21. ASSUME NEW c \in Config, PollFenced(i, c) PROVE local'[i][d] = Durable(d)'
  <2>1. PollStep(i, c) /\ PollEnds(i, c, TRUE)
    BY <1>21 DEF PollFenced, PollStep
  <2>2. failed'[i] /\ c # d
    BY <1>a, <2>1 DEF PollEnds, MayPoll
  <2>3. cycle[i] \in {"idle", "polling"}
    BY <1>a, <2>1 DEF PollEnds, MayPoll
  <2> QED BY <1>e, <2>1, <2>2, <2>3
<1>22. ASSUME NEW c \in Config, CancelPoll(i, c) PROVE local'[i][d] = Durable(d)'
  BY <1>22, <1>f DEF CancelPoll
<1>23. ASSUME NEW c \in Config, CancelCommit(i, c) PROVE local'[i][d] = Durable(d)'
  BY <1>23, <1>f DEF CancelCommit
<1>24. CASE Interrupt(i)
  BY <1>24, <1>a, <1>c, <1>d DEF Interrupt, brokerVars, cycleVars, pollVars, MayPoll,
     Unwinding
<1>25. CASE Exit(i)
  BY <1>25, <1>a, <1>c, <1>d DEF Exit, ProcessGone, Everywhere, brokerVars, MayPoll,
     Unwinding
<1>26. CASE Crash(i)
  BY <1>26, <1>a, <1>c, <1>d DEF Crash, ProcessGone, Everywhere, brokerVars, MayPoll,
     Unwinding
<1>27. CASE Restart(i)
  BY <1>27, <1>a, <1>c, <1>d DEF Restart, brokerVars, cycleVars, pollVars, MayPoll,
     Unwinding
<1>28. CASE GroupStep(i)
  BY <1>28, <1>a, <1>c, <1>d DEF GroupStep, brokerVars, loopVars, cycleVars, pollVars,
     MayPoll, Unwinding
<1> QED BY <1>1, <1>2, <1>3, <1>4, <1>5, <1>6, <1>7, <1>8, <1>9, <1>10, <1>11, <1>12,
     <1>13, <1>14, <1>15, <1>16, <1>17, <1>18, <1>19, <1>20, <1>21, <1>22, <1>23, <1>24,
     <1>25, <1>26, <1>27, <1>28
     DEF StepOf, ListenerStep, LoopStep, CycleStep, PollStep, Lifecycle

\* The store is wiped when tokens are taken, and nothing is polled until it is
\* restored.
LEMMA WipedStep ==
    ASSUME LeaseInv, NEW i \in Instance, WipedBeforeRestore(i), StepOf(i)
    PROVE  WipedBeforeRestore(i)'
<1> SUFFICES ASSUME pc'[i] = "fencing", NEW d \in Config PROVE local'[i][d] = 0
  BY DEF WipedBeforeRestore
<1>a. Types /\ RunnerTypeOK /\ PollTypeOK /\ Control(i)
  BY TypeFacts DEF LeaseInv
<1>b. pc[i] = "fencing" => local[i][d] = 0 /\ \A c \in Config : ~Active(i, c)
  BY <1>a DEF WipedBeforeRestore, Control, FencesWithoutCycle, CycleInFlight, Quiet, Active
<1> USE DEF RunnerTypeOK, PollTypeOK
<1>1. CASE OnRevokedStandby(i)
  BY <1>1, <1>a, <1>b DEF OnRevokedStandby, loopVars, Active
<1>2. CASE OnRevoked(i)
  BY <1>2, <1>a, <1>b DEF OnRevoked, loopVars, Active
<1>3. CASE SuspendTokens(i)
  BY <1>3, <1>a, <1>b DEF SuspendTokens, CloseTasks, Everywhere, loopVars, Active
<1>4. CASE SuspendTokensFails(i)
  BY <1>4, <1>a, <1>b DEF SuspendTokensFails, loopVars, Active
<1>5. CASE OnRevokedAfterFailure(i)
  BY <1>5, <1>a, <1>b DEF OnRevokedAfterFailure, loopVars, Active
<1>6. CASE OnRevokedAgain(i)
  BY <1>6, <1>a, <1>b DEF OnRevokedAgain, CloseTasks, Everywhere, loopVars, Active
<1>7. CASE OnAssigned(i)
  BY <1>7, <1>a, <1>b DEF OnAssigned, loopVars, Active
<1>8. CASE CallGetmany(i)
  BY <1>8, <1>a, <1>b DEF CallGetmany, loopVars, Active
<1>9. CASE GetmanyReturns(i)
  BY <1>9, <1>a, <1>b DEF GetmanyReturns, loopVars, Active
<1>10. CASE NothingPending(i)
  BY <1>10, <1>a, <1>b DEF NothingPending, NextTop, loopVars, Active
<1>11. CASE StartPendingTokens(i)
  BY <1>11, <1>a, <1>b DEF StartPendingTokens, CloseTasks, NextTop, Everywhere,
     loopVars, Active
<1>12. ASSUME NEW t \in Partition, StartTask(i, t) PROVE local'[i][d] = 0
  BY <1>12, <1>a, <1>b DEF StartTask, loopVars, Active
<1>13. CASE Restore(i)
  BY <1>13, <1>a, <1>b DEF Restore, loopVars, Active
<1>14. CASE PollCycle(i)
  BY <1>14, <1>a, <1>b DEF PollCycle, loopVars, Active
<1>15. ASSUME NEW c \in Config, PollOne(i, c) PROVE local'[i][d] = 0
  BY <1>15, <1>a, <1>b DEF PollOne, loopVars, Active
<1>16. ASSUME NEW c \in Config, YieldMessage(i, c) PROVE local'[i][d] = 0
  BY <1>16, <1>a, <1>b DEF YieldMessage, loopVars, Active
<1>17. ASSUME NEW c \in Config, YieldState(i, c) PROVE local'[i][d] = 0
  BY <1>17, <1>a, <1>b DEF YieldState, loopVars, Active
<1>18. ASSUME NEW c \in Config, CommitPage(i, c) PROVE local'[i][d] = 0
  BY <1>18, <1>a, <1>b DEF CommitPage, loopVars, Active
<1>19. ASSUME NEW c \in Config, PollCompletes(i, c) PROVE local'[i][d] = 0
  BY <1>19, <1>a, <1>b DEF PollCompletes, loopVars, Active
<1>20. ASSUME NEW c \in Config, PollFails(i, c) PROVE local'[i][d] = 0
  BY <1>20, <1>a, <1>b DEF PollFails, loopVars, Active
<1>21. ASSUME NEW c \in Config, PollFenced(i, c) PROVE local'[i][d] = 0
  BY <1>21, <1>a, <1>b DEF PollFenced, loopVars, Active
<1>22. ASSUME NEW c \in Config, CancelPoll(i, c) PROVE local'[i][d] = 0
  BY <1>22, <1>a, <1>b DEF CancelPoll, loopVars, Active
<1>23. ASSUME NEW c \in Config, CancelCommit(i, c) PROVE local'[i][d] = 0
  BY <1>23, <1>a, <1>b DEF CancelCommit, loopVars, Active
<1>24. CASE Interrupt(i)
  BY <1>24, <1>a, <1>b DEF Interrupt, loopVars, Active
<1>25. CASE Exit(i)
  BY <1>25, <1>a, <1>b DEF Exit, ProcessGone, Everywhere, loopVars, Active
<1>26. CASE Crash(i)
  BY <1>26, <1>a, <1>b DEF Crash, ProcessGone, Everywhere, loopVars, Active
<1>27. CASE Restart(i)
  BY <1>27, <1>a, <1>b DEF Restart, loopVars, Active
<1>28. CASE GroupStep(i)
  BY <1>28, <1>a, <1>b DEF GroupStep, loopVars, Active
<1> QED BY <1>1, <1>2, <1>3, <1>4, <1>5, <1>6, <1>7, <1>8, <1>9, <1>10, <1>11, <1>12,
     <1>13, <1>14, <1>15, <1>16, <1>17, <1>18, <1>19, <1>20, <1>21, <1>22, <1>23, <1>24,
     <1>25, <1>26, <1>27, <1>28
     DEF StepOf, ListenerStep, LoopStep, CycleStep, PollStep, Lifecycle

-----------------------------------------------------------------------------
(* What becomes visible downstream *)

\* One page of config c is committed: its items and its cursor.
PageCommitted(c, to) ==
    /\ Durable(c) < to /\ Durable(c)' = to
    /\ \A d \in Config \ {c} : Durable(d)' = Durable(d)
    /\ output' = [output EXCEPT ![c] = @ \o Items(Durable(c), to)]

NothingCommitted == output' = output /\ \A c \in Config : Durable(c)' = Durable(c)

\* A poll step commits the page it has in hand, or nothing.
LEMMA PollCommits ==
    ASSUME Types, LogsInOrder, OwnState, NEW i \in Instance, PageInHand(i),
           NEW c \in Config, PollStep(i, c), OwnLog
    PROVE  NothingCommitted \/ \E to \in 1..NumItems : PageCommitted(c, to)
<1>a. /\ Token(c) \in Partition /\ base[i][c] \in Cursor /\ cursor[i][c] \in Cursor
  BY TypeFacts DEF PollTypeOK
<1>1. ASSUME UNCHANGED brokerVars PROVE NothingCommitted
  BY <1>1, BrokersRest DEF NothingCommitted
<1>2. ASSUME AbortTxn(i, Token(c)) PROVE NothingCommitted
  <2>1. output' = output
    BY <1>2 DEF AbortTxn, brokerVars
  <2> QED BY <1>2, <1>a, <2>1, AbortTxnRest DEF NothingCommitted
<1>3. ASSUME poll[i][c] = "closing", CommitTxn(i, Token(c))
      PROVE  \E to \in 1..NumItems : PageCommitted(c, to)
  <2>1. PICK from \in Cursor, to \in Cursor : PageSent(c, from, to)
    BY <1>3, <1>a, PageOfPoll DEF CommitTxn
  <2>2. Durable(c) = from /\ from < to /\ to \in 1..NumItems
    BY <2>1, PageLogAssumption DEF PageSent, Behind, Cursor
  <2>3. PageCommitted(c, to)
    BY <1>3, <2>1, <2>2, CommitTxnRest DEF PageCommitted
  <2> QED BY <2>2, <2>3
<1>4. CASE YieldMessage(i, c)
  <2>1. /\ cursor[i][c] + 1 \in Cursor /\ SendItem(i, c, cursor[i][c] + 1)
        /\ output' = output
    BY <1>4, <1>a, PageLogAssumption DEF YieldMessage, SendItem, Cursor
  <2> QED BY <1>a, <2>1, SendItemRest DEF NothingCommitted
<1>5. CASE YieldState(i, c)
  <2>1. PICK from \in Cursor, to \in Cursor : from = base[i][c] /\ to = cursor[i][c]
    BY <1>a
  <2>2. /\ poll[i][c] = "paging" /\ SendState(i, KeyOf[c], NewState(i, c))
        /\ holder[Token(c)] = i /\ from < to /\ output' = output
    BY <1>5, <2>1, Layout, PageLogAssumption DEF YieldState, SendState, Cursor
  <2>3. PageOpen(c, from, to)
    BY <2>1, <2>2, PageOfPoll
  <2> QED BY <2>1, <2>2, <2>3, SendStateRest DEF NothingCommitted
<1>6. CASE CommitPage(i, c)
  BY <1>6, <1>3 DEF CommitPage
<1>7. CASE PollFails(i, c)
  BY <1>7, <1>2 DEF PollFails
<1>8. CASE CancelPoll(i, c)
  BY <1>8, <1>1, <1>2 DEF CancelPoll
<1>9. CASE CancelCommit(i, c)
  BY <1>9, <1>1, <1>3 DEF CancelCommit
<1>10. CASE PollOne(i, c) \/ PollCompletes(i, c) \/ PollFenced(i, c)
  BY <1>10, <1>1 DEF PollOne, PollCompletes, PollFenced
<1> QED BY <1>4, <1>5, <1>6, <1>7, <1>8, <1>9, <1>10 DEF PollStep

\* Every step commits one page of one config, or nothing.
LEMMA OnePageAtATime ==
    ASSUME LeaseInv, PageInv, OwnState, OwnLog, Next
    PROVE  /\ LogsInOrder'
           /\ \/ NothingCommitted
              \/ \E c \in Config : \E to \in 1..NumItems : PageCommitted(c, to)
<1>a. Types /\ LogsInOrder /\ \A i \in Instance : PagesOf(i) /\ PageInHand(i)
  BY DEF LeaseInv, PageInv, PagesOf
<1>b. ASSUME UNCHANGED brokerVars PROVE LogsInOrder' /\ NothingCommitted
  BY <1>a, <1>b, BrokersRest DEF NothingCommitted
<1>c. ASSUME NEW i \in Instance, NEW t \in Partition, StartTask(i, t)
      PROVE  LogsInOrder' /\ NothingCommitted
  <2>1. InitProducerId(i, t) /\ output' = output
    BY <1>c DEF StartTask, InitProducerId
  <2> QED BY <1>a, <2>1, InitProducerIdRest DEF NothingCommitted
<1>d. ASSUME NEW t \in Partition, PageTimesOut(t)
      PROVE  LogsInOrder' /\ NothingCommitted
  <2>1. TxnTimeout(t) /\ output' = output
    BY <1>d DEF PageTimesOut, TxnTimeout
  <2> QED BY <1>a, <2>1, TxnTimeoutRest DEF NothingCommitted
<1>e. ASSUME NEW i \in Instance, NEW c \in Config, PollStep(i, c)
      PROVE  /\ LogsInOrder'
             /\ \/ NothingCommitted
                \/ \E to \in 1..NumItems : PageCommitted(c, to)
  BY <1>a, <1>e, PollRest, PollCommits
<1>1. ASSUME NEW i \in Instance, OnRevokedStandby(i) PROVE UNCHANGED brokerVars
  BY <1>1 DEF OnRevokedStandby
<1>2. ASSUME NEW i \in Instance, OnRevoked(i) PROVE UNCHANGED brokerVars
  BY <1>2 DEF OnRevoked
<1>3. ASSUME NEW i \in Instance, SuspendTokens(i) PROVE UNCHANGED brokerVars
  BY <1>3 DEF SuspendTokens
<1>4. ASSUME NEW i \in Instance, SuspendTokensFails(i) PROVE UNCHANGED brokerVars
  BY <1>4 DEF SuspendTokensFails
<1>5. ASSUME NEW i \in Instance, OnRevokedAfterFailure(i) PROVE UNCHANGED brokerVars
  BY <1>5 DEF OnRevokedAfterFailure
<1>6. ASSUME NEW i \in Instance, OnRevokedAgain(i) PROVE UNCHANGED brokerVars
  BY <1>6 DEF OnRevokedAgain
<1>7. ASSUME NEW i \in Instance, OnAssigned(i) PROVE UNCHANGED brokerVars
  BY <1>7 DEF OnAssigned
<1>8. ASSUME NEW i \in Instance, CallGetmany(i) PROVE UNCHANGED brokerVars
  BY <1>8 DEF CallGetmany
<1>9. ASSUME NEW i \in Instance, GetmanyReturns(i) PROVE UNCHANGED brokerVars
  BY <1>9 DEF GetmanyReturns
<1>10. ASSUME NEW i \in Instance, NothingPending(i) PROVE UNCHANGED brokerVars
  BY <1>10 DEF NothingPending
<1>11. ASSUME NEW i \in Instance, StartPendingTokens(i) PROVE UNCHANGED brokerVars
  BY <1>11 DEF StartPendingTokens
<1>12. ASSUME NEW i \in Instance, Restore(i) PROVE UNCHANGED brokerVars
  BY <1>12 DEF Restore
<1>13. ASSUME NEW i \in Instance, PollCycle(i) PROVE UNCHANGED brokerVars
  BY <1>13 DEF PollCycle
<1>14. ASSUME NEW i \in Instance, Interrupt(i) PROVE UNCHANGED brokerVars
  BY <1>14 DEF Interrupt
<1>15. ASSUME NEW i \in Instance, Exit(i) PROVE UNCHANGED brokerVars
  BY <1>15 DEF Exit, ProcessGone
<1>16. ASSUME NEW i \in Instance, Crash(i) PROVE UNCHANGED brokerVars
  BY <1>16 DEF Crash, ProcessGone
<1>17. ASSUME NEW i \in Instance, Restart(i) PROVE UNCHANGED brokerVars
  BY <1>17 DEF Restart
<1>18. ASSUME NEW i \in Instance, GroupStep(i) PROVE UNCHANGED brokerVars
  BY <1>18 DEF GroupStep
<1>19. ASSUME RebalanceCompletes PROVE UNCHANGED brokerVars
  BY <1>19 DEF RebalanceCompletes
<1> QED BY <1>b, <1>c, <1>d, <1>e, <1>1, <1>2, <1>3, <1>4, <1>5, <1>6, <1>7, <1>8, <1>9,
     <1>10, <1>11, <1>12, <1>13, <1>14, <1>15, <1>16, <1>17, <1>18, <1>19
     DEF Next, ListenerStep, LoopStep, CycleStep, Lifecycle

-----------------------------------------------------------------------------
(* The theorems *)

\* What has become visible stays the items behind the committed cursor.
LEMMA ExactlyOnceStep ==
    ASSUME LeaseInv, PageInv, OwnState, OwnLog, Next
    PROVE  ExactlyOnce'
<1>1. \A n \in Nat : Items(0, n) = [m \in 1..n |-> m]
  <2> SUFFICES ASSUME NEW n \in Nat PROVE Items(0, n) = [m \in 1..n |-> m]
    OBVIOUS
  <2>1. n - 0 = n
    OBVIOUS
  <2>2. Items(0, n) = [m \in 1..n |-> 0 + m]
    BY <2>1 DEF Items
  <2> QED BY <2>2
<1>2. \A c \in Config : Durable(c) \in Nat /\ output[c] = Items(0, Durable(c))
  <2> SUFFICES ASSUME NEW c \in Config
               PROVE  Durable(c) \in Nat /\ output[c] = Items(0, Durable(c))
    OBVIOUS
  <2>1. Durable(c) \in Nat
    BY DurableType, PageLogAssumption DEF LeaseInv, Cursor
  <2> QED BY <1>1, <2>1 DEF PageInv, ExactlyOnce
<1>3. CASE NothingCommitted
  BY <1>3 DEF NothingCommitted, PageInv, ExactlyOnce
<1>4. ASSUME NEW c \in Config, NEW to \in 1..NumItems, PageCommitted(c, to)
      PROVE  ExactlyOnce'
  <2> SUFFICES ASSUME NEW d \in Config PROVE output'[d] = [m \in 1..Durable(d)' |-> m]
    BY DEF ExactlyOnce
  <2>1. output \in [Config -> Seq(1..NumItems)]
    BY TypeFacts DEF LeaseInv
  <2>2. CASE d = c
    <3>1. output'[d] = Items(0, Durable(d)) \o Items(Durable(d), to) /\ Durable(d)' = to
      BY <1>2, <1>4, <2>1, <2>2 DEF PageCommitted
    <3>2. Durable(d) \in Nat /\ to \in Nat /\ Durable(d) <= to
      BY <1>2, <1>4, <2>2 DEF PageCommitted
    <3>3. output'[d] = Items(0, to)
      BY <3>1, <3>2, ItemsJoin
    <3> QED BY <1>1, <3>1, <3>2, <3>3
  <2>3. CASE d # c
    <3>1. output'[d] = output[d] /\ Durable(d)' = Durable(d)
      BY <1>4, <2>1, <2>3 DEF PageCommitted
    <3> QED BY <3>1 DEF PageInv, ExactlyOnce
  <2> QED BY <2>2, <2>3
<1> QED BY <1>3, <1>4, OnePageAtATime

\* Every step keeps the invariant.
LEMMA PageInvStep ==
    ASSUME LeaseInv, PageInv, OwnState, OwnLog, Next
    PROVE  PageInv'
<1>a. /\ Types /\ RunnerTypeOK /\ PollTypeOK /\ LogsInOrder
      /\ \A i \in Instance : PagesOf(i) /\ i # None
  BY TypeFacts DEF LeaseInv, PageInv
<1> SUFFICES ASSUME NEW j \in Instance PROVE PagesOf(j)'
  BY OnePageAtATime, ExactlyOnceStep DEF PageInv
<1>1. ASSUME NEW i \in Instance, StepOf(i) PROVE PagesOf(j)'
  <2>1. CASE j = i
    <3>1. WipedBeforeRestore(i)
      BY <1>a DEF PagesOf
    <3> QED BY <1>a, <1>1, <2>1, <3>1, CleanBetweenStep, PageInHandStep, LocalCurrentStep,
               WipedStep DEF PagesOf
  <2>2. CASE j # i
    BY <1>a, <1>1, <2>2, OthersKept, BystanderStep
  <2> QED BY <2>1, <2>2
<1>2. ASSUME NEW t \in Partition, PageTimesOut(t) PROVE PagesOf(j)'
  <2>1. TxnTimeout(t) /\ SameAt(j)
    BY <1>2 DEF PageTimesOut, SameAt, loopVars, cycleVars, pollVars
  <2>2. \A u \in Partition : holder'[u] = j => Kept(u)
    BY <1>a, <2>1, TxnTimeoutRest DEF Aside
  <2> QED BY <1>a, <2>1, <2>2, BystanderStep
<1>3. ASSUME RebalanceCompletes PROVE PagesOf(j)'
  <2>1. UNCHANGED brokerVars /\ SameAt(j)
    BY <1>3 DEF RebalanceCompletes, SameAt, loopVars, cycleVars, pollVars
  <2> QED BY <1>a, <2>1, BrokersRest, BystanderStep
<1> QED BY <1>1, <1>2, <1>3 DEF Next, StepOf

\* The invariant holds before the first instance starts.
LEMMA PageInvInit ==
    ASSUME Init
    PROVE  PageInv
<1>1. \A l \in Log : log[l] = {}
  BY DEF Init, BrokerInit
<1>2. LogsInOrder
  BY <1>1 DEF LogsInOrder
<1>3. ASSUME NEW i \in Instance PROVE PagesOf(i)
  BY DEF Init, Everywhere, PagesOf, CleanBetween, Between, PageInHand, Active, LocalCurrent,
     MayPoll, WipedBeforeRestore
<1>4. ExactlyOnce
  <2> SUFFICES ASSUME NEW c \in Config PROVE output[c] = [n \in 1..Durable(c) |-> n]
    BY DEF ExactlyOnce
  <2>1. Committed(c) = {}
    BY <1>1, Layout DEF Committed
  <2>2. Durable(c) = 0
    BY <2>1, DurableIs DEF LastCursor
  <2>3. output[c] = <<>> /\ 1..0 = {}
    BY DEF Init, BrokerInit
  <2> QED BY <2>2, <2>3
<1> QED BY <1>2, <1>3, <1>4 DEF PageInv

\* A step that changes nothing keeps the invariant.
LEMMA PageInvStutters ==
    ASSUME LeaseInv, PageInv, UNCHANGED vars
    PROVE  PageInv'
<1>1. UNCHANGED brokerVars
  BY DEF vars
<1>2. \A c \in Config : Durable(c)' = Durable(c) /\ output' = output
  BY <1>1, BrokersRest
<1>3. LogsInOrder' /\ ExactlyOnce'
  BY <1>1, <1>2, BrokersRest DEF PageInv, ExactlyOnce
<1>4. ASSUME NEW i \in Instance PROVE PagesOf(i)'
  <2>1. SameAt(i)
    BY DEF vars, loopVars, cycleVars, pollVars, SameAt
  <2> QED BY <1>1, <2>1, BrokersRest, BystanderStep DEF PageInv
<1> QED BY <1>3, <1>4 DEF PageInv

\* The inductive invariant of the pages: whose transactions are clean, what a page
\* in hand holds, which local cursors are current, and what is downstream - with
\* any number of instances, rebalances, evictions, crashes and timeouts.
THEOREM PageInvariance ==
    ASSUME OwnState, OwnLog
    PROVE  Spec => []PageInv
<1>1. LeaseInv /\ PageInv /\ [Next]_vars => PageInv'
  BY PageInvStep, PageInvStutters
<1> QED BY <1>1, PageInvInit, LeaseInvariance, PTL DEF Spec

\* From cursor to Kafka exactly-once (ExtractorRunner's docstring): downstream
\* holds the items behind each config's committed cursor, once and in order.
THEOREM PagesExactlyOnce ==
    ASSUME OwnState, OwnLog
    PROVE  Spec => []ExactlyOnce
<1>1. PageInv => ExactlyOnce
  BY DEF PageInv
<1> QED BY <1>1, PageInvariance, PTL

\* No cursor is committed ahead of the items it accounts for (Extractor.poll).
THEOREM CursorNeverAhead ==
    ASSUME OwnState, OwnLog
    PROVE  Spec => []NoItemSkipped
<1>1. PageInv => NoItemSkipped
  BY DEF PageInv, ExactlyOnce, NoItemSkipped, ToSet
<1> QED BY <1>1, PageInvariance, PTL

\* A poll about to start on an unfenced token reads the committed cursor: nothing
\* of an aborted page or of an earlier generation is left in the local store.
THEOREM PollsReadCommitted ==
    ASSUME OwnState, OwnLog
    PROVE  Spec => []ReadsCommitted
<1>1. LeaseInv /\ PageInv => ReadsCommitted
  <2> SUFFICES ASSUME LeaseInv, PageInv, NEW i \in Instance, NEW c \in Config,
                      poll[i][c] = "queued", cycle[i] = "polling", pc[i] # "unwinding",
                      holder[Token(c)] = i
               PROVE  local[i][c] = Durable(c)
    BY DEF ReadsCommitted
  <2>1. Token(c) \in tokens[i]
    BY DEF LeaseInv, Control, PollsOwned, Unwinding
  <2> QED BY <2>1 DEF PageInv, PagesOf, LocalCurrent, MayPoll, Unwinding
<1> QED BY <1>1, PageInvariance, LeaseInvariance, PTL

\* The extractor implements its abstract specification: every step commits one page
\* that starts where the committed cursor stands, or changes nothing downstream.
THEOREM ImplementsExtraction ==
    ASSUME OwnState, OwnLog
    PROVE  Spec => ExtractsExactlyOnce
<1>1. Init => Source!Init
  <2> SUFFICES ASSUME Init PROVE Source!Init
    OBVIOUS
  <2>1. ASSUME NEW c \in Config PROVE Durable(c) = 0
    <3>1. Committed(c) = {}
      BY Layout DEF Init, BrokerInit, Committed
    <3> QED BY <3>1, DurableIs DEF LastCursor
  <2> QED BY <2>1 DEF Init, BrokerInit, Source!Init
<1>2. LeaseInv /\ PageInv /\ [Next]_vars => [Source!Next]_Source!vars
  <2> SUFFICES ASSUME LeaseInv, PageInv, [Next]_vars
               PROVE  Source!Next \/ UNCHANGED Source!vars
    OBVIOUS
  <2> DEFINE cursors == [c \in Config |-> Durable(c)]
  <2>1. CASE NothingCommitted
    BY <2>1 DEF NothingCommitted, Source!vars
  <2>2. ASSUME NEW c \in Config, NEW to \in 1..NumItems, PageCommitted(c, to)
        PROVE  Source!Next
    <3>1. cursors[c] < to /\ cursors' = [cursors EXCEPT ![c] = to]
      BY <2>2 DEF PageCommitted
    <3>2. output' = [output EXCEPT ![c] =
                        @ \o [n \in 1..(to - cursors[c]) |-> cursors[c] + n]]
      BY <2>2 DEF PageCommitted, Items
    <3> QED BY <3>1, <3>2 DEF Source!Next, Source!Page
  <2>3. CASE UNCHANGED vars
    <3>1. NothingCommitted
      BY <2>3, BrokersRest DEF vars, NothingCommitted
    <3> QED BY <2>1, <3>1
  <2> QED BY <2>1, <2>2, <2>3, OnePageAtATime
<1> QED BY <1>1, <1>2, PageInvariance, LeaseInvariance, PTL
        DEF Spec, ExtractsExactlyOnce, Source!Spec
====

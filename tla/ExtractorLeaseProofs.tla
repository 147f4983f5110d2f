---- MODULE ExtractorLeaseProofs ----
(***************************************************************************)
(* What holds of the extractor's tokens and threads for every value of its *)
(* constants, however configs share state keys, tokens and changelog       *)
(* partitions: its types, the revoke barrier, and - until a live member is *)
(* evicted - one owner per token.                                          *)
(*                                                                         *)
(* Control(i) is what the three threads of control of an instance know of  *)
(* each other.  Its core: a token is only handed back, or taken, while no  *)
(* cycle runs, and a cycle that is not polling has no poll in flight.      *)
(***************************************************************************)
EXTENDS Extractor, FiniteSetTheorems, TLAPS

-----------------------------------------------------------------------------
(* Records of a changelog partition *)

\* A family of finite sets has a member that contains no other.
LEMMA MinimalMember ==
    ASSUME NEW F, F # {}, \A S \in F : IsFiniteSet(S)
    PROVE  \E S \in F : \A T \in F : T \subseteq S => T = S
<1> DEFINE U == UNION F
<1>1. F \subseteq FiniteSubsetsOf(U)
  BY DEF FiniteSubsetsOf
<1>2. PICK S \in F : \A T \in F : ~(<<T, S>> \in StrictSubsetOrdering(U))
  BY <1>1, FS_StrictSubsetOrderingWellFounded, WFMin
<1>3. ASSUME NEW T \in F, T \subseteq S PROVE T = S
  BY <1>2, <1>3 DEF StrictSubsetOrdering
<1> QED BY <1>3

\* Numbers below a bound have a greatest one: a last record exists.
LEMMA GreatestExists ==
    ASSUME NEW S \in SUBSET Nat, S # {}, NEW b \in Nat, \A x \in S : x <= b
    PROVE  \E m \in S : \A x \in S : x <= m
<1> DEFINE Above(x) == {y \in S : x <= y}
           F == {Above(x) : x \in S}
<1>1. \A T \in F : IsFiniteSet(T)
  <2>1. IsFiniteSet(0..b)
    BY FS_Interval
  <2>2. \A T \in F : T \in SUBSET (0..b)
    <3>1. \A y \in S : y \in 0..b
      OBVIOUS
    <3>2. \A x \in S : \A y \in Above(x) : y \in S
      OBVIOUS
    <3> QED BY <3>1, <3>2
  <2>3. \A T \in SUBSET (0..b) : IsFiniteSet(T)
    BY <2>1, FS_Subset
  <2> HIDE DEF F
  <2> QED BY <2>2, <2>3
<1>2. F # {}
  OBVIOUS
<1>3. \E T \in F : \A V \in F : V \subseteq T => V = T
  <2> HIDE DEF F
  <2> QED BY <1>1, <1>2, MinimalMember
<1>4. PICK m \in S : \A x \in S : Above(x) \subseteq Above(m) => Above(x) = Above(m)
  <2>1. PICK T \in F : \A V \in F : V \subseteq T => V = T
    BY <1>3
  <2>2. PICK m \in S : T = Above(m)
    OBVIOUS
  <2>3. \A x \in S : Above(x) \in F
    OBVIOUS
  <2> HIDE DEF F, Above
  <2> QED BY <2>1, <2>2, <2>3
<1>5. ASSUME NEW x \in S, ~(x <= m) PROVE FALSE
  <2>1. x \in Nat /\ m \in Nat /\ m < x
    BY <1>5
  <2>2. Above(x) \subseteq Above(m)
    <3> SUFFICES ASSUME NEW y \in S, x <= y PROVE m <= y
      OBVIOUS
    <3> QED BY <2>1
  <2>3. m \in Above(m) /\ m \notin Above(x)
    BY <2>1
  <2> QED BY <1>4, <2>2, <2>3
<1> QED BY <1>5

\* The offsets in each partition are bounded: its records are finitely many.
Bounded == \A l \in Log : \E b \in Nat : \A r \in log[l] : r.at <= b

\* What BrokerTypeOK says of a record.
LEMMA RecordFields ==
    ASSUME BrokerTypeOK, NEW l \in Log, NEW r \in log[l]
    PROVE  /\ r.at \in Nat /\ r.key \in StateKey /\ r.open \in BOOLEAN
           /\ l = LogOf[r.key]
           /\ r \in LogRecord(r.key)
           /\ r.cursors \in [ConfigsOf(r.key) -> Cursor]
<1>1. PICK k \in StateKey : l = LogOf[k] /\ r \in LogRecord(k)
  BY DEF BrokerTypeOK
<1>2. r.key = k
  BY <1>1 DEF LogRecord
<1> QED BY <1>1, <1>2 DEF LogRecord

\* Some records of a partition have a last one.
LEMMA LastExists ==
    ASSUME BrokerTypeOK, Bounded, NEW l \in Log, NEW R \in SUBSET log[l], R # {}
    PROVE  \E r \in R : \A s \in R : s.at <= r.at
<1> DEFINE Ats == {r.at : r \in R}
<1>1. PICK b \in Nat : \A r \in log[l] : r.at <= b
  BY DEF Bounded
<1>2. Ats \in SUBSET Nat /\ Ats # {} /\ \A x \in Ats : x <= b
  BY <1>1, RecordFields
<1>3. \E m \in Ats : \A x \in Ats : x <= m
  <2> HIDE DEF Ats
  <2> QED BY <1>2, GreatestExists
<1> QED BY <1>3

\* The end of a partition lies behind every record.
LEMMA EndOffsetBehind ==
    ASSUME BrokerTypeOK, Bounded, NEW l \in Log
    PROVE  EndOffset(l) \in Nat /\ \A r \in log[l] : r.at < EndOffset(l)
<1>1. CASE log[l] = {}
  BY <1>1 DEF EndOffset
<1>2. CASE log[l] # {}
  <2> DEFINE Ats == {r.at : r \in log[l]}
  <2>1. PICK r \in log[l] : \A s \in log[l] : s.at <= r.at
    BY <1>2, LastExists
  <2>2. Ats \in SUBSET Nat
    BY RecordFields
  <2>3. \E m \in Ats : \A x \in Ats : m >= x
    BY <2>1, <2>2
  <2>4. Max(Ats) \in Ats /\ \A x \in Ats : Max(Ats) >= x
    <3> HIDE DEF Ats
    <3> QED BY <2>3 DEF Max
  <2>5. EndOffset(l) = 1 + Max(Ats)
    BY <1>2 DEF EndOffset
  <2>6. Max(Ats) \in Nat
    BY <2>2, <2>4
  <2>7. \A s \in log[l] : s.at \in Ats /\ s.at \in Nat
    BY RecordFields
  <2> HIDE DEF Ats
  <2> QED BY <2>4, <2>5, <2>6, <2>7
<1> QED BY <1>1, <1>2

\* A state key's cursors are cursors, whatever records they are read from.
LEMMA StateInType ==
    ASSUME BrokerTypeOK, Bounded, NEW l \in Log, NEW R \in SUBSET log[l], NEW c \in Config
    PROVE  StateIn(R, KeyOf[c])[c] \in Cursor
<1> DEFINE k == KeyOf[c]
           of == {r \in R : r.key = k}
<1>1. c \in ConfigsOf(k) /\ 0 \in Cursor
  BY PageLogAssumption DEF ConfigsOf, Cursor
<1>2. CASE of = {}
  BY <1>1, <1>2 DEF StateIn
<1>3. CASE of # {}
  <2> DEFINE last == CHOOSE r \in of : \A s \in of : s.at <= r.at
  <2>1. of \in SUBSET log[l]
    OBVIOUS
  <2>2. last \in of
    <3> HIDE DEF of
    <3>1. \E r \in of : \A s \in of : s.at <= r.at
      BY <1>3, <2>1, LastExists
    <3> QED BY <3>1
  <2>3. last.cursors \in [ConfigsOf(k) -> Cursor]
    BY <2>2, RecordFields
  <2>4. StateIn(R, k) = last.cursors
    BY <1>3 DEF StateIn
  <2> HIDE DEF last
  <2> QED BY <1>1, <2>3, <2>4
<1> QED BY <1>2, <1>3

-----------------------------------------------------------------------------
(* Types *)

Types == TypeOK /\ Bounded

\* No transaction at all has the type of a transaction.
LEMMA NoTxnType == NoTxn \in [open : BOOLEAN, sent : [Config -> Seq(1..NumItems)]]
<1>1. <<>> \in Seq(1..NumItems)
  OBVIOUS
<1> QED BY <1>1 DEF NoTxn

\* A step that leaves the brokers alone leaves their types alone.
LEMMA BrokerSame ==
    ASSUME BrokerTypeOK, Bounded, UNCHANGED brokerVars
    PROVE  BrokerTypeOK' /\ Bounded'
  BY DEF BrokerTypeOK, Bounded, brokerVars

\* Dropping a transaction's records keeps the types of the others.
LEMMA DropType ==
    ASSUME BrokerTypeOK, Bounded, NEW t, Drop(t)
    PROVE  /\ DOMAIN log' = Log
           /\ \A l \in Log : \A r \in log'[l] :
                  \E k \in StateKey : l = LogOf[k] /\ r \in LogRecord(k)
           /\ Bounded'
<1>1. \A l \in Log : log'[l] \subseteq log[l]
  BY DEF Drop
<1>2. DOMAIN log' = Log
  BY DEF Drop
<1> QED BY <1>1, <1>2 DEF BrokerTypeOK, Bounded

\* A record that is settled keeps everything but its being open.
LEMMA SettledFields ==
    ASSUME BrokerTypeOK, NEW l \in Log, NEW r \in log[l], NEW t
    PROVE  /\ Settled(r, t).at = r.at /\ Settled(r, t).key = r.key
           /\ Settled(r, t).cursors = r.cursors
           /\ Settled(r, t).open = (r.open /\ TokenOf[r.key] # t)
           /\ Settled(r, t) \in LogRecord(r.key)
<1>1. /\ r.open \in BOOLEAN
      /\ r \in [at : Nat, key : {r.key}, cursors : [ConfigsOf(r.key) -> Cursor], open : BOOLEAN]
  BY RecordFields DEF LogRecord
<1>2. CASE TokenOf[r.key] = t
  BY <1>1, <1>2 DEF Settled, LogRecord
<1>3. CASE TokenOf[r.key] # t
  BY <1>1, <1>3 DEF Settled, LogRecord
<1> QED BY <1>2, <1>3

\* Settling a transaction's records keeps their types.
LEMMA SettleType ==
    ASSUME BrokerTypeOK, Bounded, NEW t, Settle(t)
    PROVE  /\ DOMAIN log' = Log
           /\ \A l \in Log : \A r \in log'[l] :
                  \E k \in StateKey : l = LogOf[k] /\ r \in LogRecord(k)
           /\ Bounded'
<1>1. DOMAIN log' = Log /\ \A l \in Log : log'[l] = {Settled(r, t) : r \in log[l]}
  BY DEF Settle
<1>2. ASSUME NEW l \in Log, NEW r \in log'[l]
      PROVE  \E s \in log[l] : /\ r.at = s.at
                               /\ s.key \in StateKey /\ l = LogOf[s.key] /\ r \in LogRecord(s.key)
  <2>1. PICK s \in log[l] : r = Settled(s, t)
    BY <1>1, <1>2
  <2> QED BY <2>1, SettledFields, RecordFields
<1> QED BY <1>1, <1>2 DEF Bounded

\* The operations of the brokers keep their types.
LEMMA InitProducerIdType ==
    ASSUME BrokerTypeOK, Bounded, NEW i \in Instance, NEW t \in Partition, InitProducerId(i, t)
    PROVE  BrokerTypeOK' /\ Bounded'
  BY DropType, NoTxnType DEF InitProducerId, BrokerTypeOK

LEMMA AbortTxnType ==
    ASSUME BrokerTypeOK, Bounded, NEW i \in Instance, NEW t \in Partition, AbortTxn(i, t)
    PROVE  BrokerTypeOK' /\ Bounded'
<1>1. CASE holder[t] = i
  BY <1>1, DropType, NoTxnType DEF AbortTxn, BrokerTypeOK
<1>2. CASE holder[t] # i
  BY <1>2, BrokerSame DEF AbortTxn
<1> QED BY <1>1, <1>2

LEMMA TxnTimeoutType ==
    ASSUME BrokerTypeOK, Bounded, NEW t \in Partition, TxnTimeout(t)
    PROVE  BrokerTypeOK' /\ Bounded'
  BY DropType, NoTxnType DEF TxnTimeout, BrokerTypeOK

LEMMA SendItemType ==
    ASSUME BrokerTypeOK, Bounded, NEW i \in Instance, NEW c \in Config,
           NEW item \in 1..NumItems, SendItem(i, c, item)
    PROVE  BrokerTypeOK' /\ Bounded'
<1>1. Token(c) \in Partition
  BY PageLogAssumption DEF Token
<1>2. Append(txn[Token(c)].sent[c], item) \in Seq(1..NumItems)
  BY <1>1 DEF BrokerTypeOK
<1>3. txn' \in [Partition -> [open : BOOLEAN, sent : [Config -> Seq(1..NumItems)]]]
  BY <1>1, <1>2 DEF BrokerTypeOK, SendItem
<1> QED BY <1>3 DEF SendItem, BrokerTypeOK, Bounded

LEMMA SendStateType ==
    ASSUME BrokerTypeOK, Bounded, NEW i \in Instance, NEW k \in StateKey,
           NEW cursors \in [ConfigsOf(k) -> Cursor], SendState(i, k, cursors)
    PROVE  BrokerTypeOK' /\ Bounded'
<1> DEFINE l == LogOf[k]
           r == [at |-> EndOffset(l), key |-> k, cursors |-> cursors, open |-> TRUE]
<1>1. l \in Log
  BY DEF Log
<1>2. EndOffset(l) \in Nat /\ \A s \in log[l] : s.at < EndOffset(l)
  BY <1>1, EndOffsetBehind
<1>3. r \in LogRecord(k)
  BY <1>2 DEF LogRecord
<1>4. /\ DOMAIN log' = Log
      /\ log'[l] = log[l] \cup {r}
      /\ \A m \in Log : m # l => log'[m] = log[m]
  BY <1>1 DEF SendState, BrokerTypeOK
<1>5. \A s \in log'[l] : s.at <= EndOffset(l)
  <2>1. \A s \in log[l] : s.at \in Nat
    BY <1>1, RecordFields
  <2>2. r.at = EndOffset(l)
    OBVIOUS
  <2> HIDE DEF r
  <2> QED BY <1>2, <1>4, <2>1, <2>2
<1> HIDE DEF r
<1>6. Bounded'
  BY <1>2, <1>4, <1>5 DEF Bounded, Log
<1>7. \A m \in Log : \A s \in log'[m] :
          \E kk \in StateKey : m = LogOf[kk] /\ s \in LogRecord(kk)
  <2>1. \A m \in Log : \A s \in log[m] :
            \E kk \in StateKey : m = LogOf[kk] /\ s \in LogRecord(kk)
    BY DEF BrokerTypeOK
  <2>2. \A m \in Log : \A s \in log'[m] : s \in log[m] \/ (m = l /\ s = r)
    BY <1>4
  <2> QED BY <1>3, <2>1, <2>2
<1> QED BY <1>4, <1>6, <1>7 DEF SendState, BrokerTypeOK

LEMMA CommitTxnType ==
    ASSUME BrokerTypeOK, Bounded, NEW i \in Instance, NEW t \in Partition, CommitTxn(i, t)
    PROVE  BrokerTypeOK' /\ Bounded'
<1>1. \A c \in Config : output[c] \o txn[t].sent[c] \in Seq(1..NumItems)
  BY DEF BrokerTypeOK
<1>2. output' \in [Config -> Seq(1..NumItems)]
  BY <1>1 DEF CommitTxn
<1> QED BY <1>2, SettleType, NoTxnType DEF CommitTxn, BrokerTypeOK

\* Every step of the extractor keeps the types.
LEMMA TypeStep ==
    ASSUME Types, Next
    PROVE  Types'
<1> DEFINE Loops == GroupTypeOK /\ RunnerTypeOK /\ PollTypeOK
           Brokers == BrokerTypeOK /\ Bounded
<1> SUFFICES Loops' /\ Brokers'
  BY DEF Types, TypeOK
<1>a. Loops /\ Brokers
  BY DEF Types, TypeOK
<1>b. /\ \A c \in Config : KeyOf[c] \in StateKey /\ Token(c) \in Partition
      /\ 0 \in Cursor
  BY PageLogAssumption DEF Token, Cursor
<1>c. UNCHANGED brokerVars => Brokers'
  BY <1>a, BrokerSame
<1>f. Fault => faults' \in 0..MaxFaults
  BY <1>a, ExtractorAssumption DEF Fault, RunnerTypeOK
<1> HIDE DEF Brokers
<1> USE DEF GroupTypeOK, RunnerTypeOK, PollTypeOK, ListenerPhase, Location, Cycle, Poll
<1>1. ASSUME NEW i \in Instance, OnRevokedStandby(i) PROVE Loops' /\ Brokers'
  BY <1>1, <1>a, <1>b, <1>c DEF OnRevokedStandby, JoinGroup, cycleVars, pollVars
<1>2. ASSUME NEW i \in Instance, OnRevoked(i) PROVE Loops' /\ Brokers'
  BY <1>2, <1>a, <1>b, <1>c DEF OnRevoked, groupVars, pollVars
<1>3. ASSUME NEW i \in Instance, SuspendTokens(i) PROVE Loops' /\ Brokers'
  BY <1>3, <1>a, <1>b, <1>c DEF SuspendTokens, CloseTasks, JoinGroup, Everywhere,
     pollVars
<1>4. ASSUME NEW i \in Instance, SuspendTokensFails(i) PROVE Loops' /\ Brokers'
  BY <1>4, <1>a, <1>b, <1>c, <1>f DEF SuspendTokensFails, JoinGroup, pollVars
<1>5. ASSUME NEW i \in Instance, OnRevokedAfterFailure(i) PROVE Loops' /\ Brokers'
  BY <1>5, <1>a, <1>b, <1>c DEF OnRevokedAfterFailure, JoinGroup, pollVars
<1>6. ASSUME NEW i \in Instance, OnRevokedAgain(i) PROVE Loops' /\ Brokers'
  BY <1>6, <1>a, <1>b, <1>c DEF OnRevokedAgain, CloseTasks, JoinGroup, Everywhere,
     cycleVars, pollVars
<1>7. ASSUME NEW i \in Instance, OnAssigned(i) PROVE Loops' /\ Brokers'
  BY <1>7, <1>a, <1>b, <1>c DEF OnAssigned, TakeAssignment, OwnedBy, cycleVars, pollVars
<1>8. ASSUME NEW i \in Instance, CallGetmany(i) PROVE Loops' /\ Brokers'
  BY <1>8, <1>a, <1>b, <1>c DEF CallGetmany, groupVars, cycleVars, pollVars
<1>9. ASSUME NEW i \in Instance, GetmanyReturns(i) PROVE Loops' /\ Brokers'
  BY <1>9, <1>a, <1>b, <1>c DEF GetmanyReturns, groupVars, cycleVars, pollVars
<1>10. ASSUME NEW i \in Instance, NothingPending(i) PROVE Loops' /\ Brokers'
  BY <1>10, <1>a, <1>b, <1>c DEF NothingPending, NextTop, groupVars, cycleVars, pollVars
<1>11. ASSUME NEW i \in Instance, StartPendingTokens(i) PROVE Loops' /\ Brokers'
  BY <1>11, <1>a, <1>b, <1>c DEF StartPendingTokens, CloseTasks, NextTop, Everywhere,
     groupVars, cycleVars, pollVars
<1>12. ASSUME NEW i \in Instance, NEW t \in Partition, StartTask(i, t)
      PROVE  Loops' /\ Brokers'
  <2>1. Brokers'
    BY <1>12, <1>a, InitProducerIdType DEF StartTask, Brokers
  <2>2. Loops'
    BY <1>12, <1>a, <1>b DEF StartTask, groupVars, cycleVars, pollVars
  <2> QED BY <2>1, <2>2
<1>13. ASSUME NEW i \in Instance, Restore(i) PROVE Loops' /\ Brokers'
  <2>1. \A k \in StateKey : \A c \in Config : KeyOf[c] = k => Restorable(k)[c] \in Cursor
    <3> SUFFICES ASSUME NEW c \in Config PROVE Restorable(KeyOf[c])[c] \in Cursor
      OBVIOUS
    <3>1. LogOf[KeyOf[c]] \in Log
      BY <1>b DEF Log
    <3>2. Stable(LogOf[KeyOf[c]]) \in SUBSET log[LogOf[KeyOf[c]]]
      BY DEF Stable
    <3> QED BY <1>a, <3>1, <3>2, StateInType DEF Restorable, Brokers
  <2>2. Restored(i) \in [Config -> Cursor]
    BY <1>a, <1>b, <2>1 DEF Restored
  <2>3. Loops'
    BY <1>13, <1>a, <2>2 DEF Restore, groupVars, pollVars
  <2> QED BY <1>13, <1>c, <2>3 DEF Restore
<1>14. ASSUME NEW i \in Instance, PollCycle(i) PROVE Loops' /\ Brokers'
  BY <1>14, <1>a, <1>b, <1>c DEF PollCycle, Owned, groupVars, loopVars
<1>15. ASSUME NEW i \in Instance, NEW c \in Config, PollOne(i, c) PROVE Loops' /\ Brokers'
  BY <1>15, <1>a, <1>b, <1>c DEF PollOne, groupVars, loopVars, cycleVars
<1>16. ASSUME NEW i \in Instance, NEW c \in Config, YieldMessage(i, c)
      PROVE  Loops' /\ Brokers'
  <2>0. cursor[i][c] + 1 \in 1..NumItems /\ cursor[i][c] + 1 \in Cursor
    BY <1>16, <1>a, PageLogAssumption DEF YieldMessage, Cursor
  <2>1. Brokers'
    BY <1>16, <1>a, <2>0, SendItemType DEF YieldMessage, Brokers
  <2>2. Loops'
    BY <1>16, <1>a, <1>b, <2>0 DEF YieldMessage, groupVars, loopVars, cycleVars
  <2> QED BY <2>1, <2>2
<1>17. ASSUME NEW i \in Instance, NEW c \in Config, YieldState(i, c)
      PROVE  Loops' /\ Brokers'
  <2>0. NewState(i, c) \in [ConfigsOf(KeyOf[c]) -> Cursor]
    BY <1>a DEF NewState, ConfigsOf
  <2>1. Brokers'
    BY <1>17, <1>a, <1>b, <2>0, SendStateType DEF YieldState, Brokers
  <2>2. Loops'
    BY <1>17, <1>a, <1>b DEF YieldState, groupVars, loopVars, cycleVars
  <2> QED BY <2>1, <2>2
<1>18. ASSUME NEW i \in Instance, NEW c \in Config, CommitPage(i, c)
      PROVE  Loops' /\ Brokers'
  <2>1. Brokers'
    BY <1>18, <1>a, <1>b, CommitTxnType DEF CommitPage, Brokers
  <2>2. Loops'
    BY <1>18, <1>a, <1>b DEF CommitPage, groupVars, loopVars, cycleVars
  <2> QED BY <2>1, <2>2
<1>19. ASSUME NEW i \in Instance, NEW c \in Config, PollCompletes(i, c)
      PROVE  Loops' /\ Brokers'
  BY <1>19, <1>a, <1>b, <1>c DEF PollCompletes, PollEnds, groupVars, loopVars
<1>20. ASSUME NEW i \in Instance, NEW c \in Config, PollFails(i, c) PROVE Loops' /\ Brokers'
  <2>1. Brokers'
    BY <1>20, <1>a, <1>b, AbortTxnType DEF PollFails, Brokers
  <2>2. Loops'
    BY <1>20, <1>a, <1>b, <1>f DEF PollFails, PollEnds, brokerVars, groupVars, loopVars
  <2> QED BY <2>1, <2>2
<1>21. ASSUME NEW i \in Instance, NEW c \in Config, PollFenced(i, c)
      PROVE  Loops' /\ Brokers'
  BY <1>21, <1>a, <1>b, <1>c DEF PollFenced, PollEnds, groupVars, loopVars
<1>22. ASSUME NEW i \in Instance, NEW c \in Config, CancelPoll(i, c)
      PROVE  Loops' /\ Brokers'
  <2>1. Brokers'
    BY <1>22, <1>a, <1>b, <1>c, AbortTxnType DEF CancelPoll, Brokers
  <2>2. Loops'
    BY <1>22, <1>a, <1>b DEF CancelPoll, PollEnds, brokerVars, groupVars, loopVars
  <2> QED BY <2>1, <2>2
<1>23. ASSUME NEW i \in Instance, NEW c \in Config, CancelCommit(i, c)
      PROVE  Loops' /\ Brokers'
  <2>1. Brokers'
    BY <1>23, <1>a, <1>b, <1>c, CommitTxnType DEF CancelCommit, Brokers
  <2>2. Loops'
    BY <1>23, <1>a, <1>b DEF CancelCommit, PollEnds, brokerVars, groupVars, loopVars
  <2> QED BY <2>1, <2>2
<1>24. ASSUME NEW i \in Instance, Interrupt(i) PROVE Loops' /\ Brokers'
  BY <1>24, <1>a, <1>b, <1>c, <1>f DEF Interrupt, groupVars, cycleVars, pollVars
<1>25. ASSUME NEW i \in Instance, Exit(i) PROVE Loops' /\ Brokers'
  BY <1>25, <1>a, <1>b, <1>c DEF Exit, ProcessGone, Disconnect, Everywhere
<1>26. ASSUME NEW i \in Instance, Crash(i) PROVE Loops' /\ Brokers'
  BY <1>26, <1>a, <1>b, <1>c, <1>f DEF Crash, ProcessGone, Disconnect, Everywhere
<1>27. ASSUME NEW i \in Instance, Restart(i) PROVE Loops' /\ Brokers'
  BY <1>27, <1>a, <1>b, <1>c DEF Restart, Subscribe, cycleVars, pollVars
<1>28. ASSUME NEW i \in Instance, GroupStep(i) PROVE Loops' /\ Brokers'
  <2>1. CASE NoticeRebalance(i)
    BY <1>28, <2>1, <1>a, <1>c DEF GroupStep, NoticeRebalance, loopVars, cycleVars, pollVars
  <2>2. CASE SessionExpires(i)
    BY <1>28, <2>2, <1>a, <1>c DEF GroupStep, SessionExpires, RemoveMember, loopVars,
       cycleVars, pollVars
  <2>3. CASE Evict(i)
    BY <1>28, <2>3, <1>a, <1>c, GroupAssumption DEF GroupStep, Evict, RemoveMember, loopVars,
       cycleVars, pollVars
  <2> QED BY <1>28, <2>1, <2>2, <2>3 DEF GroupStep
<1>29. ASSUME NEW t \in Partition, PageTimesOut(t) PROVE Loops' /\ Brokers'
  <2>1. Brokers'
    BY <1>29, <1>a, TxnTimeoutType DEF PageTimesOut, Brokers
  <2>2. Loops'
    BY <1>29, <1>a, <1>b, <1>f DEF PageTimesOut, groupVars, loopVars, cycleVars,
       pollVars
  <2> QED BY <2>1, <2>2
<1>30. ASSUME RebalanceCompletes PROVE Loops' /\ Brokers'
  BY <1>30, <1>a, <1>b, <1>c DEF RebalanceCompletes, CompleteRebalance, loopVars,
     cycleVars, pollVars
<1> QED
  BY <1>1, <1>2, <1>3, <1>4, <1>5, <1>6, <1>7, <1>8, <1>9, <1>10, <1>11, <1>12, <1>13,
     <1>14, <1>15, <1>16, <1>17, <1>18, <1>19, <1>20, <1>21, <1>22, <1>23, <1>24, <1>25,
     <1>26, <1>27, <1>28, <1>29, <1>30
     DEF Next, ListenerStep, LoopStep, CycleStep, PollStep, Lifecycle

-----------------------------------------------------------------------------
(* What the threads of control of an instance know of each other *)

Active(i, c) == poll[i][c] \in {"paging", "closing"}
Unwinding(i) == pc[i] = "unwinding"
HoldsNothing(i) == tokens[i] = {} /\ pending[i] = NoAssignment

\* A process that is down has left the group and kept nothing.
DownIsFresh(i) ==
    /\ listener[i] = "off" <=> pc[i] = "down"
    /\ pc[i] = "down" => HoldsNothing(i) /\ starting[i] = {} /\ cycle[i] = "none"

\* Only a cycle that polls, or is being cancelled, has polls in flight.
CycleInFlight(i) ==
    /\ cycle[i] \in {"none", "idle", "failed"} => Quiet(i)
    /\ cycle[i] \in {"none", "idle"} => ~failed[i]

\* A cycle is cancelled by a revoke callback, which has given up the tokens.
CancelledByRevoke(i) ==
    cycle[i] = "cancelled" => listener[i] = "revoking" /\ HoldsNothing(i)

\* A member only joins, and an assignment only waits, while no cycle runs.
JoinsWithoutCycle(i) ==
    /\ listener[i] = "joining" /\ ~Unwinding(i) =>
           cycle[i] = "none" /\ pending[i] = NoAssignment /\ pc[i] # "fencing"
    /\ pending[i] # NoAssignment /\ ~Unwinding(i) => cycle[i] = "none" /\ pc[i] # "fencing"

\* Producers are started before the cycle; gather() may leave some behind.
FencesWithoutCycle(i) ==
    /\ pc[i] = "fencing" => cycle[i] = "none"
    /\ starting[i] # {} => pc[i] \in {"fencing", "unwinding"} /\ cycle[i] = "none"

\* A running cycle polls what its instance holds.
PollsOwned(i) ==
    cycle[i] = "polling" /\ ~Unwinding(i) =>
        \A c \in Config : poll[i][c] # "none" => Token(c) \in tokens[i]

\* The token's lock: one page at a time.
OnePagePerToken(i) ==
    \A c, d \in Config : Active(i, c) /\ Active(i, d) /\ Token(c) = Token(d) => c = d

Control(i) ==
    /\ DownIsFresh(i)
    /\ CycleInFlight(i)
    /\ CancelledByRevoke(i)
    /\ JoinsWithoutCycle(i)
    /\ FencesWithoutCycle(i)
    /\ PollsOwned(i)
    /\ OnePagePerToken(i)

\* No step of any instance, nor of the group, confuses the threads of one.
LEMMA ControlStep ==
    ASSUME Types, \A i \in Instance : Control(i), Next
    PROVE  \A i \in Instance : Control(i)'
<1> SUFFICES ASSUME NEW j \in Instance PROVE Control(j)'
  OBVIOUS
<1>a. RunnerTypeOK /\ GroupTypeOK /\ PollTypeOK
  BY DEF Types, TypeOK
<1>b. Control(j)
  OBVIOUS
<1>c. \A c \in Config : Token(c) \in Partition
  BY PageLogAssumption DEF Token
<1> USE DEF RunnerTypeOK, GroupTypeOK, PollTypeOK, Control, DownIsFresh, CycleInFlight,
        CancelledByRevoke, JoinsWithoutCycle, FencesWithoutCycle, PollsOwned, OnePagePerToken,
        Active, Unwinding, HoldsNothing, Quiet
<1>1. ASSUME NEW i \in Instance, OnRevokedStandby(i) PROVE Control(j)'
  BY <1>1, <1>a, <1>b DEF OnRevokedStandby, JoinGroup, cycleVars, pollVars, LockHeld,
     NoAssignment
<1>2. ASSUME NEW i \in Instance, OnRevoked(i) PROVE Control(j)'
  BY <1>2, <1>a, <1>b DEF OnRevoked, groupVars, pollVars, LockHeld
<1>3. ASSUME NEW i \in Instance, SuspendTokens(i) PROVE Control(j)'
  BY <1>3, <1>a, <1>b DEF SuspendTokens, CloseTasks, JoinGroup, Everywhere, pollVars
<1>4. ASSUME NEW i \in Instance, SuspendTokensFails(i) PROVE Control(j)'
  BY <1>4, <1>a, <1>b DEF SuspendTokensFails, JoinGroup, pollVars
<1>5. ASSUME NEW i \in Instance, OnRevokedAfterFailure(i) PROVE Control(j)'
  BY <1>5, <1>a, <1>b DEF OnRevokedAfterFailure, JoinGroup, pollVars, LockHeld
<1>6. ASSUME NEW i \in Instance, OnRevokedAgain(i) PROVE Control(j)'
  BY <1>6, <1>a, <1>b DEF OnRevokedAgain, CloseTasks, JoinGroup, Everywhere, cycleVars,
     pollVars, LockHeld
<1>7. ASSUME NEW i \in Instance, OnAssigned(i) PROVE Control(j)'
  BY <1>7, <1>a, <1>b DEF OnAssigned, TakeAssignment, OwnedBy, cycleVars, pollVars,
     NoAssignment
<1>8. ASSUME NEW i \in Instance, CallGetmany(i) PROVE Control(j)'
  BY <1>8, <1>a, <1>b DEF CallGetmany, groupVars, cycleVars, pollVars
<1>9. ASSUME NEW i \in Instance, GetmanyReturns(i) PROVE Control(j)'
  BY <1>9, <1>a, <1>b DEF GetmanyReturns, groupVars, cycleVars, pollVars
<1>10. ASSUME NEW i \in Instance, NothingPending(i) PROVE Control(j)'
  BY <1>10, <1>a, <1>b DEF NothingPending, NextTop, groupVars, cycleVars, pollVars,
     LockHeld
<1>11. ASSUME NEW i \in Instance, StartPendingTokens(i) PROVE Control(j)'
  BY <1>11, <1>a, <1>b DEF StartPendingTokens, CloseTasks, NextTop, Everywhere,
     groupVars, cycleVars, pollVars, LockHeld
<1>12. ASSUME NEW i \in Instance, NEW t \in Partition, StartTask(i, t) PROVE Control(j)'
  BY <1>12, <1>a, <1>b DEF StartTask, groupVars, cycleVars, pollVars
<1>13. ASSUME NEW i \in Instance, Restore(i) PROVE Control(j)'
  BY <1>13, <1>a, <1>b DEF Restore, groupVars, pollVars
<1>14. ASSUME NEW i \in Instance, PollCycle(i) PROVE Control(j)'
  BY <1>14, <1>a, <1>b DEF PollCycle, Owned, groupVars, loopVars
<1>15. ASSUME NEW i \in Instance, NEW c \in Config, PollOne(i, c) PROVE Control(j)'
  BY <1>15, <1>a, <1>b DEF PollOne, groupVars, loopVars, cycleVars, InToken
<1>16. ASSUME NEW i \in Instance, NEW c \in Config, YieldMessage(i, c) PROVE Control(j)'
  BY <1>16, <1>a, <1>b DEF YieldMessage, groupVars, loopVars, cycleVars
<1>17. ASSUME NEW i \in Instance, NEW c \in Config, YieldState(i, c) PROVE Control(j)'
  BY <1>17, <1>a, <1>b DEF YieldState, groupVars, loopVars, cycleVars
<1>18. ASSUME NEW i \in Instance, NEW c \in Config, CommitPage(i, c) PROVE Control(j)'
  BY <1>18, <1>a, <1>b DEF CommitPage, groupVars, loopVars, cycleVars
<1>19. ASSUME NEW i \in Instance, NEW c \in Config, PollCompletes(i, c) PROVE Control(j)'
  BY <1>19, <1>a, <1>b DEF PollCompletes, PollEnds, groupVars, loopVars
<1>20. ASSUME NEW i \in Instance, NEW c \in Config, PollFails(i, c) PROVE Control(j)'
  BY <1>20, <1>a, <1>b DEF PollFails, PollEnds, groupVars, loopVars
<1>21. ASSUME NEW i \in Instance, NEW c \in Config, PollFenced(i, c) PROVE Control(j)'
  BY <1>21, <1>a, <1>b DEF PollFenced, PollEnds, groupVars, loopVars
<1>22. ASSUME NEW i \in Instance, NEW c \in Config, CancelPoll(i, c) PROVE Control(j)'
  BY <1>22, <1>a, <1>b DEF CancelPoll, PollEnds, groupVars, loopVars, Cancelled
<1>23. ASSUME NEW i \in Instance, NEW c \in Config, CancelCommit(i, c) PROVE Control(j)'
  BY <1>23, <1>a, <1>b DEF CancelCommit, PollEnds, groupVars, loopVars, Cancelled
<1>24. ASSUME NEW i \in Instance, Interrupt(i) PROVE Control(j)'
  BY <1>24, <1>a, <1>b DEF Interrupt, groupVars, cycleVars, pollVars
<1>25. ASSUME NEW i \in Instance, Exit(i) PROVE Control(j)'
  BY <1>25, <1>a, <1>b DEF Exit, ProcessGone, Disconnect, Everywhere
<1>26. ASSUME NEW i \in Instance, Crash(i) PROVE Control(j)'
  BY <1>26, <1>a, <1>b DEF Crash, ProcessGone, Disconnect, Everywhere
<1>27. ASSUME NEW i \in Instance, Restart(i) PROVE Control(j)'
  BY <1>27, <1>a, <1>b DEF Restart, Subscribe, cycleVars, pollVars
<1>28. ASSUME NEW i \in Instance, GroupStep(i) PROVE Control(j)'
  <2>1. CASE NoticeRebalance(i)
    BY <1>28, <2>1, <1>a, <1>b DEF GroupStep, NoticeRebalance, loopVars, cycleVars, pollVars
  <2>2. CASE SessionExpires(i)
    BY <1>28, <2>2, <1>a, <1>b DEF GroupStep, SessionExpires, RemoveMember, loopVars,
       cycleVars, pollVars
  <2>3. CASE Evict(i)
    BY <1>28, <2>3, <1>a, <1>b DEF GroupStep, Evict, RemoveMember, loopVars, cycleVars,
       pollVars
  <2> QED BY <1>28, <2>1, <2>2, <2>3 DEF GroupStep
<1>29. ASSUME NEW t \in Partition, PageTimesOut(t) PROVE Control(j)'
  BY <1>29, <1>a, <1>b DEF PageTimesOut, groupVars, loopVars, cycleVars, pollVars
<1>30. ASSUME RebalanceCompletes PROVE Control(j)'
  BY <1>30, <1>a, <1>b DEF RebalanceCompletes, CompleteRebalance, loopVars, cycleVars,
     pollVars
<1> HIDE DEF RunnerTypeOK, GroupTypeOK, PollTypeOK, Control, DownIsFresh, CycleInFlight,
         CancelledByRevoke, JoinsWithoutCycle, FencesWithoutCycle, PollsOwned,
         OnePagePerToken, Active, Unwinding, HoldsNothing, Quiet
<1> QED
  BY <1>1, <1>2, <1>3, <1>4, <1>5, <1>6, <1>7, <1>8, <1>9, <1>10, <1>11, <1>12, <1>13,
     <1>14, <1>15, <1>16, <1>17, <1>18, <1>19, <1>20, <1>21, <1>22, <1>23, <1>24, <1>25,
     <1>26, <1>27, <1>28, <1>29, <1>30
     DEF Next, ListenerStep, LoopStep, CycleStep, PollStep, Lifecycle

-----------------------------------------------------------------------------
(* Who holds a token *)

\* Until a live member is evicted, whoever holds or is about to take tokens is a
\* member that has not rejoined, and the group's assignment has them its own.
HeldIsOwned(i) ==
    evictions = 0 =>
        /\ i \notin members \ joined => HoldsNothing(i)
        /\ tokens[i] \subseteq OwnedBy(i)
        /\ pending[i] # NoAssignment => pending[i] \subseteq OwnedBy(i)

\* A token is given up before its instance rejoins, and taken only as long as the
\* assignment it comes from stands.
LEMMA HeldIsOwnedStep ==
    ASSUME Types, \A i \in Instance : Control(i) /\ HeldIsOwned(i), Next
    PROVE  \A i \in Instance : HeldIsOwned(i)'
<1> SUFFICES ASSUME NEW j \in Instance PROVE HeldIsOwned(j)'
  OBVIOUS
<1>a. RunnerTypeOK /\ GroupTypeOK
  BY DEF Types, TypeOK
<1>b. HeldIsOwned(j) /\ Control(j)
  OBVIOUS
<1> USE DEF RunnerTypeOK, GroupTypeOK, HeldIsOwned, HoldsNothing
<1>1. ASSUME NEW i \in Instance, OnRevokedStandby(i) PROVE HeldIsOwned(j)'
  BY <1>1, <1>a, <1>b DEF OnRevokedStandby, JoinGroup, LockHeld, OwnedBy
<1>2. ASSUME NEW i \in Instance, OnRevoked(i) PROVE HeldIsOwned(j)'
  BY <1>2, <1>a, <1>b DEF OnRevoked, groupVars, OwnedBy
<1>3. ASSUME NEW i \in Instance, SuspendTokens(i) PROVE HeldIsOwned(j)'
  BY <1>3, <1>a, <1>b DEF SuspendTokens, CloseTasks, JoinGroup, Everywhere, Control,
     CancelledByRevoke, OwnedBy
<1>4. ASSUME NEW i \in Instance, SuspendTokensFails(i) PROVE HeldIsOwned(j)'
  BY <1>4, <1>a, <1>b DEF SuspendTokensFails, JoinGroup, Control, CancelledByRevoke,
     OwnedBy
<1>5. ASSUME NEW i \in Instance, OnRevokedAfterFailure(i) PROVE HeldIsOwned(j)'
  BY <1>5, <1>a, <1>b DEF OnRevokedAfterFailure, JoinGroup, LockHeld, OwnedBy
<1>6. ASSUME NEW i \in Instance, OnRevokedAgain(i) PROVE HeldIsOwned(j)'
  BY <1>6, <1>a, <1>b DEF OnRevokedAgain, CloseTasks, JoinGroup, Everywhere, LockHeld,
     OwnedBy
<1>7. ASSUME NEW i \in Instance, OnAssigned(i) PROVE HeldIsOwned(j)'
  BY <1>7, <1>a, <1>b DEF OnAssigned, TakeAssignment, OwnedBy
<1>8. ASSUME NEW i \in Instance, CallGetmany(i) PROVE HeldIsOwned(j)'
  BY <1>8, <1>a, <1>b DEF CallGetmany, groupVars, OwnedBy
<1>9. ASSUME NEW i \in Instance, GetmanyReturns(i) PROVE HeldIsOwned(j)'
  BY <1>9, <1>a, <1>b DEF GetmanyReturns, groupVars, OwnedBy
<1>10. ASSUME NEW i \in Instance, NothingPending(i) PROVE HeldIsOwned(j)'
  BY <1>10, <1>a, <1>b DEF NothingPending, NextTop, groupVars, LockHeld, OwnedBy
<1>11. ASSUME NEW i \in Instance, StartPendingTokens(i) PROVE HeldIsOwned(j)'
  BY <1>11, <1>a, <1>b DEF StartPendingTokens, CloseTasks, NextTop, Everywhere,
     groupVars, LockHeld, OwnedBy
<1>12. ASSUME NEW i \in Instance, NEW t \in Partition, StartTask(i, t) PROVE HeldIsOwned(j)'
  BY <1>12, <1>a, <1>b DEF StartTask, groupVars, OwnedBy
<1>13. ASSUME NEW i \in Instance, Restore(i) PROVE HeldIsOwned(j)'
  BY <1>13, <1>a, <1>b DEF Restore, groupVars, OwnedBy
<1>14. ASSUME NEW i \in Instance, PollCycle(i) PROVE HeldIsOwned(j)'
  BY <1>14, <1>a, <1>b DEF PollCycle, Owned, groupVars, loopVars, OwnedBy
<1>15. ASSUME NEW i \in Instance, NEW c \in Config, PollOne(i, c) PROVE HeldIsOwned(j)'
  BY <1>15, <1>a, <1>b DEF PollOne, groupVars, loopVars, OwnedBy
<1>16. ASSUME NEW i \in Instance, NEW c \in Config, YieldMessage(i, c) PROVE HeldIsOwned(j)'
  BY <1>16, <1>a, <1>b DEF YieldMessage, groupVars, loopVars, OwnedBy
<1>17. ASSUME NEW i \in Instance, NEW c \in Config, YieldState(i, c) PROVE HeldIsOwned(j)'
  BY <1>17, <1>a, <1>b DEF YieldState, groupVars, loopVars, OwnedBy
<1>18. ASSUME NEW i \in Instance, NEW c \in Config, CommitPage(i, c) PROVE HeldIsOwned(j)'
  BY <1>18, <1>a, <1>b DEF CommitPage, groupVars, loopVars, OwnedBy
<1>19. ASSUME NEW i \in Instance, NEW c \in Config, PollCompletes(i, c)
      PROVE  HeldIsOwned(j)'
  BY <1>19, <1>a, <1>b DEF PollCompletes, groupVars, loopVars, OwnedBy
<1>20. ASSUME NEW i \in Instance, NEW c \in Config, PollFails(i, c) PROVE HeldIsOwned(j)'
  BY <1>20, <1>a, <1>b DEF PollFails, groupVars, loopVars, OwnedBy
<1>21. ASSUME NEW i \in Instance, NEW c \in Config, PollFenced(i, c) PROVE HeldIsOwned(j)'
  BY <1>21, <1>a, <1>b DEF PollFenced, groupVars, loopVars, OwnedBy
<1>22. ASSUME NEW i \in Instance, NEW c \in Config, CancelPoll(i, c) PROVE HeldIsOwned(j)'
  BY <1>22, <1>a, <1>b DEF CancelPoll, groupVars, loopVars, OwnedBy
<1>23. ASSUME NEW i \in Instance, NEW c \in Config, CancelCommit(i, c) PROVE HeldIsOwned(j)'
  BY <1>23, <1>a, <1>b DEF CancelCommit, groupVars, loopVars, OwnedBy
<1>24. ASSUME NEW i \in Instance, Interrupt(i) PROVE HeldIsOwned(j)'
  BY <1>24, <1>a, <1>b DEF Interrupt, groupVars, OwnedBy
<1>25. ASSUME NEW i \in Instance, Exit(i) PROVE HeldIsOwned(j)'
  BY <1>25, <1>a, <1>b DEF Exit, ProcessGone, Disconnect, Everywhere, OwnedBy
<1>26. ASSUME NEW i \in Instance, Crash(i) PROVE HeldIsOwned(j)'
  BY <1>26, <1>a, <1>b DEF Crash, ProcessGone, Disconnect, Everywhere, OwnedBy
<1>27. ASSUME NEW i \in Instance, Restart(i) PROVE HeldIsOwned(j)'
  BY <1>27, <1>a, <1>b DEF Restart, Subscribe, OwnedBy
<1>28. ASSUME NEW i \in Instance, GroupStep(i) PROVE HeldIsOwned(j)'
  <2>1. CASE NoticeRebalance(i)
    BY <1>28, <2>1, <1>a, <1>b DEF GroupStep, NoticeRebalance, OwnedBy, loopVars
  <2>2. CASE SessionExpires(i)
    BY <1>28, <2>2, <1>a, <1>b DEF GroupStep, SessionExpires, RemoveMember, OwnedBy, loopVars,
       Control, DownIsFresh
  <2>3. CASE Evict(i)
    BY <1>28, <2>3, <1>a DEF GroupStep, Evict, RemoveMember
  <2> QED BY <1>28, <2>1, <2>2, <2>3 DEF GroupStep
<1>29. ASSUME NEW t \in Partition, PageTimesOut(t) PROVE HeldIsOwned(j)'
  BY <1>29, <1>a, <1>b DEF PageTimesOut, groupVars, loopVars, OwnedBy
<1>30. ASSUME RebalanceCompletes PROVE HeldIsOwned(j)'
  <2>1. evictions = 0 => HoldsNothing(j)
    BY <1>30, <1>a, <1>b DEF RebalanceCompletes, CompleteRebalance
  <2> QED BY <1>30, <1>a, <1>b, <2>1 DEF RebalanceCompletes, CompleteRebalance, loopVars
<1> HIDE DEF RunnerTypeOK, GroupTypeOK, HeldIsOwned, HoldsNothing
<1> QED
  BY <1>1, <1>2, <1>3, <1>4, <1>5, <1>6, <1>7, <1>8, <1>9, <1>10, <1>11, <1>12, <1>13,
     <1>14, <1>15, <1>16, <1>17, <1>18, <1>19, <1>20, <1>21, <1>22, <1>23, <1>24, <1>25,
     <1>26, <1>27, <1>28, <1>29, <1>30
     DEF Next, ListenerStep, LoopStep, CycleStep, PollStep, Lifecycle

-----------------------------------------------------------------------------
(* The theorems *)

LeaseInv ==
    /\ Types
    /\ \A i \in Instance : Control(i) /\ HeldIsOwned(i)

\* The invariant holds before the first instance starts.
LEMMA LeaseInvInit ==
    ASSUME Init
    PROVE  LeaseInv
<1>1. 0 \in 0..MaxFaults /\ 0 \in 0..MaxEvictions /\ 0 \in Cursor
  BY ExtractorAssumption, GroupAssumption, PageLogAssumption DEF Cursor
<1>2. BrokerTypeOK
  <2>1. <<>> \in Seq(1..NumItems)
    OBVIOUS
  <2> QED BY <2>1, NoTxnType DEF Init, BrokerInit, BrokerTypeOK
<1>3. Bounded
  BY DEF Init, BrokerInit, Bounded
<1>4. GroupTypeOK
  BY <1>1 DEF Init, GroupInit, GroupTypeOK, ListenerPhase
<1>5. RunnerTypeOK
  BY <1>1 DEF Init, RunnerTypeOK, Location, Cycle
<1>6. PollTypeOK
  BY <1>1 DEF Init, PollTypeOK, Everywhere, Poll
<1>7. ASSUME NEW i \in Instance PROVE Control(i) /\ HeldIsOwned(i)
  BY DEF Init, GroupInit, Everywhere, Control, DownIsFresh, CycleInFlight, CancelledByRevoke,
     JoinsWithoutCycle, FencesWithoutCycle, PollsOwned, OnePagePerToken, HeldIsOwned, Active,
     Unwinding, HoldsNothing, Quiet
<1> QED BY <1>2, <1>3, <1>4, <1>5, <1>6, <1>7 DEF LeaseInv, Types, TypeOK

\* A step that changes nothing keeps the invariant.
LEMMA LeaseInvStutters ==
    ASSUME LeaseInv, UNCHANGED vars
    PROVE  LeaseInv'
<1> USE DEF vars, groupVars, loopVars, cycleVars, pollVars
<1>1. BrokerTypeOK' /\ Bounded'
  BY BrokerSame DEF LeaseInv, Types, TypeOK
<1>2. GroupTypeOK' /\ RunnerTypeOK' /\ PollTypeOK'
  BY DEF LeaseInv, Types, TypeOK, GroupTypeOK, RunnerTypeOK, PollTypeOK
<1>3. ASSUME NEW i \in Instance PROVE Control(i)' /\ HeldIsOwned(i)'
  <2>1. Control(i) /\ HeldIsOwned(i)
    BY DEF LeaseInv
  <2> QED BY <2>1 DEF Control, DownIsFresh, CycleInFlight, CancelledByRevoke,
         JoinsWithoutCycle, FencesWithoutCycle, PollsOwned, OnePagePerToken, HeldIsOwned,
         OwnedBy, Active, Unwinding, HoldsNothing, Quiet
<1> QED BY <1>1, <1>2, <1>3 DEF LeaseInv, Types, TypeOK

\* The inductive invariant: types, the order among the threads of each instance,
\* and whose tokens are whose, in every reachable state - for any instances,
\* configs, layouts of state keys, tokens and changelog, faults and evictions.
THEOREM LeaseInvariance == Spec => []LeaseInv
<1>1. LeaseInv /\ [Next]_vars => LeaseInv'
  <2> SUFFICES ASSUME LeaseInv, Next PROVE LeaseInv'
    BY LeaseInvStutters
  <2>1. Types'
    BY TypeStep DEF LeaseInv
  <2>2. \A i \in Instance : Control(i)' /\ HeldIsOwned(i)'
    BY ControlStep, HeldIsOwnedStep DEF LeaseInv
  <2> QED BY <2>1, <2>2 DEF LeaseInv
<1> QED BY <1>1, LeaseInvInit, PTL DEF Spec

\* The extractor, its group and its brokers keep their types in every reachable
\* state, also where tokens share a changelog partition (TypeOK).
THEOREM TypeCorrect == Spec => []TypeOK
<1>1. LeaseInv => TypeOK
  BY DEF LeaseInv, Types
<1> QED BY <1>1, LeaseInvariance, PTL

\* The revoke barrier (RevokeIsBarrier): when a revoke callback has returned and
\* its member joins, no poll of the instance is in flight, whatever was cancelled,
\* failed or left behind before.
THEOREM RevokeWaits == Spec => []RevokeIsBarrier
<1>1. LeaseInv => RevokeIsBarrier
  BY DEF LeaseInv, Control, CycleInFlight, JoinsWithoutCycle, Unwinding, RevokeIsBarrier
<1> QED BY <1>1, LeaseInvariance, PTL

\* No token has two owners before a live member is evicted (OneOwner), with any
\* number of rebalances, crashes, failing callbacks and restarts.
THEOREM OneOwnerUntilEviction == Spec => [](evictions = 0 => OneOwner)
<1>1. LeaseInv => (evictions = 0 => OneOwner)
  <2> SUFFICES ASSUME LeaseInv, evictions = 0, NEW i \in Instance, NEW j \in Instance, i # j
               PROVE  tokens[i] \cap tokens[j] = {}
    BY DEF OneOwner
  <2>1. tokens[i] \subseteq OwnedBy(i) /\ tokens[j] \subseteq OwnedBy(j)
    BY DEF LeaseInv, HeldIsOwned
  <2> QED BY <2>1 DEF OwnedBy
<1> QED BY <1>1, LeaseInvariance, PTL
====

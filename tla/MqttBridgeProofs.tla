---- MODULE MqttBridgeProofs ----
(***************************************************************************)
(* The safety of MqttBridge for every value of its constants: that it      *)
(* implements Relay, that no wakeup is lost, and that a process writes     *)
(* each message once and in order.  IInv is inductive; the lemmas take its *)
(* conjuncts one at a time, with one step per action, and the theorems at  *)
(* the end combine them.                                                   *)
(*                                                                         *)
(* The argument: what is pending on a topic is in Kafka, or in the one     *)
(* open transaction (PendingIsDurable, OnePoll), or its poll has failed -  *)
(* and then the process ends before anything is acknowledged again.  The   *)
(* other PUBACKs are for what was dropped, which is never of a lasting     *)
(* config, for the configs are reconciled before anything is dropped       *)
(* (LastingKept, Routed).                                                  *)
(*                                                                         *)
(* What a process has done with a topic and has still to do is one         *)
(* ascending chain (InOrder): the polls move the borders between landed,   *)
(* forwarded, batch, items and unrouted, or take something out (Thins),    *)
(* and only the broker adds to it, at the end.                             *)
(***************************************************************************)
EXTENDS MqttBridge, SequenceTheorems, TLAPS

-----------------------------------------------------------------------------
(* Sequences *)

\* Only the empty sequence has no length.
LEMMA EmptyLen ==
    ASSUME NEW S, NEW seq \in Seq(S)
    PROVE  Len(seq) \in Nat /\ (seq = <<>> <=> Len(seq) = 0)
  BY EmptySeq

\* There is a next message as long as more than one is left.
LEMMA TailEnds ==
    ASSUME NEW S, NEW seq \in Seq(S)
    PROVE  /\ Len(seq) > 1 => Tail(seq) # <<>>
           /\ Len(seq) = 1 => Tail(seq) = <<>>
<1>1. CASE seq = <<>>
  BY <1>1, EmptyLen
<1>2. CASE seq # <<>>
  <2>1. Tail(seq) \in Seq(S) /\ Len(Tail(seq)) = Len(seq) - 1 /\ Len(seq) \in Nat
    BY <1>2, HeadTailProperties, LenProperties
  <2>2. Tail(seq) = <<>> <=> Len(Tail(seq)) = 0
    BY <2>1, EmptyLen
  <2> QED BY <2>1, <2>2
<1> QED BY <1>1, <1>2

\* What a poll drains and what it leaves are messages of what was buffered.
LEMMA DrainType ==
    ASSUME NEW S, NEW buffer \in Seq(S), NEW size,
           size = IF Len(buffer) < DrainLimit THEN Len(buffer) ELSE DrainLimit
    PROVE  /\ size \in Nat /\ size <= Len(buffer)
           /\ SubSeq(buffer, 1, size) \in Seq(S)
           /\ Len(SubSeq(buffer, 1, size)) = size
           /\ SubSeq(buffer, 1, size) = <<>> <=> size = 0
           /\ SubSeq(buffer, size + 1, Len(buffer)) \in Seq(S)
<1>1. Len(buffer) \in Nat /\ DrainLimit \in Nat
  BY MqttAssumption
<1>2. size \in Nat /\ size <= Len(buffer)
  BY <1>1
<1>3. \A i \in 1..size : buffer[i] \in S
  BY <1>1, <1>2
<1>4. SubSeq(buffer, 1, size) \in Seq(S) /\ Len(SubSeq(buffer, 1, size)) = size
  BY <1>1, <1>2, <1>3, SubSeqProperties
<1>5. SubSeq(buffer, size + 1, Len(buffer)) \in Seq(S)
  BY <1>1, <1>2, SubSeqProperties
<1> QED BY <1>2, <1>4, <1>5, EmptyLen

\* The elements of a sequence over S are in S.
LEMMA RangeType ==
    ASSUME NEW S, NEW seq \in Seq(S)
    PROVE  Range(seq) \subseteq S
  BY RangeOfSeq

\* Appending a message adds it to what the sequence holds.
LEMMA RangeOfAppend ==
    ASSUME NEW S, NEW seq \in Seq(S), NEW e \in S
    PROVE  Range(Append(seq, e)) = Range(seq) \cup {e}
<1> DEFINE longer == Append(seq, e)
<1>1. /\ Len(seq) \in Nat /\ DOMAIN seq = 1..Len(seq)
      /\ DOMAIN longer = 1..(Len(seq) + 1)
      /\ \A i \in 1..Len(seq) : longer[i] = seq[i]
      /\ longer[Len(seq) + 1] = e
  BY AppendProperties, LenProperties
<1> HIDE DEF longer
<1>2. Range(longer) \subseteq Range(seq) \cup {e}
  BY <1>1 DEF Range
<1>3. Range(seq) \subseteq Range(longer)
  BY <1>1 DEF Range
<1>4. e \in Range(longer)
  BY <1>1 DEF Range
<1> QED BY <1>2, <1>3, <1>4 DEF longer

\* What is ascending is two ascending parts, the first of them before the second.
LEMMA AscendingConcat ==
    ASSUME NEW s \in Seq(Nat), NEW t \in Seq(Nat)
    PROVE  Ascending(s \o t) <=> /\ Ascending(s) /\ Ascending(t)
                                 /\ \A x \in Range(s) : \A y \in Range(t) : x < y
<1> DEFINE both == s \o t
<1>1. /\ Len(s) \in Nat /\ Len(t) \in Nat
      /\ DOMAIN s = 1..Len(s) /\ DOMAIN t = 1..Len(t)
      /\ DOMAIN both = 1..(Len(s) + Len(t))
      /\ both \in Seq(Nat)
  BY LenProperties, ConcatProperties
<1>2. /\ \A i \in 1..Len(s) : both[i] = s[i] /\ s[i] \in Nat
      /\ \A i \in 1..Len(t) : both[Len(s) + i] = t[i] /\ t[i] \in Nat
      /\ \A i \in 1..(Len(s) + Len(t)) :
             i <= Len(s) \/ \E j \in 1..Len(t) : i = Len(s) + j
  <2>1. \A i \in 1..(Len(s) + Len(t)) : both[i] = IF i <= Len(s) THEN s[i] ELSE t[i - Len(s)]
    BY ConcatProperties
  <2>2. \A i \in 1..(Len(s) + Len(t)) : i > Len(s) => i - Len(s) \in 1..Len(t) /\ i = Len(s) + (i - Len(s))
    BY <1>1
  <2> QED BY <1>1, <2>1, <2>2, ElementOfSeq
<1> HIDE DEF both
<1>3. ASSUME Ascending(both)
      PROVE  /\ Ascending(s) /\ Ascending(t)
             /\ \A x \in Range(s) : \A y \in Range(t) : x < y
  <2>1. Ascending(s)
    BY <1>1, <1>2, <1>3 DEF Ascending
  <2>2. Ascending(t)
    <3> SUFFICES ASSUME NEW i \in 1..Len(t), NEW j \in 1..Len(t), i < j
                 PROVE  t[i] < t[j]
      BY <1>1 DEF Ascending
    <3>1. /\ Len(s) + i \in DOMAIN both /\ Len(s) + j \in DOMAIN both
          /\ Len(s) + i < Len(s) + j
      BY SMTT(30), <1>1
    <3>2. both[Len(s) + i] < both[Len(s) + j]
      BY <1>3, <3>1 DEF Ascending
    <3> QED BY <1>2, <3>2
  <2>3. ASSUME NEW i \in 1..Len(s), NEW j \in 1..Len(t) PROVE s[i] < t[j]
    <3>1. i \in DOMAIN both /\ Len(s) + j \in DOMAIN both /\ i < Len(s) + j
      BY SMTT(30), <1>1
    <3>2. both[i] < both[Len(s) + j]
      BY <1>3, <3>1 DEF Ascending
    <3> QED BY <1>2, <3>2
  <2> QED BY <1>1, <2>1, <2>2, <2>3 DEF Range
<1>4. ASSUME Ascending(s), Ascending(t), \A x \in Range(s) : \A y \in Range(t) : x < y
      PROVE  Ascending(both)
  <2> SUFFICES ASSUME NEW i \in 1..(Len(s) + Len(t)), NEW j \in 1..(Len(s) + Len(t)), i < j
               PROVE  both[i] < both[j]
    BY <1>1 DEF Ascending
  <2>1. CASE j <= Len(s)
    <3>1. i \in DOMAIN s /\ j \in DOMAIN s
      BY <1>1, <2>1
    <3> QED BY <1>1, <1>2, <1>4, <3>1 DEF Ascending
  <2>2. CASE i <= Len(s) /\ ~(j <= Len(s))
    <3>1. i \in 1..Len(s) /\ \E k \in 1..Len(t) : j = Len(s) + k
      BY <1>1, <1>2, <2>2
    <3>2. PICK k \in 1..Len(t) : j = Len(s) + k
      BY <3>1
    <3>3. both[i] = s[i] /\ both[j] = t[k]
      BY <1>2, <3>1, <3>2
    <3>4. s[i] \in Range(s) /\ t[k] \in Range(t)
      BY <1>1, <3>1 DEF Range
    <3> QED BY <1>4, <3>3, <3>4
  <2>3. CASE ~(i <= Len(s))
    <3>1. \E l \in 1..Len(t) : i = Len(s) + l
      BY <1>2, <2>3
    <3>2. ~(j <= Len(s))
      BY <1>1, <2>3
    <3>3. \E k \in 1..Len(t) : j = Len(s) + k
      BY <1>2, <3>2
    <3>4. PICK l \in 1..Len(t) : i = Len(s) + l
      BY <3>1
    <3>5. PICK k \in 1..Len(t) : j = Len(s) + k
      BY <3>3
    <3>6. l < k
      BY <1>1, <3>4, <3>5
    <3>7. t[l] < t[k]
      BY <1>1, <1>4, <3>6 DEF Ascending
    <3> QED BY <1>2, <3>4, <3>5, <3>7
  <2> QED BY <2>1, <2>2, <2>3
<1> QED BY <1>3, <1>4 DEF both

\* Something may have been taken out of a sequence; its order is kept.
Thins(new, old) ==
    /\ Range(new) \subseteq Range(old)
    /\ Ascending(old) => Ascending(new)

\* Taking out of the parts is taking out of the whole.
LEMMA ThinsConcat ==
    ASSUME NEW s \in Seq(Nat), NEW t \in Seq(Nat), NEW u \in Seq(Nat), NEW v \in Seq(Nat),
           Thins(s, u), Thins(t, v)
    PROVE  Thins(s \o t, u \o v)
<1>1. /\ Range(s \o t) = Range(s) \cup Range(t)
      /\ Range(u \o v) = Range(u) \cup Range(v)
  BY RangeConcatenation
<1>2. Ascending(u \o v) => Ascending(s \o t)
  BY AscendingConcat DEF Thins
<1> QED BY <1>1, <1>2 DEF Thins

\* Everything can be taken out.
LEMMA ThinsNothing ==
    ASSUME NEW old
    PROVE  Thins(<<>>, old)
<1>1. DOMAIN <<>> = {}
  OBVIOUS
<1> QED BY <1>1 DEF Thins, Range, Ascending

\* Nothing need be taken out.
LEMMA ThinsSame ==
    ASSUME NEW old
    PROVE  Thins(old, old)
  BY DEF Thins

\* The first can be taken out.
LEMMA ThinsTail ==
    ASSUME NEW old \in Seq(Nat), old # <<>>
    PROVE  Thins(Tail(old), old)
<1>1. /\ Len(old) \in Nat /\ DOMAIN old = 1..Len(old)
      /\ DOMAIN Tail(old) = 1..(Len(old) - 1)
      /\ \A i \in 1..(Len(old) - 1) : Tail(old)[i] = old[i + 1]
  BY HeadTailProperties, LenProperties
<1>2. \A i \in 1..(Len(old) - 1) : i + 1 \in 1..Len(old)
  BY <1>1
<1>3. Range(Tail(old)) \subseteq Range(old)
  BY <1>1, <1>2 DEF Range
<1>4. Ascending(old) => Ascending(Tail(old))
  <2> SUFFICES ASSUME Ascending(old), NEW i \in 1..(Len(old) - 1), NEW j \in 1..(Len(old) - 1), i < j
               PROVE  Tail(old)[i] < Tail(old)[j]
    BY <1>1 DEF Ascending
  <2>1. i + 1 \in 1..Len(old) /\ j + 1 \in 1..Len(old) /\ i + 1 < j + 1
    BY <1>1
  <2>2. old[i + 1] < old[j + 1]
    BY <1>1, <2>1 DEF Ascending
  <2> QED BY <1>1, <2>2
<1> QED BY <1>3, <1>4 DEF Thins

\* What is appended last, and comes after everything, keeps the order.
LEMMA AscendingAppend ==
    ASSUME NEW seq \in Seq(Nat), NEW m \in Nat, Ascending(seq), \A x \in Range(seq) : x < m
    PROVE  Ascending(seq \o <<m>>) /\ Range(seq \o <<m>>) = Range(seq) \cup {m}
<1>1. <<m>> \in Seq(Nat) /\ DOMAIN <<m>> = 1..1 /\ <<m>>[1] = m
  OBVIOUS
<1>2. Range(<<m>>) = {m} /\ Ascending(<<m>>)
  BY <1>1 DEF Range, Ascending
<1> DEFINE last == <<m>>
<1>3. last \in Seq(Nat) /\ Ascending(last) /\ \A x \in Range(seq) : \A y \in Range(last) : x < y
  BY <1>1, <1>2
<1> HIDE DEF last
<1>4. Ascending(seq \o last) /\ Range(seq \o last) = Range(seq) \cup Range(last)
  BY <1>3, AscendingConcat, RangeConcatenation
<1> QED BY <1>2, <1>4 DEF last

\* A batch is the front of the buffer, and what is left its rest.
LEMMA DrainSplits ==
    ASSUME NEW S, NEW buffer \in Seq(S), NEW size \in Nat, size <= Len(buffer)
    PROVE  SubSeq(buffer, 1, size) \o SubSeq(buffer, size + 1, Len(buffer)) = buffer
<1>1. Len(buffer) \in Nat
  BY LenProperties
<1>2. 1 \in 1..(Len(buffer) + 1) /\ size \in (1 - 1)..Len(buffer) /\ Len(buffer) \in size..Len(buffer)
  BY <1>1
<1> QED BY <1>2, ConcatAdjacentSubSeq, SubSeqFull

\* Sequences of numbers can be regrouped.
LEMMA Regroup ==
    \A s, t, u \in Seq(Nat) : (s \o t) \o u = s \o (t \o u)
  BY SMTT(30), ConcatAssociative

\* The next message moves from the batch to what is forwarded.
LEMMA HeadMoves ==
    ASSUME NEW S, NEW s \in Seq(S), NEW t \in Seq(S), t # <<>>
    PROVE  Append(s, Head(t)) \o Tail(t) = s \o t
<1>1. Head(t) \in S /\ Tail(t) \in Seq(S) /\ <<Head(t)>> \in Seq(S)
  BY HeadTailProperties
<1>2. Append(s, Head(t)) = s \o <<Head(t)>>
  BY <1>1, AppendIsConcat
<1>3. <<Head(t)>> \o Tail(t) = t
  BY <1>1
<1>4. (s \o <<Head(t)>>) \o Tail(t) = s \o (<<Head(t)>> \o Tail(t))
  BY <1>1, ConcatAssociative
<1> QED BY <1>2, <1>3, <1>4

-----------------------------------------------------------------------------
(* The polls and the cycle *)

\* A fault is within its bound.
LEMMA FaultType ==
    ASSUME RunnerTypeOK, Fault
    PROVE  faults' \in 0..MaxFaults /\ changes' \in 0..MaxChanges
  BY MqttAssumption DEF RunnerTypeOK, Fault

\* A poll that ends leaves the polls and the cycle in their types.
LEMMA PollEndsType ==
    ASSUME RunnerTypeOK, NEW t \in Topic, NEW result \in {"done", "failed"},
           PollEnds(t, result)
    PROVE  poll' \in [Topic -> Poll] /\ cycle' \in Cycle
  BY DEF RunnerTypeOK, PollEnds, ForEach, Poll, Cycle

\* What a poll drains, leaves, writes or drops are messages the session took in.
LEMMA PollBuffers ==
    ASSUME TypeOK, Routed, OnePoll, NEW t \in Topic, InFlight(t)
    PROVE  /\ batch \in Seq(absorbed) /\ forwarded \in Seq(absorbed)
           /\ Range(forwarded) \subseteq absorbed
           /\ poll[t] = "relaying" => /\ Head(batch) \in OfTopic(t)
                                      /\ Tail(batch) \in Seq(OfTopic(t))
                                      /\ Len(batch) >= 1
<1>1. batch \in Seq(OfTopic(t)) /\ forwarded \in Seq(OfTopic(t))
  BY DEF Routed, TopicRouted
<1>2. OfTopic(t) \subseteq absorbed
  BY DEF OfTopic
<1>3. batch \in Seq(absorbed) /\ forwarded \in Seq(absorbed)
  BY <1>1, <1>2, SeqMonotonic
<1>4. Range(forwarded) \subseteq absorbed
  BY <1>3, RangeType
<1>5. poll[t] = "relaying" => batch # <<>>
  BY DEF OnePoll
<1>6. batch # <<>> => /\ Head(batch) \in OfTopic(t) /\ Tail(batch) \in Seq(OfTopic(t))
                      /\ Len(batch) >= 1
  BY <1>1
<1> QED BY <1>3, <1>4, <1>5, <1>6

\* When a poll ends, the other polls go on as they are, or all are over and the
\* cycle is: failed if one of them had.
LEMMA PollEndsFacts ==
    ASSUME RunnerTypeOK, NEW t \in Topic, NEW result \in {"done", "failed"},
           PollEnds(t, result)
    PROVE  /\ \A s \in Topic : poll'[s] \in {"relaying", "committing", "queued"}
                               => s # t /\ poll'[s] = poll[s] /\ cycle' = cycle
           /\ \A s \in Topic : poll'[s] # "none" => cycle' = cycle
           /\ cycle' \in {cycle, "idle", "failed"}
           /\ cycle' = "failed" \/ \A s \in Topic \ {t} : poll[s] = "failed" => poll'[s] = "failed"
           /\ result = "failed" => cycle' = "failed" \/ poll'[t] = "failed"
           /\ \A s \in Topic \ {t} : poll[s] = "queued" => poll'[s] = "queued"
  BY DEF RunnerTypeOK, PollEnds, ForEach

\* While a poll is in flight, nothing but it is; when it ends nothing is.
LEMMA OnlyPoll ==
    ASSUME TypeOK, OnePoll, NEW t \in Topic, InFlight(t),
           \/ UNCHANGED poll
           \/ poll' = [poll EXCEPT ![t] = "committing"]
           \/ PollEnds(t, "done") \/ PollEnds(t, "failed")
    PROVE  \A s \in Topic : InFlight(s)' => s = t
<1>1. \A s \in Topic : InFlight(s) => s = t
  BY DEF OnePoll
<1>2. RunnerTypeOK
  BY DEF TypeOK
<1>3. CASE UNCHANGED poll \/ poll' = [poll EXCEPT ![t] = "committing"]
  BY <1>1, <1>2, <1>3 DEF InFlight, RunnerTypeOK
<1>4. CASE PollEnds(t, "done") \/ PollEnds(t, "failed")
  BY <1>1, <1>2, <1>4, PollEndsFacts DEF InFlight
<1> QED BY <1>3, <1>4

-----------------------------------------------------------------------------
(* The chain of a topic *)

\* The parts of a chain are sequences of messages, which are numbers.
LEMMA ChainType ==
    ASSUME TypeOK, NEW t \in Topic
    PROVE  /\ landed[t] \in Seq(Nat) /\ Working(t) \in Seq(Nat)
           /\ items[t] \in Seq(Nat) /\ unrouted[t] \in Seq(Nat)
           /\ batch \in Seq(Nat) /\ forwarded \in Seq(Nat)
           /\ landed[t] \o Working(t) \in Seq(Nat)
           /\ landed[t] \o Working(t) \o items[t] \in Seq(Nat)
           /\ Chain(t) \in Seq(Nat)
<1>1. Message \subseteq Nat
  BY MqttAssumption DEF Message
<1>2. \A seq \in Seq(Message) : seq \in Seq(Nat)
  BY <1>1, SeqMonotonic
<1>3. /\ landed[t] \in Seq(Nat) /\ items[t] \in Seq(Nat) /\ unrouted[t] \in Seq(Nat)
      /\ batch \in Seq(Nat) /\ forwarded \in Seq(Nat)
  BY <1>2 DEF TypeOK, ClientTypeOK, RunnerTypeOK
<1>4. Working(t) \in Seq(Nat)
  BY <1>3 DEF Working
<1>5. /\ landed[t] \o Working(t) \in Seq(Nat)
      /\ landed[t] \o Working(t) \o items[t] \in Seq(Nat)
  BY <1>3, <1>4
<1> QED BY <1>3, <1>4, <1>5 DEF Chain

\* A chain is thinner when its parts are.
LEMMA ThinnerParts ==
    ASSUME TypeOK, TypeOK', NEW t \in Topic,
           Thins(landed'[t], landed[t]), Thins(Working(t)', Working(t)),
           Thins(items'[t], items[t]), Thins(unrouted'[t], unrouted[t])
    PROVE  Thins(Chain(t)', Chain(t))
<1>1. /\ landed'[t] \in Seq(Nat) /\ Working(t)' \in Seq(Nat)
      /\ items'[t] \in Seq(Nat) /\ unrouted'[t] \in Seq(Nat)
      /\ landed'[t] \o Working(t)' \in Seq(Nat)
      /\ landed'[t] \o Working(t)' \o items'[t] \in Seq(Nat)
  <2>1. Message \subseteq Nat
    BY MqttAssumption DEF Message
  <2>2. \A seq \in Seq(Message) : seq \in Seq(Nat)
    BY <2>1, SeqMonotonic
  <2>3. /\ landed'[t] \in Seq(Nat) /\ items'[t] \in Seq(Nat) /\ unrouted'[t] \in Seq(Nat)
        /\ batch' \in Seq(Nat) /\ forwarded' \in Seq(Nat)
    BY <2>2 DEF TypeOK, ClientTypeOK, RunnerTypeOK
  <2>4. Working(t)' \in Seq(Nat)
    BY <2>3 DEF Working
  <2> QED BY <2>3, <2>4
<1>2. Thins(landed'[t] \o Working(t)', landed[t] \o Working(t))
  BY <1>1, ChainType, ThinsConcat
<1>3. Thins(landed'[t] \o Working(t)' \o items'[t], landed[t] \o Working(t) \o items[t])
  BY <1>1, <1>2, ChainType, ThinsConcat
<1> QED BY <1>1, <1>3, ChainType, ThinsConcat DEF Chain

\* A poll that starts draws the border between batch and items.
LEMMA PollStartsChain ==
    ASSUME TypeOK, OnePoll, \A s \in subs : unrouted[s] = <<>>,
           NEW t \in Topic, PollStarts(t)
    PROVE  Chain(t)' = Chain(t)
<1> DEFINE held == IF t \in subs THEN <<>> ELSE unrouted[t]
           buffer == held \o items[t]
           size == IF Len(buffer) < DrainLimit THEN Len(buffer) ELSE DrainLimit
           front == SubSeq(buffer, 1, size)
           left == SubSeq(buffer, size + 1, Len(buffer))
<1>1. landed[t] \in Seq(Nat) /\ items[t] \in Seq(Nat) /\ unrouted[t] \in Seq(Nat)
  BY ChainType
<1>2. buffer \in Seq(Nat)
  BY <1>1
<1>3. t \in subs => unrouted[t] = <<>> /\ held = <<>>
  OBVIOUS
<1>4. t \notin subs => items[t] = <<>> /\ held = unrouted[t]
  BY DEF TypeOK
<1>5. buffer = held \o items[t]
  OBVIOUS
<1>6. size = IF Len(buffer) < DrainLimit THEN Len(buffer) ELSE DrainLimit
  OBVIOUS
<1>7. /\ poll[t] = "queued" /\ ~LockHeld
      /\ UNCHANGED <<forwarded, landed>>
      /\ unrouted' = IF t \in subs THEN unrouted ELSE [unrouted EXCEPT ![t] = <<>>]
      /\ items' = [items EXCEPT ![t] = left]
      /\ batch' = front
      /\ \/ size > 0 /\ poll' = [poll EXCEPT ![t] = "relaying"]
         \/ size = 0 /\ (PollEnds(t, "failed") \/ PollEnds(t, "done"))
  BY DEF PollStarts
<1> HIDE DEF size, buffer, held
<1>8. \/ buffer = items[t] /\ unrouted[t] = <<>>
      \/ buffer = unrouted[t] /\ items[t] = <<>>
  <2>1. CASE t \in subs
    <3>1. buffer = <<>> \o items[t]
      BY <1>3, <1>5, <2>1
    <3>2. <<>> \o items[t] = items[t]
      BY <1>1, ConcatEmptySeq
    <3> QED BY <1>3, <2>1, <3>1, <3>2
  <2>2. CASE t \notin subs
    BY <1>1, <1>4, <1>5, <2>2, ConcatEmptySeq
  <2> QED BY <2>1, <2>2
<1>9. /\ size \in Nat /\ size <= Len(buffer)
      /\ front \in Seq(Nat) /\ left \in Seq(Nat) /\ (front = <<>> <=> size = 0)
  BY <1>2, <1>6, DrainType
<1>10. front \o left = buffer
  BY <1>2, <1>9, DrainSplits
<1> HIDE DEF front, left
<1>11. forwarded = <<>> /\ ~InFlight(t)
  BY <1>7 DEF OnePoll, InFlight
<1>12. Working(t)' = front
  <2>1. CASE size > 0 /\ poll' = [poll EXCEPT ![t] = "relaying"]
    <3>1. InFlight(t)'
      BY <2>1 DEF InFlight, TypeOK, RunnerTypeOK
    <3> QED BY <1>7, <1>9, <1>11, <3>1, ConcatEmptySeq DEF Working
  <2>2. CASE size = 0 /\ (PollEnds(t, "failed") \/ PollEnds(t, "done"))
    <3>1. RunnerTypeOK
      BY DEF TypeOK
    <3>2. ~InFlight(t)'
      BY <2>2, <3>1, PollEndsFacts DEF InFlight
    <3> QED BY <1>9, <2>2, <3>2 DEF Working
  <2> QED BY <1>7, <2>1, <2>2
<1>13. items'[t] = left /\ unrouted'[t] = <<>> /\ landed'[t] = landed[t]
  BY <1>3, <1>7 DEF TypeOK, ClientTypeOK
<1>14. Chain(t)' = landed[t] \o buffer
  <2>1. Chain(t)' = landed[t] \o front \o left \o <<>>
    BY <1>12, <1>13 DEF Chain
  <2>2. landed[t] \o front \o left = landed[t] \o (front \o left)
    <3> DEFINE before == landed[t]
    <3>1. before \in Seq(Nat) /\ front \in Seq(Nat) /\ left \in Seq(Nat)
      BY <1>1, <1>9
    <3> HIDE DEF before
    <3>2. before \o front \o left = before \o (front \o left)
      BY SMTT(30), <3>1, ConcatAssociative
    <3> QED BY <3>2 DEF before
  <2>3. landed[t] \o buffer \in Seq(Nat)
    BY <1>1, <1>2
  <2> QED BY <1>10, <2>1, <2>2, <2>3, ConcatEmptySeq
<1>15. Chain(t) = landed[t] \o buffer
  <2>1. Chain(t) = landed[t] \o <<>> \o items[t] \o unrouted[t]
    BY <1>11 DEF Chain, Working
  <2>2. landed[t] \o <<>> = landed[t]
    BY <1>1, ConcatEmptySeq
  <2>3. landed[t] \o items[t] \in Seq(Nat)
    BY <1>1
  <2> QED BY <1>1, <1>8, <2>1, <2>2, <2>3, ConcatEmptySeq
<1> QED BY <1>14, <1>15

\* A message that arrives is the new end of its topic's chain.
LEMMA ArrivalChain ==
    ASSUME TypeOK, NEW t \in Topic, NEW m \in Message,
           UNCHANGED <<landed, poll, batch, forwarded>>,
           \/ items'[t] = Append(items[t], m) /\ unrouted'[t] = <<>> /\ unrouted[t] = <<>>
           \/ unrouted'[t] = Append(unrouted[t], m) /\ items'[t] = items[t]
    PROVE  Chain(t)' = Chain(t) \o <<m>>
<1> DEFINE before == landed[t] \o Working(t)
           last == <<m>>
           had == items[t]
           held == unrouted[t]
<1>1. /\ before \in Seq(Nat) /\ had \in Seq(Nat) /\ held \in Seq(Nat)
      /\ before \o had \in Seq(Nat)
  BY ChainType
<1>2. m \in Nat /\ last \in Seq(Nat)
  BY MqttAssumption DEF Message
<1>3. Append(had, m) = had \o last /\ Append(held, m) = held \o last
  BY <1>1, <1>2, AppendIsConcat
<1>4. landed'[t] \o Working(t)' = before
  BY DEF Working, InFlight
<1>5. Chain(t) = before \o had \o held /\ Chain(t)' = before \o items'[t] \o unrouted'[t]
  BY <1>4 DEF Chain
<1> HIDE DEF before, last, had, held
<1>6. CASE items'[t] = had \o last /\ unrouted'[t] = <<>> /\ held = <<>>
  <2>1. before \o (had \o last) = (before \o had) \o last
    BY ZenonT(60), <1>1, <1>2, Regroup
  <2>2. (before \o had) \o last \in Seq(Nat)
    BY <1>1, <1>2, ConcatProperties
  <2>3. Chain(t)' = (before \o had) \o last
    BY <1>5, <1>6, <2>1, <2>2, ConcatEmptySeq
  <2>4. Chain(t) = before \o had
    BY <1>1, <1>5, <1>6, ConcatEmptySeq
  <2> QED BY <2>3, <2>4 DEF last
<1>7. CASE unrouted'[t] = held \o last /\ items'[t] = had
  <2> DEFINE front == before \o had
  <2>1. front \in Seq(Nat)
    BY <1>1
  <2> HIDE DEF front
  <2>2. front \o (held \o last) = (front \o held) \o last
    BY <1>1, <1>2, <2>1, Regroup
  <2> QED BY <1>5, <1>7, <2>2 DEF last, front
<1> QED BY <1>3, <1>6, <1>7 DEF had, held

\* Only the chain of the topic that is polled may change in a step of its poll.
LEMMA OtherChains ==
    ASSUME TypeOK, OnePoll, NEW t \in Topic, InFlight(t) \/ ~LockHeld,
           \A s \in Topic : InFlight(s)' => s = t,
           \A s \in Topic \ {t} :
               landed'[s] = landed[s] /\ items'[s] = items[s] /\ unrouted'[s] = unrouted[s]
    PROVE  \A s \in Topic \ {t} : Chain(s)' = Chain(s)
<1> SUFFICES ASSUME NEW s \in Topic \ {t} PROVE Chain(s)' = Chain(s)
  OBVIOUS
<1>1. ~InFlight(s) /\ ~InFlight(s)'
  BY DEF OnePoll, LockHeld, InFlight
<1>2. Working(s)' = Working(s)
  BY <1>1 DEF Working
<1> QED BY <1>2 DEF Chain

\* A step that lets nothing in, and leaves the connection or ends it, keeps what
\* was in order in order.
LEMMA InOrderKept ==
    ASSUME TypeOK, InOrder,
           \A t \in Topic : Thins(Chain(t)', Chain(t)),
           \A t \in subs' : unrouted'[t] = <<>>,
           published <= published', published' \in Nat,
           pc' = "down" => conn' = "off",
           conn' \in {"off", "connecting"} => conn \in {"off", "connecting"},
           conn' = "up" => \/ conn = "up" /\ unacked' \ sent' \subseteq unacked \ sent
                           \/ conn = "connecting"
    PROVE  InOrder'
<1>1. \A t \in Topic : /\ Ascending(Chain(t)')
                       /\ \A x \in Range(Chain(t)') : x \in Range(Chain(t)) /\ x \in Nat
  <2> SUFFICES ASSUME NEW t \in Topic
               PROVE  /\ Ascending(Chain(t)')
                      /\ \A x \in Range(Chain(t)') : x \in Range(Chain(t)) /\ x \in Nat
    OBVIOUS
  <2>1. Range(Chain(t)) \subseteq Nat
    BY ChainType, RangeType
  <2> QED BY <2>1 DEF InOrder, Thins
<1>2. \A t \in Topic : \A x \in Range(Chain(t)') : x <= published'
  BY <1>1 DEF InOrder, TypeOK, SessionTypeOK
<1>3. conn' \in {"off", "connecting"} => \A t \in Topic : Range(Chain(t)') = {}
  BY <1>1 DEF InOrder
<1>4. conn' = "up" => \A t \in Topic : \A x \in Range(Chain(t)') :
                          \A m \in unacked' \ sent' : x < m
  BY <1>1 DEF InOrder
<1> QED BY <1>1, <1>2, <1>3, <1>4 DEF InOrder

\* A poll that goes on or ends: what it has in hand moves within the chain of its
\* topic, or is taken out of it.
LEMMA PollStepChain ==
    ASSUME TypeOK, TypeOK', OnePoll, InOrder, NEW t \in Topic, PollStep(t)
    PROVE  \A s \in Topic : Thins(Chain(s)', Chain(s))
<1> USE DEF sessionVars, viewVars, clientVars, pollVars, runnerVars, boundVars
<1>0. RunnerTypeOK /\ ClientTypeOK
  BY DEF TypeOK
<1>1. ASSUME Thins(Chain(t)', Chain(t)),
             InFlight(t) \/ ~LockHeld,
             \A s \in Topic : InFlight(s)' => s = t,
             \A s \in Topic \ {t} : /\ landed'[s] = landed[s] /\ items'[s] = items[s]
                                    /\ unrouted'[s] = unrouted[s]
      PROVE  \A s \in Topic : Thins(Chain(s)', Chain(s))
  <2>1. \A s \in Topic \ {t} : Chain(s)' = Chain(s)
    BY <1>1, OtherChains
  <2> QED BY <1>1, <2>1, ThinsSame
<1>2. CASE PollStarts(t)
  <2>1. /\ ~LockHeld
        /\ \/ poll' = [poll EXCEPT ![t] = "relaying"]
           \/ PollEnds(t, "failed") \/ PollEnds(t, "done")
    BY <1>2 DEF PollStarts
  <2>2. \A s \in Topic : InFlight(s)' => s = t
    <3>1. CASE poll' = [poll EXCEPT ![t] = "relaying"]
      BY <1>0, <2>1, <3>1 DEF LockHeld, InFlight, RunnerTypeOK
    <3>2. CASE PollEnds(t, "failed") \/ PollEnds(t, "done")
      BY <1>0, <2>1, <3>2, PollEndsFacts DEF LockHeld, InFlight
    <3> QED BY <2>1, <3>1, <3>2
  <2>3. \A s \in Topic \ {t} : /\ landed'[s] = landed[s] /\ items'[s] = items[s]
                               /\ unrouted'[s] = unrouted[s]
    BY <1>0, <1>2 DEF PollStarts, ClientTypeOK
  <2>4. Chain(t)' = Chain(t)
    BY <1>2, PollStartsChain DEF InOrder
  <2> QED BY <1>1, <2>1, <2>2, <2>3, <2>4, ThinsSame
<1>3. ASSUME NEW opened \in Seq(Nat), Advance(t, opened), poll[t] = "relaying",
             Thins(opened \o Tail(batch), forwarded \o batch),
             UNCHANGED <<landed, items, unrouted>>
      PROVE  \A s \in Topic : Thins(Chain(s)', Chain(s))
  <2>1. InFlight(t) /\ Working(t) = forwarded \o batch
    BY <1>3 DEF InFlight, Working
  <2>2. \A s \in Topic : InFlight(s)' => s = t
    BY <1>3, <2>1, OnlyPoll DEF Advance
  <2>3. \/ Working(t)' = opened \o Tail(batch)
        \/ Working(t)' = <<>>
    BY <1>3 DEF Advance, Working
  <2>4. Thins(Working(t)', Working(t))
    BY <1>3, <2>1, <2>3, ThinsNothing
  <2>5. Thins(Chain(t)', Chain(t))
    BY <1>3, <2>4, ThinnerParts, ThinsSame
  <2> QED BY <1>1, <1>3, <2>1, <2>2, <2>5
<1>4. ASSUME poll[t] = "relaying"
      PROVE  /\ batch \in Seq(Nat) /\ batch # <<>> /\ forwarded \in Seq(Nat)
             /\ Tail(batch) \in Seq(Nat) /\ Head(batch) \in Nat
  <2>1. batch \in Seq(Nat) /\ forwarded \in Seq(Nat)
    BY ChainType
  <2>2. batch # <<>>
    BY <1>4 DEF OnePoll
  <2> QED BY <2>1, <2>2, HeadTailProperties
<1>5. CASE RelayMessage(t)
  <2>1. poll[t] = "relaying" /\ Advance(t, Append(forwarded, Head(batch)))
        /\ UNCHANGED <<landed, items, unrouted>>
    BY <1>5 DEF RelayMessage
  <2>2. Append(forwarded, Head(batch)) \in Seq(Nat)
    BY <1>4, <2>1, AppendProperties
  <2>3. Append(forwarded, Head(batch)) \o Tail(batch) = forwarded \o batch
    BY <1>4, <2>1, HeadMoves
  <2> QED BY <1>3, <2>1, <2>2, <2>3, ThinsSame
<1>6. CASE DropMessage(t)
  <2>1. poll[t] = "relaying" /\ Advance(t, forwarded) /\ UNCHANGED <<landed, items, unrouted>>
    BY <1>6 DEF DropMessage
  <2>2. Thins(forwarded \o Tail(batch), forwarded \o batch)
    <3>1. Thins(Tail(batch), batch) /\ Thins(forwarded, forwarded)
      BY <1>4, <2>1, ThinsTail, ThinsSame
    <3> QED BY <1>4, <2>1, <3>1, ThinsConcat
  <2> QED BY <1>3, <1>4, <2>1, <2>2
<1>7. ASSUME poll[t] = "committing", forwarded' = <<>>,
             PollEnds(t, "done") \/ PollEnds(t, "failed"),
             Commit(t) \/ UNCHANGED landed, UNCHANGED <<items, unrouted>>
      PROVE  \A s \in Topic : Thins(Chain(s)', Chain(s))
  <2>1. InFlight(t)
    BY <1>7 DEF InFlight
  <2>2. \A s \in Topic : InFlight(s)' => s = t
    BY <1>7, <2>1, OnlyPoll
  <2>3. ~InFlight(t)'
    BY <1>0, <1>7, PollEndsFacts DEF InFlight
  <2>4. Working(t)' = <<>> /\ Working(t) = forwarded \o <<>>
    BY <1>7, <2>1, <2>3 DEF Working, OnePoll
  <2>5. \A s \in Topic \ {t} : landed'[s] = landed[s]
    BY <1>0, <1>7 DEF Commit, RunnerTypeOK
  <2>6. Thins(Chain(t)', Chain(t))
    <3>1. CASE UNCHANGED landed
      BY <1>7, <2>4, <3>1, ThinnerParts, ThinsSame, ThinsNothing
    <3>2. CASE Commit(t)
      <4>1. landed'[t] = landed[t] \o forwarded
        BY <1>0, <3>2 DEF Commit, RunnerTypeOK
      <4>2. /\ forwarded \o <<>> = forwarded
            /\ landed[t] \o forwarded \o <<>> = landed[t] \o forwarded
        <5>1. landed[t] \in Seq(Nat) /\ forwarded \in Seq(Nat)
          BY ChainType
        <5>2. landed[t] \o forwarded \in Seq(Nat)
          BY <5>1
        <5> QED BY <5>1, <5>2, ConcatEmptySeq
      <4>3. Chain(t)' = Chain(t)
        BY <1>7, <2>4, <4>1, <4>2 DEF Chain
      <4> QED BY <4>3, ThinsSame
    <3> QED BY <1>7, <3>1, <3>2
  <2> QED BY <1>1, <1>7, <2>1, <2>2, <2>5, <2>6
<1>8. CASE CommitPage(t) \/ CommitFails(t)
  BY <1>7, <1>8 DEF CommitPage, CommitFails
<1>9. CASE SendFails(t)
  <2>1. /\ InFlight(t) /\ PollEnds(t, "failed") /\ RollBack(t)
        /\ UNCHANGED <<landed, unrouted>>
    BY <1>9 DEF SendFails, InFlight
  <2>2. \A s \in Topic : InFlight(s)' => s = t
    BY <2>1, OnlyPoll
  <2>3. ~InFlight(t)'
    BY <1>0, <2>1, PollEndsFacts DEF InFlight
  <2>4. /\ items'[t] = forwarded \o batch \o items[t]
        /\ \A s \in Topic \ {t} : items'[s] = items[s]
    BY <1>0, <2>1 DEF RollBack, ClientTypeOK
  <2>5. Working(t)' = <<>> /\ Working(t) = forwarded \o batch
    BY <2>1, <2>3 DEF Working
  <2>6. Chain(t)' = Chain(t)
    <3> DEFINE before == landed[t]
               inHand == forwarded \o batch
               rest == items[t]
    <3>1. before \in Seq(Nat) /\ inHand \in Seq(Nat) /\ rest \in Seq(Nat)
      BY <2>5, ChainType
    <3>2. /\ Chain(t) = before \o inHand \o rest \o unrouted[t]
          /\ Chain(t)' = before \o <<>> \o (inHand \o rest) \o unrouted[t]
      BY <2>1, <2>4, <2>5 DEF Chain
    <3> HIDE DEF before, inHand, rest
    <3>3. before \o <<>> = before
      BY <3>1, ConcatEmptySeq
    <3>4. before \o (inHand \o rest) = before \o inHand \o rest
      BY <3>1, Regroup
    <3> QED BY <3>2, <3>3, <3>4
  <2> QED BY <1>1, <2>1, <2>2, <2>4, <2>6, ThinsSame
<1> QED BY <1>2, <1>5, <1>6, <1>8, <1>9 DEF PollStep

\* Every step keeps the chains in order, and the broker behind them.
LEMMA InOrderStep ==
    ASSUME TypeOK, TypeOK', Routed, OnePoll, InOrder, Next
    PROVE  InOrder'
<1> USE DEF sessionVars, viewVars, clientVars, pollVars, runnerVars, boundVars
<1>0. published \in Nat /\ published' \in Nat
  BY MqttAssumption DEF TypeOK, SessionTypeOK
<1>1. ASSUME UNCHANGED <<landed, items, unrouted, poll, batch, forwarded>>
      PROVE  \A t \in Topic : Chain(t)' = Chain(t)
  BY <1>1 DEF Chain, Working, InFlight
<1>2. ASSUME UNCHANGED <<landed, items, unrouted, poll, batch, forwarded, subs, published, conn>>,
             unacked' \ sent' \subseteq unacked \ sent, pc' = "down" => pc = "down"
      PROVE  InOrder'
  BY <1>0, <1>1, <1>2, InOrderKept, ThinsSame DEF InOrder
<1>3. CASE Publish
  <2>1. \A t \in Topic : Chain(t)' = Chain(t)
    BY <1>1, <1>3 DEF Publish
  <2>2. /\ published' = published + 1 /\ UNCHANGED <<subs, unrouted, conn, sent, pc>>
        /\ unacked' \subseteq unacked \cup {published'}
    BY <1>3 DEF Publish
  <2>3. \A t \in Topic : \A x \in Range(Chain(t)) : x \in Nat /\ x <= published
    BY ChainType, RangeType DEF InOrder
  <2>4. \A t \in Topic : \A x \in Range(Chain(t)) : x <= published' /\ x < published'
    BY <1>0, <2>2, <2>3
  <2> QED BY <2>1, <2>2, <2>4 DEF InOrder
<1>4. ASSUME NEW m \in Message, PubackArrives(m) PROVE InOrder'
  BY <1>2, <1>4 DEF PubackArrives
<1>5. CASE Deliver
  <2>1. PICK m \in unacked \ sent : /\ \A n \in unacked \ sent : m <= n
                                    /\ sent' = sent \cup {m}
                                    /\ OnMessage(m)
    BY <1>5 DEF Deliver
  <2>2. /\ conn = "up" /\ conn' = "up"
        /\ UNCHANGED <<unacked, subs, published, landed, poll, batch, forwarded, pc>>
    BY <1>5 DEF Deliver
  <2>3. /\ m \in Message /\ m \in Nat /\ m <= published /\ TopicOf[m] \in Topic
        /\ \A n \in unacked : n \in Nat
    BY MqttAssumption DEF TypeOK, SessionTypeOK, Routed, Message
  <2>4. \A t \in Topic : \/ Chain(t)' = Chain(t)
                         \/ Chain(t)' = Chain(t) \o <<m>>
    <3> SUFFICES ASSUME NEW t \in Topic
                 PROVE  Chain(t)' = Chain(t) \/ Chain(t)' = Chain(t) \o <<m>>
      OBVIOUS
    <3>1. \/ items'[t] = items[t] /\ unrouted'[t] = unrouted[t]
          \/ items'[t] = Append(items[t], m) /\ unrouted'[t] = <<>> /\ unrouted[t] = <<>>
          \/ unrouted'[t] = Append(unrouted[t], m) /\ items'[t] = items[t]
      BY SMTT(30), <2>1, <2>3 DEF OnMessage, InOrder, TypeOK, ClientTypeOK
    <3>2. CASE items'[t] = items[t] /\ unrouted'[t] = unrouted[t]
      BY <2>2, <3>2 DEF Chain, Working, InFlight
    <3> QED BY <2>2, <2>3, <3>1, <3>2, ArrivalChain
  <2>5. \A t \in Topic : /\ Chain(t) \in Seq(Nat) /\ Ascending(Chain(t))
                         /\ \A x \in Range(Chain(t)) : x < m /\ x <= published
    BY <2>1, <2>2, ChainType DEF InOrder
  <2>6. \A t \in Topic : /\ Ascending(Chain(t)')
                         /\ Range(Chain(t)') \subseteq Range(Chain(t)) \cup {m}
    <3> SUFFICES ASSUME NEW t \in Topic
                 PROVE  /\ Ascending(Chain(t)')
                        /\ Range(Chain(t)') \subseteq Range(Chain(t)) \cup {m}
      OBVIOUS
    <3>1. CASE Chain(t)' = Chain(t)
      BY <2>5, <3>1
    <3>2. CASE Chain(t)' = Chain(t) \o <<m>>
      <4>1. /\ Chain(t) \in Seq(Nat) /\ Ascending(Chain(t))
            /\ \A x \in Range(Chain(t)) : x < m
        BY <2>5
      <4>2. /\ Ascending(Chain(t) \o <<m>>)
            /\ Range(Chain(t) \o <<m>>) = Range(Chain(t)) \cup {m}
        BY <2>3, <4>1, AscendingAppend
      <4> QED BY <3>2, <4>2
    <3> QED BY <2>4, <3>1, <3>2
  <2>7. \A n \in unacked' \ sent' : n \in unacked \ sent /\ m < n
    BY <2>1, <2>2, <2>3
  <2>8. \A t \in Topic : \A x \in Range(Chain(t)') :
            x <= published' /\ \A n \in unacked' \ sent' : x < n
    <3> SUFFICES ASSUME NEW t \in Topic, NEW x \in Range(Chain(t)')
                 PROVE  x <= published' /\ \A n \in unacked' \ sent' : x < n
      OBVIOUS
    <3>1. x = m \/ x \in Range(Chain(t))
      BY <2>6
    <3> QED BY <2>2, <2>3, <2>5, <2>7, <3>1 DEF InOrder
  <2>9. \A t \in subs' : unrouted'[t] = <<>>
    BY <2>1, <2>2, <2>3 DEF OnMessage, InOrder, TypeOK, ClientTypeOK
  <2> QED BY <2>2, <2>6, <2>8, <2>9 DEF InOrder
<1>6. CASE OnConnect
  <2>1. /\ conn = "connecting" /\ conn' = "up"
        /\ unrouted' = ForEach(<<>>)
        /\ UNCHANGED <<landed, items, poll, batch, forwarded, subs, published, pc>>
    BY <1>6 DEF OnConnect
  <2>2. \A t \in Topic : unrouted'[t] = <<>>
    BY <2>1 DEF ForEach
  <2>3. \A t \in Topic : Working(t)' = Working(t)
    BY <2>1 DEF Working, InFlight
  <2>4. \A t \in Topic : Thins(Chain(t)', Chain(t))
    BY <2>1, <2>2, <2>3, ThinnerParts, ThinsSame, ThinsNothing
  <2>5. \A t \in subs' : unrouted'[t] = <<>>
    BY <2>1, <2>2 DEF TypeOK, ClientTypeOK
  <2> QED BY <1>0, <2>1, <2>4, <2>5, InOrderKept DEF InOrder
<1>7. CASE OnDisconnect
  <2>1. /\ conn \in {"connecting", "up"} /\ conn' = "lost"
        /\ UNCHANGED <<landed, items, unrouted, poll, batch, forwarded, subs, published, pc>>
    BY <1>7 DEF OnDisconnect
  <2> QED BY <1>0, <1>1, <2>1, InOrderKept, ThinsSame DEF InOrder
<1>8. ASSUME \A t \in Topic : landed'[t] = <<>> /\ items'[t] = <<>> /\ unrouted'[t] = <<>>
                              /\ ~InFlight(t)',
             conn' = "off"
      PROVE  InOrder'
  <2>1. \A t \in Topic : Chain(t)' = <<>>
    <3>1. <<>> \o <<>> = <<>>
      OBVIOUS
    <3> QED BY <1>8, <3>1 DEF Chain, Working
  <2>2. Range(<<>>) = {} /\ Ascending(<<>>)
    BY DEF Range, Ascending
  <2>3. subs' \subseteq Topic
    BY DEF TypeOK, ClientTypeOK
  <2>4. \A t \in Topic : Ascending(Chain(t)') /\ Range(Chain(t)') = {}
    BY <2>1, <2>2
  <2> QED BY <1>8, <2>3, <2>4 DEF InOrder
<1>9. CASE Restart
  <2>1. \A t \in Topic : Chain(t)' = Chain(t)
    BY <1>1, <1>9 DEF Restart
  <2>2. conn' = "connecting" /\ pc' = "loading" /\ UNCHANGED <<subs, unrouted, published>>
    BY <1>9 DEF Restart
  <2>3. conn = "off"
    BY <1>9 DEF Restart, InOrder
  <2> QED BY <1>0, <2>1, <2>2, <2>3, InOrderKept, ThinsSame DEF InOrder
<1>10. CASE LoadInitialConfigs \/ ConfigChanges \/ CheckConfigUpdates
  BY <1>2, <1>10 DEF LoadInitialConfigs, ConfigChanges, CheckConfigUpdates
<1>11. CASE FirstCycle \/ IdleWakes \/ IdleTimesOut
  <2>1. /\ cycle \in {"due", "idle"} /\ Reconcile(entries)
        /\ \A t \in Topic : poll'[t] \in {"none", "queued"}
        /\ UNCHANGED <<landed, batch, forwarded, published, unacked, sent, conn, pc>>
    BY <1>11 DEF FirstCycle, IdleWakes, IdleTimesOut, PollCycle
  <2>2. \A t \in Topic : /\ items'[t] = items[t] \/ items'[t] = <<>>
                         /\ unrouted'[t] = unrouted[t] \/ unrouted'[t] = <<>>
    BY <2>1 DEF Reconcile, Dispose
  <2>3. \A t \in Topic : Working(t)' = <<>> /\ landed'[t] = landed[t]
    BY <2>1 DEF Working, InFlight
  <2>4. \A t \in Topic : Thins(Chain(t)', Chain(t))
    BY <2>2, <2>3, ThinnerParts, ThinsSame, ThinsNothing
  <2>5. \A t \in subs' : unrouted'[t] = <<>>
    <3>1. \A t \in subs' : t \in subs /\ t \in Topic
      BY <2>1 DEF Reconcile, Dispose, TypeOK, ClientTypeOK
    <3> QED BY <2>2, <3>1 DEF InOrder
  <2> QED BY <1>0, <2>1, <2>4, <2>5, InOrderKept DEF InOrder
<1>12. ASSUME NEW t \in Topic, PollStep(t) PROVE InOrder'
  <2>1. \A s \in Topic : Thins(Chain(s)', Chain(s))
    BY <1>12, PollStepChain
  <2>2. UNCHANGED <<published, conn, unacked, sent, pc>>
    BY <1>12 DEF PollStep, PollStarts, RelayMessage, DropMessage, CommitPage, SendFails, CommitFails
  <2>3. \A s \in subs' : unrouted'[s] = <<>>
    BY <1>12 DEF PollStep, PollStarts, RelayMessage, DropMessage, CommitPage, SendFails,
       CommitFails, InOrder, TypeOK, ClientTypeOK
  <2> QED BY <1>0, <2>1, <2>2, <2>3, InOrderKept DEF InOrder
<1>13. CASE Exit \/ Crash
  <2>1. ProcessGone
    BY <1>13 DEF Exit, Crash
  <2>2. \A t \in Topic : /\ landed'[t] = <<>> /\ items'[t] = <<>> /\ unrouted'[t] = <<>>
                         /\ ~InFlight(t)'
    BY <2>1 DEF ProcessGone, ForEach, InFlight
  <2> QED BY <1>8, <2>1, <2>2 DEF ProcessGone
<1> QED
  BY <1>3, <1>4, <1>5, <1>6, <1>7, <1>9, <1>10, <1>11, <1>12, <1>13 DEF Next

-----------------------------------------------------------------------------
(* The callbacks and reconcile() *)

\* What the callbacks, reconcile() and the polls do to the client's buffers keeps
\* their types, and what they drop or acknowledge the session has taken in.
LEMMA OnMessageType ==
    ASSUME TypeOK, NEW m \in unacked, OnMessage(m)
    PROVE  /\ items' \in [Topic -> Seq(Message)]
           /\ unrouted' \in [Topic -> Seq(Message)]
           /\ \A t \in Topic \ subs : items'[t] = <<>>
           /\ dropped' \subseteq absorbed
           /\ pubacks' \subseteq absorbed
           /\ wakeup' \in BOOLEAN
<1>1. m \in Message /\ m \in absorbed /\ TopicOf[m] \in Topic
  BY MqttAssumption DEF TypeOK, SessionTypeOK
<1>2. /\ \A t \in Topic : items[t] \in Seq(Message) /\ unrouted[t] \in Seq(Message)
      /\ Append(items[TopicOf[m]], m) \in Seq(Message)
      /\ Append(unrouted[TopicOf[m]], m) \in Seq(Message)
  BY <1>1 DEF TypeOK, ClientTypeOK
<1>3. items' \in [Topic -> Seq(Message)] /\ unrouted' \in [Topic -> Seq(Message)]
  BY <1>1, <1>2 DEF OnMessage, TypeOK, ClientTypeOK
<1>4. \A t \in Topic \ subs : items'[t] = <<>>
  BY <1>1 DEF OnMessage, TypeOK, ClientTypeOK
<1>5. dropped' \subseteq absorbed /\ wakeup' \in BOOLEAN
  BY <1>1 DEF OnMessage, TypeOK, ClientTypeOK
<1>6. pubacks' \subseteq absorbed
  BY <1>1 DEF OnMessage, Puback, TypeOK, SessionTypeOK
<1> QED BY <1>3, <1>4, <1>5, <1>6

\* What reconcile() gives up the session had taken in.
LEMMA ReconcileType ==
    ASSUME TypeOK, Routed, Reconcile(entries)
    PROVE  /\ filters' \subseteq Topic /\ subs' = subs \ (subs \ entries)
           /\ desired' = entries
           /\ items' = [t \in Topic |-> IF t \in subs \ entries THEN <<>> ELSE items[t]]
           /\ acks' = [t \in Topic |-> IF t \in subs \ entries THEN {} ELSE acks[t]]
           /\ unrouted' \in [Topic -> Seq(Message)]
           /\ dropped' \subseteq absorbed
           /\ pubacks' \subseteq absorbed
<1>1. \A t \in Topic : Range(items[t]) \subseteq absorbed /\ Range(unrouted[t]) \subseteq absorbed
  <2> SUFFICES ASSUME NEW t \in Topic
               PROVE  Range(items[t]) \subseteq absorbed /\ Range(unrouted[t]) \subseteq absorbed
    OBVIOUS
  <2>1. Range(items[t]) \subseteq OfTopic(t) /\ Range(unrouted[t]) \subseteq OfTopic(t)
    BY RangeType DEF Routed, TopicRouted
  <2> QED BY <2>1 DEF OfTopic
<1> DEFINE gone == subs \ entries
           stale == (UNION {Range(items[t]) : t \in gone})
                    \cup (UNION {Range(unrouted[t]) : t \in Topic \ entries})
           pending == UNION {acks[t] : t \in gone}
<1>2. stale \subseteq absorbed /\ pending \subseteq absorbed
  <2>1. \A t \in gone : t \in Topic
    BY DEF TypeOK, ClientTypeOK
  <2>2. \A x \in stale : x \in absorbed
    <3> SUFFICES ASSUME NEW x \in stale PROVE x \in absorbed
      OBVIOUS
    <3>1. \/ \E t \in gone : x \in Range(items[t])
          \/ \E t \in Topic \ entries : x \in Range(unrouted[t])
      OBVIOUS
    <3> QED BY <1>1, <2>1, <3>1
  <2>3. \A t \in Topic : acks[t] \subseteq absorbed
    BY DEF Routed, TopicRouted, OfTopic
  <2>4. \A x \in pending : x \in absorbed
    BY <2>1, <2>3
  <2> QED BY <2>2, <2>4
<1> HIDE DEF stale, pending
<1>3. dropped' = dropped \cup stale /\ Puback(stale \cup pending)
  BY DEF Reconcile, stale, pending
<1>4. dropped' \subseteq absorbed /\ pubacks' \subseteq absorbed
  BY <1>2, <1>3 DEF Puback, TypeOK, SessionTypeOK, ClientTypeOK
<1>5. unrouted' \in [Topic -> Seq(Message)]
  BY DEF Reconcile, TypeOK, ClientTypeOK
<1> QED BY <1>4, <1>5 DEF Reconcile, Dispose, TypeOK, SessionTypeOK

\* Every step keeps the types, and leaves nothing in a view that is disposed of.
LEMMA TypeStep ==
    ASSUME TypeOK, Routed, OnePoll, Next
    PROVE  TypeOK'
<1> USE DEF TypeOK, SessionTypeOK, ClientTypeOK, RunnerTypeOK, sessionVars, viewVars,
        clientVars, pollVars, runnerVars, boundVars
<1>1. CASE Publish
  <2>1. published' \in 0..NumMessages /\ published' \in Message
    BY <1>1, MqttAssumption DEF Publish, Message
  <2>2. /\ absorbed' \subseteq absorbed \cup {published'} /\ absorbed \subseteq absorbed'
        /\ unacked' \subseteq absorbed' /\ unacked \subseteq unacked'
    BY <1>1 DEF Publish
  <2>3. UNCHANGED <<filters, sent, pubacks, configs, output, clientVars, runnerVars, boundVars>>
    BY <1>1 DEF Publish
  <2>4. SessionTypeOK'
    BY <2>1, <2>2, <2>3
  <2>5. ClientTypeOK' /\ RunnerTypeOK'
    BY <2>2, <2>3
  <2> QED BY <2>3, <2>4, <2>5
<1>2. ASSUME NEW m \in Message, PubackArrives(m) PROVE TypeOK'
  BY <1>2 DEF PubackArrives
<1>3. CASE Deliver
  <2>1. PICK m \in unacked \ sent : sent' = sent \cup {m} /\ OnMessage(m)
    BY <1>3 DEF Deliver
  <2> QED BY <1>3, <2>1, OnMessageType DEF Deliver
<1>4. CASE OnConnect
  BY <1>4 DEF OnConnect, ForEach, Connection
<1>5. CASE OnDisconnect
  BY <1>5, FaultType DEF OnDisconnect, Fault, Connection
<1>6. CASE Restart
  BY <1>6 DEF Restart, Connection, Location
<1>7. CASE LoadInitialConfigs
  BY <1>7 DEF LoadInitialConfigs, Cycle, Location
<1>8. CASE ConfigChanges
  BY SMTT(30), <1>8, MqttAssumption DEF ConfigChanges
<1>9. CASE CheckConfigUpdates
  BY <1>9 DEF CheckConfigUpdates
<1>10. ASSUME PollCycle, wakeup' \in BOOLEAN PROVE TypeOK'
  <2>1. Reconcile(entries)
    BY <1>10 DEF PollCycle
  <2>2. SessionTypeOK'
    <3>1. filters' \subseteq Topic /\ pubacks' \subseteq absorbed
      BY <2>1, ReconcileType
    <3> QED BY <1>10, <3>1 DEF PollCycle
  <2>3. ClientTypeOK' /\ \A t \in Topic \ subs' : items'[t] = <<>> /\ acks'[t] = {}
    <3>1. /\ desired' = entries /\ subs' = subs \ (subs \ entries)
          /\ items' = [t \in Topic |-> IF t \in subs \ entries THEN <<>> ELSE items[t]]
          /\ acks' = [t \in Topic |-> IF t \in subs \ entries THEN {} ELSE acks[t]]
          /\ unrouted' \in [Topic -> Seq(Message)]
          /\ dropped' \subseteq absorbed
      BY <2>1, ReconcileType
    <3>2. UNCHANGED <<conn, absorbed>>
      BY <1>10 DEF PollCycle
    <3>3. ClientTypeOK'
      BY <1>10, <3>1, <3>2
    <3>4. \A t \in Topic \ subs' : items'[t] = <<>> /\ acks'[t] = {}
      BY <3>1
    <3> QED BY <3>3, <3>4
  <2>4. RunnerTypeOK'
    BY <1>10 DEF PollCycle, Poll, Cycle
  <2> QED BY <2>2, <2>3, <2>4
<1>11. CASE FirstCycle
  BY <1>10, <1>11 DEF FirstCycle
<1>12. CASE IdleWakes
  BY <1>10, <1>12 DEF IdleWakes
<1>13. CASE IdleTimesOut
  BY <1>10, <1>13 DEF IdleTimesOut
<1>14. ASSUME NEW t \in Topic, PollStarts(t) PROVE TypeOK'
  <2> DEFINE held == IF t \in subs THEN <<>> ELSE unrouted[t]
             buffer == held \o items[t]
             size == IF Len(buffer) < DrainLimit THEN Len(buffer) ELSE DrainLimit
             left == SubSeq(buffer, size + 1, Len(buffer))
  <2>1. buffer \in Seq(Message)
    OBVIOUS
  <2>3. SubSeq(buffer, 1, size) \in Seq(Message) /\ left \in Seq(Message)
    BY <2>1, DrainType
  <2> HIDE DEF size, left, buffer, held
  <2>4. /\ subs' = subs \cup {t}
        /\ filters' \subseteq Topic
        /\ unrouted' \in [Topic -> Seq(Message)]
        /\ items' = [items EXCEPT ![t] = left]
        /\ AckAllPending(t)
        /\ Rearm(left)
        /\ batch' = SubSeq(buffer, 1, size)
    BY <1>14 DEF PollStarts, size, left, buffer, held
  <2>5. poll' \in [Topic -> Poll] /\ cycle' \in Cycle
    <3>1. CASE PollEnds(t, "done") \/ PollEnds(t, "failed")
      BY <3>1, PollEndsType
    <3>2. CASE poll' = [poll EXCEPT ![t] = "relaying"] /\ UNCHANGED cycle
      BY <3>2 DEF Poll
    <3> QED BY <1>14, <3>1, <3>2 DEF PollStarts
  <2>6. /\ acks' \in [Topic -> SUBSET Message] /\ pubacks' \subseteq absorbed
        /\ \A s \in Topic : acks'[s] \subseteq acks[s]
    BY <2>4 DEF AckAllPending, Puback, Routed, TopicRouted, OfTopic
  <2>7. wakeup' \in BOOLEAN
    BY <2>4, Zenon DEF Rearm
  <2>8. /\ UNCHANGED <<published, absorbed, unacked, sent, configs, output, conn>>
        /\ UNCHANGED <<desired, dropped, pc, entries, forwarded, landed, boundVars>>
    BY <1>14 DEF PollStarts
  <2>9. SessionTypeOK' /\ RunnerTypeOK'
    BY <2>3, <2>4, <2>5, <2>6, <2>8
  <2>10. ClientTypeOK'
    BY <2>3, <2>4, <2>6, <2>7, <2>8
  <2>11. \A s \in Topic \ subs' : items'[s] = <<>> /\ acks'[s] = {}
    BY <2>4, <2>6
  <2> QED BY <2>9, <2>10, <2>11
<1>15. ASSUME NEW t \in Topic, RelayMessage(t) PROVE TypeOK'
  <2>1. /\ batch' \in Seq(Message) /\ forwarded' \in Seq(Message) /\ Head(batch) \in Message
        /\ t \in subs
    BY <1>15, PollBuffers DEF RelayMessage, Advance, InFlight, OnePoll
  <2>2. poll' \in [Topic -> Poll] /\ cycle' \in Cycle
    BY <1>15, PollEndsType DEF RelayMessage, Advance, Poll
  <2> QED BY <1>15, <2>1, <2>2 DEF RelayMessage
<1>16. ASSUME NEW t \in Topic, DropMessage(t) PROVE TypeOK'
  <2>1. /\ batch' \in Seq(Message) /\ forwarded' \in Seq(Message) /\ Head(batch) \in absorbed
    <3>1. InFlight(t) /\ poll[t] = "relaying"
      BY <1>16 DEF DropMessage, InFlight
    <3>2. Head(batch) \in absorbed /\ Tail(batch) \in Seq(Message)
      <4>1. Head(batch) \in OfTopic(t) /\ Len(batch) >= 1
        BY <3>1, PollBuffers
      <4>2. batch # <<>>
        BY <4>1
      <4> QED BY <4>1, <4>2 DEF OfTopic
    <3> QED BY <1>16, <3>2 DEF DropMessage, Advance
  <2>2. poll' \in [Topic -> Poll] /\ cycle' \in Cycle
    BY <1>16, PollEndsType DEF DropMessage, Advance, Poll
  <2> QED BY <1>16, <2>1, <2>2 DEF DropMessage, Puback
<1>17. ASSUME NEW t \in Topic, Commit(t), InFlight(t)
       PROVE  output' \subseteq absorbed /\ landed' \in [Topic -> Seq(Message)]
  BY <1>17, PollBuffers DEF Commit
<1>18. ASSUME NEW t \in Topic, CommitPage(t) PROVE TypeOK'
  <2>1. output' \subseteq absorbed /\ landed' \in [Topic -> Seq(Message)]
    BY <1>17, <1>18 DEF CommitPage, InFlight
  <2>2. poll' \in [Topic -> Poll] /\ cycle' \in Cycle
    BY <1>18, PollEndsType DEF CommitPage
  <2> QED BY <1>18, <2>1, <2>2 DEF CommitPage
<1>19. ASSUME NEW t \in Topic, SendFails(t) PROVE TypeOK'
  <2>1. forwarded \o batch \o items[t] \in Seq(Message)
    OBVIOUS
  <2>2. t \in subs
    BY <1>19 DEF SendFails, OnePoll, InFlight
  <2>3. poll' \in [Topic -> Poll] /\ cycle' \in Cycle
    BY <1>19, PollEndsType DEF SendFails
  <2>4. faults' \in 0..MaxFaults /\ changes' \in 0..MaxChanges
    BY <1>19, FaultType DEF SendFails
  <2>5. items' \in [Topic -> Seq(Message)] /\ acks' \in [Topic -> SUBSET Message]
    BY <1>19, <2>1 DEF SendFails, RollBack
  <2>6. \A s \in Topic \ subs : items'[s] = <<>> /\ acks'[s] = {}
    BY <1>19, <2>2 DEF SendFails, RollBack
  <2>7. batch' = <<>> /\ forwarded' = <<>>
    BY <1>19 DEF SendFails
  <2>8. /\ UNCHANGED <<sessionVars, configs, output, conn, desired, subs, unrouted>>
        /\ UNCHANGED <<wakeup, dropped, pc, entries, landed>>
    BY <1>19 DEF SendFails
  <2> QED BY <2>3, <2>4, <2>5, <2>6, <2>7, <2>8
<1>20. ASSUME NEW t \in Topic, CommitFails(t) PROVE TypeOK'
  <2>1. output' \subseteq absorbed /\ landed' \in [Topic -> Seq(Message)]
    BY <1>17, <1>20 DEF CommitFails, InFlight
  <2>2. poll' \in [Topic -> Poll] /\ cycle' \in Cycle
    BY <1>20, PollEndsType DEF CommitFails
  <2> QED BY <1>20, <2>1, <2>2, FaultType DEF CommitFails, Fault
<1>21. ASSUME ProcessGone, faults' \in 0..MaxFaults, changes' \in 0..MaxChanges PROVE TypeOK'
  <2>1. /\ ForEach(<<>>) \in [Topic -> Seq(Message)]
        /\ ForEach({}) \in [Topic -> SUBSET Message]
        /\ ForEach("none") \in [Topic -> Poll]
        /\ \A t \in Topic : ForEach(<<>>)[t] = <<>> /\ ForEach({})[t] = {}
    BY DEF ForEach, Poll
  <2>2. SessionTypeOK'
    BY <1>21 DEF ProcessGone
  <2>3. ClientTypeOK'
    BY <1>21, <2>1 DEF ProcessGone, Connection
  <2>4. RunnerTypeOK'
    BY <1>21, <2>1 DEF ProcessGone, Location, Cycle
  <2> QED BY <1>21, <2>1, <2>2, <2>3, <2>4 DEF ProcessGone
<1>22. CASE Exit
  BY <1>21, <1>22 DEF Exit
<1>23. CASE Crash
  BY <1>21, <1>23, FaultType DEF Crash
<1> QED
  BY <1>1, <1>2, <1>3, <1>4, <1>5, <1>6, <1>7, <1>8, <1>9, <1>11, <1>12, <1>13, <1>14,
     <1>15, <1>16, <1>18, <1>19, <1>20, <1>22, <1>23
     DEF Next, PollStep

\* One poll at a time is between taking the lock and the end of its transaction,
\* and batch and forwarded are its.
LEMMA OnePollStep ==
    ASSUME TypeOK, Routed, OnePoll, Next
    PROVE  OnePoll'
<1> USE DEF TypeOK, ClientTypeOK, RunnerTypeOK, OnePoll, InFlight, LockHeld, sessionVars,
        viewVars, clientVars, pollVars, runnerVars, boundVars
<1>1. CASE Publish
  BY <1>1 DEF Publish
<1>2. ASSUME NEW m \in Message, PubackArrives(m) PROVE OnePoll'
  BY <1>2 DEF PubackArrives
<1>3. CASE Deliver
  BY <1>3 DEF Deliver
<1>4. CASE OnConnect
  BY <1>4 DEF OnConnect
<1>5. CASE OnDisconnect
  BY <1>5 DEF OnDisconnect
<1>6. CASE Restart
  BY <1>6 DEF Restart
<1>7. CASE LoadInitialConfigs
  BY <1>7 DEF LoadInitialConfigs
<1>8. CASE ConfigChanges
  BY <1>8 DEF ConfigChanges
<1>9. CASE CheckConfigUpdates
  BY <1>9 DEF CheckConfigUpdates
<1>10. ASSUME PollCycle, cycle \in {"due", "idle"} PROVE OnePoll'
  <2>1. \A t \in Topic : poll[t] = "none" /\ poll'[t] \in {"none", "queued"}
    BY <1>10 DEF PollCycle
  <2>2. ~LockHeld /\ ~LockHeld' /\ (\A t \in Topic : ~InFlight(t)')
    BY <2>1
  <2>3. batch' = <<>> /\ forwarded' = <<>> /\ pc' = "running"
    BY <1>10, <2>2 DEF PollCycle
  <2>4. \A t \in Topic : poll'[t] # "none" => cycle' = "polling"
    BY <1>10 DEF PollCycle
  <2> QED BY <2>1, <2>2, <2>3, <2>4
<1>11. CASE FirstCycle
  BY <1>10, <1>11 DEF FirstCycle
<1>12. CASE IdleWakes
  BY <1>10, <1>12 DEF IdleWakes
<1>13. CASE IdleTimesOut
  BY <1>10, <1>13 DEF IdleTimesOut
<1>14. ASSUME NEW t \in Topic, NEW result \in {"done", "failed"}, PollEnds(t, result),
              ~LockHeld \/ InFlight(t), batch' = <<>>, forwarded' = <<>>,
              subs' = subs \/ subs' = subs \cup {t}, cycle = "polling", UNCHANGED pc
       PROVE  OnePoll'
  <2>1. ~LockHeld'
    BY <1>14, PollEndsFacts
  <2>2. \A s \in Topic : poll'[s] # "none" => cycle' = "polling"
    BY <1>14, PollEndsFacts
  <2> QED BY <1>14, <2>1, <2>2
<1>15. ASSUME NEW t \in Topic, PollStarts(t) PROVE OnePoll'
  <2> DEFINE held == IF t \in subs THEN <<>> ELSE unrouted[t]
             buffer == held \o items[t]
             size == IF Len(buffer) < DrainLimit THEN Len(buffer) ELSE DrainLimit
  <2>1. buffer \in Seq(Message)
    OBVIOUS
  <2>2. size = IF Len(buffer) < DrainLimit THEN Len(buffer) ELSE DrainLimit
    OBVIOUS
  <2> HIDE DEF size, buffer, held
  <2>3. size \in Nat /\ (SubSeq(buffer, 1, size) = <<>> <=> size = 0)
    BY <2>1, <2>2, DrainType
  <2>4. /\ poll[t] = "queued" /\ ~LockHeld
        /\ subs' = subs \cup {t}
        /\ batch' = SubSeq(buffer, 1, size)
        /\ \/ size > 0 /\ poll' = [poll EXCEPT ![t] = "relaying"] /\ UNCHANGED cycle
           \/ size = 0 /\ (PollEnds(t, "failed") \/ PollEnds(t, "done"))
        /\ UNCHANGED <<forwarded, pc>>
    BY <1>15 DEF PollStarts, size, buffer, held
  <2>5. CASE size > 0 /\ poll' = [poll EXCEPT ![t] = "relaying"] /\ UNCHANGED cycle
    <3>1. size # 0
      BY <2>3, <2>5
    <3>2. batch' # <<>>
      BY <2>3, <2>4, <3>1
    <3> QED BY <2>4, <2>5, <3>2
  <2>6. CASE size = 0 /\ (PollEnds(t, "failed") \/ PollEnds(t, "done"))
    <3>1. batch' = <<>> /\ forwarded' = <<>>
      BY <2>3, <2>4, <2>6
    <3> QED BY <1>14, <2>4, <2>6, <3>1
  <2> QED BY <2>4, <2>5, <2>6
<1>16. ASSUME NEW t \in Topic, NEW opened, Advance(t, opened), poll[t] = "relaying",
              UNCHANGED <<subs, pc>>
       PROVE  OnePoll'
  <2>1. /\ InFlight(t) /\ t \in subs /\ cycle = "polling" /\ batch # <<>>
        /\ \A s \in Topic : InFlight(s) => s = t
    BY <1>16
  <2>2. /\ Len(batch) > 1 => Tail(batch) # <<>>
        /\ Len(batch) = 1 => Tail(batch) = <<>>
    BY TailEnds
  <2>3. CASE Len(batch) > 1 /\ UNCHANGED <<poll, cycle>>
    <3>1. batch' # <<>>
      BY <1>16, <2>2, <2>3 DEF Advance
    <3> QED BY <1>16, <2>1, <2>3, <3>1
  <2>4. CASE Len(batch) = 1 /\ poll' = [poll EXCEPT ![t] = "committing"] /\ UNCHANGED cycle
    <3>1. batch' = <<>>
      BY <1>16, <2>2, <2>4 DEF Advance
    <3> QED BY <1>16, <2>1, <2>4, <3>1
  <2>5. CASE Len(batch) = 1 /\ opened = <<>> /\ PollEnds(t, "done")
    <3>1. batch' = <<>> /\ forwarded' = <<>>
      BY <1>16, <2>2, <2>5 DEF Advance
    <3> QED BY <1>14, <1>16, <2>1, <2>5, <3>1
  <2> QED BY <1>16, <2>3, <2>4, <2>5 DEF Advance
<1>17. ASSUME NEW t \in Topic, RelayMessage(t) PROVE OnePoll'
  BY <1>16, <1>17 DEF RelayMessage
<1>18. ASSUME NEW t \in Topic, DropMessage(t) PROVE OnePoll'
  BY <1>16, <1>18 DEF DropMessage
<1>19. ASSUME NEW t \in Topic, CommitPage(t) PROVE OnePoll'
  BY <1>14, <1>19 DEF CommitPage
<1>20. ASSUME NEW t \in Topic, SendFails(t) PROVE OnePoll'
  BY <1>14, <1>20 DEF SendFails
<1>21. ASSUME NEW t \in Topic, CommitFails(t) PROVE OnePoll'
  BY <1>14, <1>21 DEF CommitFails
<1>22. CASE Exit
  BY <1>22 DEF Exit, ProcessGone, ForEach
<1>23. CASE Crash
  BY <1>23 DEF Crash, ProcessGone, ForEach
<1> QED
  BY <1>1, <1>2, <1>3, <1>4, <1>5, <1>6, <1>7, <1>8, <1>9, <1>11, <1>12, <1>13, <1>15,
     <1>17, <1>18, <1>19, <1>20, <1>21, <1>22, <1>23
     DEF Next, PollStep

\* A buffer holds messages of its topic only, wherever they move between the
\* broker, unrouted, items, batch and forwarded.
LEMMA RoutedStep ==
    ASSUME TypeOK, Routed, OnePoll, Next
    PROVE  Routed'
<1> USE DEF sessionVars, viewVars, clientVars, pollVars, runnerVars, boundVars
<1>1. CASE Publish
  <2>1. /\ \A m \in absorbed' : m <= published'
        /\ absorbed \subseteq absorbed'
    <3>1. /\ published' = published + 1
          /\ absorbed' \in {absorbed, absorbed \cup {published + 1}}
      BY <1>1 DEF Publish
    <3>2. published \in Nat /\ absorbed \subseteq Nat
      BY DEF TypeOK, SessionTypeOK, Message
    <3>3. \A m \in absorbed : m <= published
      BY DEF Routed
    <3> QED BY <3>1, <3>2, <3>3
  <2>2. ASSUME NEW s \in Topic PROVE TopicRouted(s)'
    <3>1. OfTopic(s) \subseteq OfTopic(s)'
      BY <2>1 DEF OfTopic
    <3>2. \A seq \in Seq(OfTopic(s)) : seq \in Seq(OfTopic(s)')
      BY <3>1, SeqMonotonic
    <3>3. TopicRouted(s)
      BY DEF Routed
    <3>4. UNCHANGED <<items, unrouted, acks, batch, forwarded, poll>>
      BY <1>1 DEF Publish
    <3>5. InFlight(s)' = InFlight(s)
      BY <3>4 DEF InFlight
    <3> QED BY <3>1, <3>2, <3>3, <3>4, <3>5 DEF TopicRouted
  <2> QED BY <2>1, <2>2 DEF Routed
<1>2. ASSUME UNCHANGED <<absorbed, published>>, \A s \in Topic : TopicRouted(s)' PROVE Routed'
  BY <1>2 DEF Routed
<1>3. ASSUME UNCHANGED <<absorbed, published, items, unrouted, acks, poll, batch, forwarded>>
      PROVE  Routed'
  BY <1>3 DEF Routed, TopicRouted, OfTopic, InFlight
<1>4. ASSUME NEW m \in Message, PubackArrives(m) PROVE Routed'
  BY <1>3, <1>4 DEF PubackArrives
<1>5. CASE Deliver
  <2>1. PICK m \in unacked : OnMessage(m)
    BY <1>5 DEF Deliver
  <2>2. m \in OfTopic(TopicOf[m])
    BY DEF TypeOK, SessionTypeOK, OfTopic
  <2>3. ASSUME NEW s \in Topic PROVE TopicRouted(s)'
    <3>1. /\ UNCHANGED <<absorbed, acks, poll, batch, forwarded>>
          /\ \/ UNCHANGED <<items, unrouted>>
             \/ items' = [items EXCEPT ![TopicOf[m]] = Append(@, m)] /\ UNCHANGED unrouted
             \/ unrouted' = [unrouted EXCEPT ![TopicOf[m]] = Append(@, m)] /\ UNCHANGED items
      BY <1>5, <2>1 DEF Deliver, OnMessage
    <3>2. OfTopic(s)' = OfTopic(s) /\ InFlight(s)' = InFlight(s)
      BY <3>1 DEF OfTopic, InFlight
    <3>3. items'[s] \in Seq(OfTopic(s)) /\ unrouted'[s] \in Seq(OfTopic(s))
      <4>1. items[s] \in Seq(OfTopic(s)) /\ unrouted[s] \in Seq(OfTopic(s))
        BY DEF Routed, TopicRouted
      <4>2. s = TopicOf[m] => /\ Append(items[s], m) \in Seq(OfTopic(s))
                             /\ Append(unrouted[s], m) \in Seq(OfTopic(s))
        BY <2>2, <4>1
      <4>3. /\ items'[s] = items[s] \/ (s = TopicOf[m] /\ items'[s] = Append(items[s], m))
            /\ \/ unrouted'[s] = unrouted[s]
               \/ s = TopicOf[m] /\ unrouted'[s] = Append(unrouted[s], m)
        BY <3>1 DEF TypeOK, ClientTypeOK
      <4> QED BY <4>1, <4>2, <4>3
    <3> QED BY <3>1, <3>2, <3>3 DEF Routed, TopicRouted
  <2> QED BY <1>2, <1>5, <2>3 DEF Deliver
<1>6. ASSUME UNCHANGED <<absorbed, published, items, poll, batch, forwarded>>,
             unrouted' = ForEach(<<>>), acks' = ForEach({})
      PROVE  Routed'
  BY <1>6 DEF Routed, TopicRouted, OfTopic, InFlight, ForEach
<1>7. CASE OnConnect
  BY <1>6, <1>7 DEF OnConnect
<1>8. CASE OnDisconnect
  BY <1>3, <1>8 DEF OnDisconnect
<1>9. CASE Restart
  BY <1>3, <1>9 DEF Restart
<1>10. CASE LoadInitialConfigs
  BY <1>3, <1>10 DEF LoadInitialConfigs
<1>11. CASE ConfigChanges
  BY <1>3, <1>11 DEF ConfigChanges
<1>12. CASE CheckConfigUpdates
  BY <1>3, <1>12 DEF CheckConfigUpdates
<1>13. ASSUME PollCycle PROVE Routed'
  <2>1. /\ UNCHANGED <<absorbed, published, batch, forwarded>>
        /\ \A s \in Topic : poll'[s] \in {"none", "queued"}
        /\ Reconcile(entries)
    BY <1>13 DEF PollCycle
  <2>2. \A s \in Topic : /\ items'[s] = items[s] \/ items'[s] = <<>>
                         /\ acks'[s] \subseteq acks[s]
                         /\ unrouted'[s] = unrouted[s] \/ unrouted'[s] = <<>>
    BY <2>1 DEF Reconcile, Dispose
  <2>3. ASSUME NEW s \in Topic PROVE TopicRouted(s)'
    <3>1. OfTopic(s)' = OfTopic(s) /\ ~InFlight(s)'
      BY <2>1 DEF OfTopic, InFlight
    <3>2. <<>> \in Seq(OfTopic(s))
      OBVIOUS
    <3> QED BY <2>2, <3>1, <3>2 DEF Routed, TopicRouted
  <2> QED BY <1>2, <2>1, <2>3
<1>14. CASE FirstCycle \/ IdleWakes \/ IdleTimesOut
  BY <1>13, <1>14 DEF FirstCycle, IdleWakes, IdleTimesOut
<1>15. ASSUME NEW t \in Topic, PollStarts(t) PROVE Routed'
  <2> DEFINE held == IF t \in subs THEN <<>> ELSE unrouted[t]
             buffer == held \o items[t]
             size == IF Len(buffer) < DrainLimit THEN Len(buffer) ELSE DrainLimit
             left == SubSeq(buffer, size + 1, Len(buffer))
  <2>1. buffer \in Seq(OfTopic(t))
    BY DEF Routed, TopicRouted
  <2>2. size = IF Len(buffer) < DrainLimit THEN Len(buffer) ELSE DrainLimit
    OBVIOUS
  <2>3. SubSeq(buffer, 1, size) \in Seq(OfTopic(t)) /\ left \in Seq(OfTopic(t))
    BY <2>1, <2>2, DrainType
  <2> HIDE DEF size, left, buffer, held
  <2>4. /\ ~LockHeld
        /\ unrouted' = unrouted \/ unrouted' = [unrouted EXCEPT ![t] = <<>>]
        /\ items' = [items EXCEPT ![t] = left]
        /\ AckAllPending(t)
        /\ batch' = SubSeq(buffer, 1, size)
        /\ \/ poll' = [poll EXCEPT ![t] = "relaying"]
           \/ PollEnds(t, "failed") \/ PollEnds(t, "done")
        /\ UNCHANGED <<absorbed, published, forwarded>>
    BY <1>15 DEF PollStarts, size, left, buffer, held
  <2>5. \A s \in Topic : InFlight(s)' => s = t
    <3>1. RunnerTypeOK
      BY DEF TypeOK
    <3>2. CASE poll' = [poll EXCEPT ![t] = "relaying"]
      BY <2>4, <3>1, <3>2 DEF LockHeld, InFlight, RunnerTypeOK
    <3>3. CASE PollEnds(t, "failed") \/ PollEnds(t, "done")
      BY <2>4, <3>1, <3>3, PollEndsFacts DEF LockHeld, InFlight
    <3> QED BY <2>4, <3>2, <3>3
  <2>6. forwarded = <<>>
    BY <2>4 DEF OnePoll
  <2>7. ASSUME NEW s \in Topic PROVE TopicRouted(s)'
    <3>1. OfTopic(s)' = OfTopic(s)
      BY <2>4 DEF OfTopic
    <3>2. items'[s] \in Seq(OfTopic(s)) /\ unrouted'[s] \in Seq(OfTopic(s))
      <4>1. items[s] \in Seq(OfTopic(s)) /\ unrouted[s] \in Seq(OfTopic(s))
            /\ <<>> \in Seq(OfTopic(s))
        BY DEF Routed, TopicRouted
      <4>2. /\ items'[s] = items[s] \/ (s = t /\ items'[s] = left)
            /\ unrouted'[s] = unrouted[s] \/ unrouted'[s] = <<>>
        BY <2>4 DEF TypeOK, ClientTypeOK
      <4> QED BY <2>3, <4>1, <4>2
    <3>3. acks'[s] \subseteq OfTopic(s)
      BY <2>4 DEF AckAllPending, Routed, TopicRouted, TypeOK, ClientTypeOK
    <3>4. InFlight(s)' => batch' \in Seq(OfTopic(s)) /\ forwarded' \in Seq(OfTopic(s))
      BY <2>3, <2>4, <2>5, <2>6
    <3> QED BY <3>1, <3>2, <3>3, <3>4 DEF TopicRouted
  <2> QED BY <1>2, <2>4, <2>7
<1>16. ASSUME NEW t \in Topic, InFlight(t), NEW S, S = OfTopic(t),
              UNCHANGED <<absorbed, published, unrouted>>,
              \A s \in Topic : InFlight(s)' => s = t,
              items'[t] \in Seq(S), acks'[t] \subseteq S,
              batch' \in Seq(S), forwarded' \in Seq(S),
              \A s \in Topic \ {t} : items'[s] = items[s] /\ acks'[s] = acks[s]
       PROVE  Routed'
  <2>1. ASSUME NEW s \in Topic PROVE TopicRouted(s)'
    <3>1. OfTopic(s)' = OfTopic(s)
      BY <1>16 DEF OfTopic
    <3> QED BY <1>16, <3>1 DEF Routed, TopicRouted
  <2> QED BY <1>2, <1>16, <2>1
<1>17. ASSUME NEW t \in Topic, RelayMessage(t) PROVE Routed'
  <2>1. InFlight(t) /\ poll[t] = "relaying"
    BY <1>17 DEF RelayMessage, InFlight
  <2>2. Head(batch) \in OfTopic(t) /\ Tail(batch) \in Seq(OfTopic(t))
    BY <2>1, PollBuffers
  <2>3. TopicRouted(t) /\ forwarded \in Seq(OfTopic(t))
    BY <2>1 DEF Routed, TopicRouted
  <2>4. batch' \in Seq(OfTopic(t)) /\ forwarded' \in Seq(OfTopic(t))
    BY <1>17, <2>2, <2>3 DEF RelayMessage, Advance
  <2>5. \A s \in Topic : InFlight(s)' => s = t
    BY <1>17, <2>1, OnlyPoll DEF RelayMessage, Advance
  <2>6. /\ acks'[t] \subseteq OfTopic(t) /\ items' = items
        /\ \A s \in Topic \ {t} : acks'[s] = acks[s]
    BY <1>17, <2>2, <2>3 DEF RelayMessage, TopicRouted, TypeOK, ClientTypeOK
  <2> QED BY <1>16, <1>17, <2>1, <2>3, <2>4, <2>5, <2>6 DEF RelayMessage, TopicRouted
<1>18. ASSUME NEW t \in Topic, DropMessage(t) PROVE Routed'
  <2>1. InFlight(t) /\ poll[t] = "relaying"
    BY <1>18 DEF DropMessage, InFlight
  <2>2. Tail(batch) \in Seq(OfTopic(t))
    BY <2>1, PollBuffers
  <2>3. TopicRouted(t) /\ forwarded \in Seq(OfTopic(t))
    BY <2>1 DEF Routed, TopicRouted
  <2>4. batch' \in Seq(OfTopic(t)) /\ forwarded' \in Seq(OfTopic(t))
    BY <1>18, <2>2, <2>3 DEF DropMessage, Advance
  <2>5. \A s \in Topic : InFlight(s)' => s = t
    BY <1>18, <2>1, OnlyPoll DEF DropMessage, Advance
  <2> QED BY <1>16, <1>18, <2>1, <2>3, <2>4, <2>5 DEF DropMessage, TopicRouted
<1>19. ASSUME NEW t \in Topic, InFlight(t), PollEnds(t, "done") \/ PollEnds(t, "failed"),
              forwarded' = <<>>, batch' = <<>> \/ batch' = batch,
              UNCHANGED <<absorbed, published, items, unrouted, acks>>
       PROVE  Routed'
  <2>1. TopicRouted(t) /\ batch \in Seq(OfTopic(t)) /\ <<>> \in Seq(OfTopic(t))
    BY <1>19 DEF Routed, TopicRouted
  <2>2. \A s \in Topic : InFlight(s)' => s = t
    BY <1>19, OnlyPoll
  <2> QED BY <1>16, <1>19, <2>1, <2>2 DEF TopicRouted
<1>20. ASSUME NEW t \in Topic, CommitPage(t) PROVE Routed'
  BY <1>19, <1>20 DEF CommitPage, InFlight
<1>21. ASSUME NEW t \in Topic, SendFails(t) PROVE Routed'
  <2>1. InFlight(t)
    BY <1>21 DEF SendFails, InFlight
  <2>2. TopicRouted(t) /\ forwarded \in Seq(OfTopic(t)) /\ batch \in Seq(OfTopic(t))
        /\ items[t] \in Seq(OfTopic(t))
    BY <2>1 DEF Routed, TopicRouted
  <2>3. forwarded \o batch \o items[t] \in Seq(OfTopic(t)) /\ <<>> \in Seq(OfTopic(t))
    BY <2>2
  <2>4. \A s \in Topic : InFlight(s)' => s = t
    BY <1>21, <2>1, OnlyPoll DEF SendFails
  <2>5. /\ items'[t] \in Seq(OfTopic(t))
        /\ acks'[t] \subseteq OfTopic(t)
        /\ \A s \in Topic \ {t} : items'[s] = items[s] /\ acks'[s] = acks[s]
    BY <1>21, <2>2, <2>3 DEF SendFails, RollBack, TopicRouted, TypeOK, ClientTypeOK
  <2> QED BY <1>16, <1>21, <2>1, <2>3, <2>4, <2>5 DEF SendFails
<1>22. ASSUME NEW t \in Topic, CommitFails(t) PROVE Routed'
  BY <1>19, <1>22 DEF CommitFails, InFlight
<1>23. ASSUME ProcessGone PROVE Routed'
  <2>1. ASSUME NEW s \in Topic PROVE TopicRouted(s)'
    <3>1. items'[s] = <<>> /\ unrouted'[s] = <<>> /\ acks'[s] = {} /\ ~InFlight(s)'
      BY <1>23 DEF ProcessGone, ForEach, InFlight
    <3> QED BY <3>1 DEF TopicRouted
  <2> QED BY <1>2, <1>23, <2>1 DEF ProcessGone
<1>24. CASE Exit \/ Crash
  BY <1>23, <1>24 DEF Exit, Crash
<1> QED
  BY <1>1, <1>4, <1>5, <1>7, <1>8, <1>9, <1>10, <1>11, <1>12, <1>14, <1>15, <1>17, <1>18,
     <1>20, <1>21, <1>22, <1>24
     DEF Next, PollStep

\* A lasting config is never missing from what reconcile() is called with.
LEMMA LastingKeptStep ==
    ASSUME TypeOK, OnePoll, LastingKept, Next
    PROVE  LastingKept'
<1> USE DEF TypeOK, RunnerTypeOK, OnePoll, LastingKept, sessionVars, viewVars, clientVars, pollVars,
        runnerVars, boundVars
<1>1. CASE Publish
  BY <1>1 DEF Publish
<1>2. ASSUME NEW m \in Message, PubackArrives(m) PROVE LastingKept'
  BY <1>2 DEF PubackArrives
<1>3. CASE Deliver
  BY <1>3 DEF Deliver
<1>4. CASE OnConnect \/ OnDisconnect
  BY <1>4 DEF OnConnect, OnDisconnect
<1>5. CASE Restart
  BY <1>5 DEF Restart
<1>6. CASE LoadInitialConfigs
  BY <1>6 DEF LoadInitialConfigs
<1>7. CASE ConfigChanges
  BY <1>7 DEF ConfigChanges
<1>8. CASE CheckConfigUpdates
  BY <1>8 DEF CheckConfigUpdates
<1>9. CASE FirstCycle \/ IdleWakes \/ IdleTimesOut
  BY <1>9 DEF FirstCycle, IdleWakes, IdleTimesOut, PollCycle, Reconcile
<1>10. ASSUME NEW t \in Topic, PollStep(t) PROVE LastingKept'
  BY <1>10 DEF PollStep, PollStarts, RelayMessage, DropMessage, CommitPage, SendFails, CommitFails
<1>11. CASE Exit \/ Crash
  BY <1>11 DEF Exit, Crash, ProcessGone
<1> QED
  BY <1>1, <1>2, <1>3, <1>4, <1>5, <1>6, <1>7, <1>8, <1>9, <1>10, <1>11 DEF Next

\* What is pending stays covered by Kafka or by the open transaction.
LEMMA PendingIsDurableStep ==
    ASSUME TypeOK, Routed, OnePoll, PendingIsDurable, Next
    PROVE  PendingIsDurable'
<1> USE DEF sessionVars, viewVars, clientVars, pollVars, runnerVars, boundVars
<1>0. RunnerTypeOK /\ ClientTypeOK
  BY DEF TypeOK
<1>1. ASSUME output \subseteq output', UNCHANGED <<cycle, poll, forwarded>>,
             \A s \in Topic : acks'[s] \subseteq acks[s]
      PROVE  PendingIsDurable'
  BY <1>1 DEF PendingIsDurable, Durable, InFlight
<1>2. ASSUME UNCHANGED <<poll, forwarded, output, acks>>, cycle # "failed" PROVE PendingIsDurable'
  BY <1>2 DEF PendingIsDurable, Durable, InFlight
<1>3. CASE Publish
  BY <1>1, <1>3 DEF Publish
<1>4. ASSUME NEW m \in Message, PubackArrives(m) PROVE PendingIsDurable'
  BY <1>1, <1>4 DEF PubackArrives
<1>5. CASE Deliver
  BY <1>1, <1>5 DEF Deliver
<1>6. CASE OnConnect
  BY <1>1, <1>6 DEF OnConnect, ForEach
<1>7. CASE OnDisconnect
  BY <1>1, <1>7 DEF OnDisconnect
<1>8. CASE Restart
  BY <1>1, <1>8 DEF Restart
<1>9. CASE LoadInitialConfigs
  <2>1. cycle # "failed"
    BY <1>9 DEF LoadInitialConfigs, OnePoll
  <2> QED BY <1>2, <1>9, <2>1 DEF LoadInitialConfigs
<1>10. CASE ConfigChanges \/ CheckConfigUpdates
  BY <1>1, <1>10 DEF ConfigChanges, CheckConfigUpdates
<1>11. CASE FirstCycle \/ IdleWakes \/ IdleTimesOut
  <2>1. /\ cycle \in {"due", "idle"}
        /\ \A s \in Topic : poll'[s] \in {"none", "queued"}
        /\ UNCHANGED <<output, forwarded>>
        /\ Reconcile(entries)
    BY <1>11 DEF FirstCycle, IdleWakes, IdleTimesOut, PollCycle
  <2>2. \A s \in Topic : poll[s] = "none"
    BY <2>1 DEF OnePoll
  <2>3. \A s \in Topic : acks'[s] \subseteq acks[s]
    BY <2>1 DEF Reconcile, Dispose
  <2>4. \A s \in Topic : acks[s] \subseteq output
    BY <2>1, <2>2 DEF PendingIsDurable, Durable, InFlight
  <2> QED BY <2>1, <2>3, <2>4 DEF PendingIsDurable, Durable
<1>12. ASSUME NEW t \in Topic, NEW result \in {"done", "failed"}, PollEnds(t, result),
              ~LockHeld \/ InFlight(t), poll[t] \in {"queued", "relaying", "committing"},
              output \subseteq output',
              \A s \in Topic \ {t} : acks'[s] = acks[s],
              result = "done" => acks'[t] \subseteq acks[t] /\ Durable(t) \subseteq output'
       PROVE  PendingIsDurable'
  <2> SUFFICES ASSUME NEW s \in Topic, cycle' # "failed", poll'[s] # "failed"
               PROVE  acks'[s] \subseteq output'
    BY DEF PendingIsDurable, Durable
  <2>1. cycle # "failed"
    BY <1>12 DEF OnePoll
  <2>2. CASE s = t
    <3>1. result = "done"
      BY <1>0, <1>12, <2>2, PollEndsFacts
    <3> QED BY <1>12, <2>1, <2>2, <3>1 DEF PendingIsDurable
  <2>3. CASE s # t
    <3>1. poll[s] # "failed"
      BY <1>0, <1>12, <2>3, PollEndsFacts
    <3>2. ~InFlight(s)
      BY <1>12, <2>3 DEF OnePoll, LockHeld, InFlight
    <3> QED BY <1>12, <2>1, <2>3, <3>1, <3>2 DEF PendingIsDurable, Durable
  <2> QED BY <2>2, <2>3
<1>13. ASSUME NEW t \in Topic, PollStarts(t) PROVE PendingIsDurable'
  <2>1. /\ poll[t] = "queued" /\ ~LockHeld /\ AckAllPending(t)
        /\ UNCHANGED <<output, forwarded>>
        /\ \/ poll' = [poll EXCEPT ![t] = "relaying"] /\ UNCHANGED cycle
           \/ PollEnds(t, "failed") \/ PollEnds(t, "done")
    BY <1>13 DEF PollStarts
  <2>2. Durable(t) = output
    BY <2>1 DEF Durable, InFlight
  <2>3. /\ acks'[t] \subseteq acks[t]
        /\ \A s \in Topic \ {t} : acks'[s] = acks[s]
    BY <1>0, <2>1 DEF AckAllPending, ClientTypeOK
  <2>4. CASE poll' = [poll EXCEPT ![t] = "relaying"] /\ UNCHANGED cycle
    BY <1>0, <2>1, <2>2, <2>3, <2>4 DEF PendingIsDurable, Durable, InFlight, RunnerTypeOK
  <2>5. CASE PollEnds(t, "failed") \/ PollEnds(t, "done")
    BY <1>12, <2>1, <2>2, <2>3, <2>5
  <2> QED BY <2>1, <2>4, <2>5
<1>14. ASSUME NEW t \in Topic, RelayMessage(t) PROVE PendingIsDurable'
  <2>1. InFlight(t) /\ poll[t] = "relaying"
    BY <1>14 DEF RelayMessage, InFlight
  <2>2. forwarded \in Seq(OfTopic(t)) /\ Head(batch) \in OfTopic(t)
    BY <2>1, PollBuffers DEF Routed, TopicRouted
  <2>3. /\ forwarded' = Append(forwarded, Head(batch))
        /\ \/ UNCHANGED <<poll, cycle>>
           \/ poll' = [poll EXCEPT ![t] = "committing"] /\ UNCHANGED cycle
        /\ acks' = [acks EXCEPT ![t] = @ \cup {Head(batch)}]
        /\ output' = output
    <3>1. Append(forwarded, Head(batch)) # <<>>
      BY <2>2, AppendProperties
    <3> QED BY <1>14, <3>1 DEF RelayMessage, Advance
  <2>4. Range(forwarded') = Range(forwarded) \cup {Head(batch)}
    BY <2>2, <2>3, RangeOfAppend
  <2>5. \A s \in Topic : InFlight(s)' = InFlight(s)
    BY <1>0, <2>1, <2>3 DEF InFlight, RunnerTypeOK
  <2>6. \A s \in Topic : poll'[s] # "failed" => poll[s] # "failed"
    BY <1>0, <2>1, <2>3 DEF RunnerTypeOK
  <2> SUFFICES ASSUME NEW s \in Topic, cycle' # "failed", poll'[s] # "failed"
               PROVE  acks'[s] \subseteq Durable(s)'
    BY DEF PendingIsDurable
  <2>7. acks[s] \subseteq Durable(s)
    BY <2>3, <2>6 DEF PendingIsDurable
  <2>8. Durable(s) \subseteq Durable(s)'
    BY <2>3, <2>4, <2>5 DEF Durable
  <2>9. s = t => Head(batch) \in Durable(s)'
    BY <2>1, <2>4, <2>5 DEF Durable
  <2> QED BY <1>0, <2>3, <2>7, <2>8, <2>9 DEF ClientTypeOK
<1>15. ASSUME NEW t \in Topic, DropMessage(t) PROVE PendingIsDurable'
  <2>1. InFlight(t) /\ poll[t] = "relaying"
    BY <1>15 DEF DropMessage, InFlight
  <2>2. /\ forwarded' = forwarded
        /\ \/ UNCHANGED <<poll, cycle>>
           \/ poll' = [poll EXCEPT ![t] = "committing"] /\ UNCHANGED cycle
           \/ forwarded = <<>> /\ PollEnds(t, "done")
        /\ UNCHANGED <<acks, output>>
    BY <1>15 DEF DropMessage, Advance
  <2>3. CASE UNCHANGED <<poll, cycle>>
    BY <1>1, <2>2, <2>3
  <2>4. CASE poll' = [poll EXCEPT ![t] = "committing"] /\ UNCHANGED cycle
    BY <1>0, <2>1, <2>2, <2>4 DEF PendingIsDurable, Durable, InFlight, RunnerTypeOK
  <2>5. CASE forwarded = <<>> /\ PollEnds(t, "done")
    <3>1. Range(<<>>) = {}
      BY DEF Range
    <3>2. Durable(t) = output
      BY <2>5, <3>1 DEF Durable
    <3> QED BY <1>12, <2>1, <2>2, <2>5, <3>2
  <2> QED BY <2>2, <2>3, <2>4, <2>5
<1>16. ASSUME NEW t \in Topic, CommitPage(t) PROVE PendingIsDurable'
  <2>1. InFlight(t) /\ poll[t] = "committing" /\ PollEnds(t, "done")
    BY <1>16 DEF CommitPage, InFlight
  <2>2. Durable(t) \subseteq output' /\ output \subseteq output' /\ acks' = acks
    BY <1>16 DEF CommitPage, Commit, Durable
  <2> QED BY <1>12, <2>1, <2>2
<1>17. ASSUME NEW t \in Topic, SendFails(t) PROVE PendingIsDurable'
  <2>1. InFlight(t) /\ poll[t] = "relaying" /\ PollEnds(t, "failed") /\ output' = output
    BY <1>17 DEF SendFails, InFlight
  <2>2. \A s \in Topic \ {t} : acks'[s] = acks[s]
    BY <1>0, <1>17 DEF SendFails, RollBack, ClientTypeOK
  <2> QED BY <1>12, <2>1, <2>2
<1>18. ASSUME NEW t \in Topic, CommitFails(t) PROVE PendingIsDurable'
  <2>1. InFlight(t) /\ poll[t] = "committing" /\ PollEnds(t, "failed")
    BY <1>18 DEF CommitFails, InFlight
  <2>2. output \subseteq output' /\ acks' = acks
    BY <1>18 DEF CommitFails, Commit
  <2> QED BY <1>12, <2>1, <2>2
<1>19. CASE Exit \/ Crash
  <2>1. ProcessGone
    BY <1>19 DEF Exit, Crash
  <2>2. \A s \in Topic : acks'[s] = {}
    BY <2>1 DEF ProcessGone, ForEach
  <2> QED BY <2>2 DEF PendingIsDurable
<1> QED
  BY <1>3, <1>4, <1>5, <1>6, <1>7, <1>8, <1>9, <1>10, <1>11, <1>13, <1>14, <1>15, <1>16,
     <1>17, <1>18, <1>19
     DEF Next, PollStep

\* A message of no lasting config, or one that relay() gives up, may be dropped.
LEMMA MayDrop ==
    ASSUME TypeOK, NEW m \in Message, m \notin Relayed \/ TopicOf[m] \notin Lasting
    PROVE  m \notin MustRelay
  BY DEF MustRelay

\* A PUBACK is for what is in Kafka or dropped, and a message that must be
\* relayed is never dropped.
LEMMA AckedIsSettledStep ==
    ASSUME TypeOK, Routed, OnePoll, PendingIsDurable, LastingKept, AckedIsSettled, Next
    PROVE  AckedIsSettled'
<1> USE DEF sessionVars, viewVars, clientVars, pollVars, runnerVars, boundVars
<1>1. ASSUME output \subseteq output', pubacks' \subseteq pubacks, UNCHANGED dropped
      PROVE  AckedIsSettled'
  BY <1>1 DEF AckedIsSettled
<1>2. ASSUME NEW ms \in SUBSET absorbed, UNCHANGED output,
             dropped' = dropped \cup ms, pubacks' \subseteq pubacks \cup ms \cup output,
             \A m \in ms : m \notin MustRelay
      PROVE  AckedIsSettled'
  BY <1>2 DEF AckedIsSettled
<1>3. CASE Publish
  BY <1>1, <1>3 DEF Publish
<1>4. ASSUME NEW m \in Message, PubackArrives(m) PROVE AckedIsSettled'
  BY <1>1, <1>4 DEF PubackArrives
<1>5. CASE Deliver
  <2>1. PICK m \in unacked : OnMessage(m) /\ UNCHANGED output
    BY <1>5 DEF Deliver
  <2>2. m \in Message /\ m \in absorbed
    BY DEF TypeOK, SessionTypeOK
  <2>3. CASE UNCHANGED <<dropped, pubacks>>
    BY <1>1, <2>1, <2>3
  <2>4. CASE /\ desired # NotReconciled /\ TopicOf[m] \notin desired
             /\ Puback({m}) /\ dropped' = dropped \cup {m}
    <3>1. m \notin MustRelay
      BY <2>2, <2>4, MayDrop DEF LastingKept
    <3>2. pubacks' \subseteq pubacks \cup {m} \cup output /\ {m} \subseteq absorbed
      BY <2>2, <2>4 DEF Puback
    <3> QED BY <1>2, <2>1, <2>4, <3>1, <3>2
  <2> QED BY <2>1, <2>3, <2>4 DEF OnMessage
<1>6. CASE OnConnect \/ OnDisconnect \/ Restart
  BY <1>1, <1>6 DEF OnConnect, OnDisconnect, Restart
<1>7. CASE LoadInitialConfigs \/ ConfigChanges \/ CheckConfigUpdates
  BY <1>1, <1>7 DEF LoadInitialConfigs, ConfigChanges, CheckConfigUpdates
<1>8. CASE FirstCycle \/ IdleWakes \/ IdleTimesOut
  <2> DEFINE gone == subs \ entries
             stale == (UNION {Range(items[t]) : t \in gone})
                      \cup (UNION {Range(unrouted[t]) : t \in Topic \ entries})
             pending == UNION {acks[t] : t \in gone}
  <2>1. cycle \in {"due", "idle"} /\ Reconcile(entries) /\ UNCHANGED output
    BY <1>8 DEF FirstCycle, IdleWakes, IdleTimesOut, PollCycle
  <2>2. Lasting \subseteq entries /\ \A t \in gone : t \in Topic
    BY <2>1 DEF LastingKept, OnePoll, TypeOK, ClientTypeOK
  <2>3. \A t \in Topic : poll[t] = "none"
    BY <2>1 DEF OnePoll
  <2>4. \A t \in Topic : acks[t] \subseteq output
    BY <2>1, <2>3 DEF PendingIsDurable, Durable, InFlight
  <2>5. pending \subseteq output
    BY <2>2, <2>4
  <2>6. \A m \in stale : m \in absorbed /\ m \notin MustRelay
    <3> SUFFICES ASSUME NEW m \in stale PROVE m \in absorbed /\ m \notin MustRelay
      OBVIOUS
    <3>1. \E t \in Topic \ entries : m \in Range(items[t]) \/ m \in Range(unrouted[t])
      BY <2>2
    <3>2. PICK t \in Topic \ entries : m \in Range(items[t]) \/ m \in Range(unrouted[t])
      BY <3>1
    <3>3. m \in OfTopic(t)
      BY <3>2, RangeType DEF Routed, TopicRouted
    <3>4. m \in Message /\ m \in absorbed /\ TopicOf[m] \notin Lasting
      BY <2>2, <3>3 DEF OfTopic, TypeOK, SessionTypeOK
    <3> QED BY <3>4, MayDrop
  <2> HIDE DEF stale, pending
  <2>7. dropped' = dropped \cup stale /\ Puback(stale \cup pending)
    BY <2>1 DEF Reconcile, stale, pending
  <2> QED BY <1>2, <2>1, <2>5, <2>6, <2>7 DEF Puback
<1>9. ASSUME NEW t \in Topic, PollStarts(t) PROVE AckedIsSettled'
  <2>1. /\ poll[t] = "queued" /\ AckAllPending(t)
        /\ UNCHANGED <<output, dropped>>
    BY <1>9 DEF PollStarts
  <2>2. acks[t] \subseteq output
    <3>1. cycle = "polling" /\ ~InFlight(t)
      BY <2>1 DEF OnePoll, InFlight
    <3> QED BY <2>1, <3>1 DEF PendingIsDurable, Durable
  <2> QED BY <2>1, <2>2 DEF AckAllPending, Puback, AckedIsSettled
<1>10. ASSUME NEW t \in Topic, RelayMessage(t) PROVE AckedIsSettled'
  BY <1>1, <1>10 DEF RelayMessage
<1>11. ASSUME NEW t \in Topic, DropMessage(t) PROVE AckedIsSettled'
  <2>1. InFlight(t) /\ poll[t] = "relaying"
    BY <1>11 DEF DropMessage, InFlight
  <2>2. Head(batch) \in absorbed /\ Head(batch) \in Message
    BY <2>1, PollBuffers DEF OfTopic, TypeOK, SessionTypeOK
  <2>3. Head(batch) \notin MustRelay
    BY <1>11, <2>2, MayDrop DEF DropMessage
  <2>4. /\ pubacks' \subseteq pubacks \cup {Head(batch)} \cup output
        /\ {Head(batch)} \subseteq absorbed
        /\ dropped' = dropped \cup {Head(batch)} /\ UNCHANGED output
    BY <1>11, <2>2 DEF DropMessage, Puback
  <2> DEFINE ms == {Head(batch)}
  <2>5. ms \in SUBSET absorbed /\ \A m \in ms : m \notin MustRelay
    BY <2>3, <2>4
  <2> HIDE DEF ms
  <2>6. pubacks' \subseteq pubacks \cup ms \cup output /\ dropped' = dropped \cup ms
    BY <2>4 DEF ms
  <2> QED BY <1>2, <2>4, <2>5, <2>6
<1>12. ASSUME NEW t \in Topic, CommitPage(t) \/ CommitFails(t) PROVE AckedIsSettled'
  BY <1>1, <1>12 DEF CommitPage, CommitFails, Commit
<1>13. ASSUME NEW t \in Topic, SendFails(t) PROVE AckedIsSettled'
  BY <1>1, <1>13 DEF SendFails
<1>14. CASE Exit \/ Crash
  BY <1>1, <1>14 DEF Exit, Crash, ProcessGone
<1> QED
  BY <1>3, <1>4, <1>5, <1>6, <1>7, <1>8, <1>9, <1>10, <1>11, <1>12, <1>13, <1>14
     DEF Next, PollStep

\* What is buffered is never forgotten: who clears the wakeup polls everything.
LEMMA BacklogSeenStep ==
    ASSUME TypeOK, OnePoll, BacklogSeen, Next
    PROVE  BacklogSeen'
<1> USE DEF sessionVars, viewVars, clientVars, pollVars, runnerVars, boundVars
<1>0. RunnerTypeOK /\ ClientTypeOK
  BY DEF TypeOK
<1>1. ASSUME wakeup' = wakeup \/ wakeup' = TRUE, UNCHANGED <<cycle, poll>>,
             items' = items \/ wakeup'
      PROVE  BacklogSeen'
  BY <1>1 DEF BacklogSeen
<1>2. CASE Publish
  BY <1>1, <1>2 DEF Publish
<1>3. ASSUME NEW m \in Message, PubackArrives(m) PROVE BacklogSeen'
  BY <1>1, <1>3 DEF PubackArrives
<1>4. CASE Deliver
  <2>1. PICK m \in unacked : OnMessage(m)
    BY <1>4 DEF Deliver
  <2> QED BY <1>1, <1>4, <2>1 DEF Deliver, OnMessage
<1>5. CASE OnConnect \/ OnDisconnect \/ Restart
  BY <1>1, <1>5 DEF OnConnect, OnDisconnect, Restart
<1>6. CASE LoadInitialConfigs
  BY <1>6 DEF LoadInitialConfigs, BacklogSeen, OnePoll
<1>7. CASE ConfigChanges \/ CheckConfigUpdates
  BY <1>1, <1>7 DEF ConfigChanges, CheckConfigUpdates
<1>8. CASE FirstCycle \/ IdleWakes \/ IdleTimesOut
  <2>1. /\ items' = [t \in Topic |-> IF t \in subs \ entries THEN <<>> ELSE items[t]]
        /\ poll' = [t \in Topic |-> IF t \in entries THEN "queued" ELSE "none"]
    BY <1>8 DEF FirstCycle, IdleWakes, IdleTimesOut, PollCycle, Reconcile, Dispose
  <2>2. \A t \in Topic : items'[t] # <<>> => t \in entries
    BY <2>1 DEF TypeOK
  <2> QED BY <2>1, <2>2 DEF BacklogSeen
<1>9. ASSUME NEW t \in Topic, NEW result \in {"done", "failed"}, PollEnds(t, result),
             poll[t] \in {"queued", "relaying", "committing"},
             \A s \in Topic \ {t} : items'[s] = items[s],
             wakeup => wakeup',
             result = "done" => \/ wakeup'
                                \/ items'[t] = <<>>
                                \/ items'[t] = items[t] /\ poll[t] # "queued"
      PROVE  BacklogSeen'
  <2> SUFFICES ASSUME NEW s \in Topic, items'[s] # <<>>, ~wakeup', cycle' # "failed",
                      \A r \in Topic : poll'[r] # "failed"
               PROVE  poll'[s] = "queued"
    BY DEF BacklogSeen
  <2>1. cycle = "polling" /\ ~wakeup
    BY <1>9 DEF OnePoll
  <2>2. result = "done" /\ \A r \in Topic : poll[r] # "failed"
    BY <1>0, <1>9, PollEndsFacts
  <2>3. items[s] # <<>> /\ (s = t => poll[t] # "queued")
    BY <1>9, <2>2
  <2>4. poll[s] = "queued"
    BY <2>1, <2>2, <2>3 DEF BacklogSeen
  <2> QED BY <1>0, <1>9, <2>3, <2>4, PollEndsFacts
<1>10. ASSUME NEW t \in Topic, poll' = [poll EXCEPT ![t] = "relaying"] \/
                                poll' = [poll EXCEPT ![t] = "committing"] \/ UNCHANGED poll,
              poll[t] \in {"queued", "relaying", "committing"},
              UNCHANGED cycle, wakeup => wakeup',
              \A s \in Topic \ {t} : items'[s] = items[s],
              wakeup' \/ items'[t] = <<>> \/ (items'[t] = items[t] /\ poll[t] # "queued")
       PROVE  BacklogSeen'
  <2> SUFFICES ASSUME NEW s \in Topic, items'[s] # <<>>, ~wakeup', cycle' # "failed",
                      \A r \in Topic : poll'[r] # "failed"
               PROVE  poll'[s] = "queued"
    BY DEF BacklogSeen
  <2>1. ~wakeup /\ cycle # "failed"
    BY <1>10
  <2>2. \A r \in Topic : poll[r] # "failed"
    BY <1>0, <1>10 DEF RunnerTypeOK
  <2>3. items[s] # <<>> /\ (s = t => poll[t] # "queued")
    BY <1>10
  <2>4. poll[s] = "queued" /\ s # t
    BY <2>1, <2>2, <2>3 DEF BacklogSeen
  <2> QED BY <1>0, <1>10, <2>4 DEF RunnerTypeOK
<1>11. ASSUME NEW t \in Topic, PollStarts(t) PROVE BacklogSeen'
  <2>1. /\ poll[t] = "queued"
        /\ \/ poll' = [poll EXCEPT ![t] = "relaying"] /\ UNCHANGED cycle
           \/ PollEnds(t, "failed") \/ PollEnds(t, "done")
    BY <1>11 DEF PollStarts
  <2>2. PICK left : items' = [items EXCEPT ![t] = left] /\ Rearm(left)
    BY <1>11 DEF PollStarts
  <2>3. wakeup => wakeup'
    BY <2>2, Zenon DEF Rearm
  <2>4. wakeup' \/ left = <<>>
    BY <2>2, Zenon DEF Rearm
  <2>5. items'[t] = left /\ \A s \in Topic \ {t} : items'[s] = items[s]
    BY <1>0, <2>2 DEF ClientTypeOK
  <2> QED BY <1>9, <1>10, <2>1, <2>3, <2>4, <2>5
<1>12. ASSUME NEW t \in Topic, NEW opened, Advance(t, opened), poll[t] = "relaying",
              UNCHANGED <<items, wakeup>>
       PROVE  BacklogSeen'
  BY <1>9, <1>10, <1>12 DEF Advance
<1>13. ASSUME NEW t \in Topic, RelayMessage(t) PROVE BacklogSeen'
  BY <1>12, <1>13 DEF RelayMessage
<1>14. ASSUME NEW t \in Topic, DropMessage(t) PROVE BacklogSeen'
  BY <1>12, <1>14 DEF DropMessage
<1>15. ASSUME NEW t \in Topic, CommitPage(t) \/ CommitFails(t) PROVE BacklogSeen'
  BY <1>9, <1>15 DEF CommitPage, CommitFails
<1>16. ASSUME NEW t \in Topic, SendFails(t) PROVE BacklogSeen'
  <2>1. \A s \in Topic \ {t} : items'[s] = items[s]
    BY <1>0, <1>16 DEF SendFails, RollBack, ClientTypeOK
  <2> QED BY <1>9, <1>16, <2>1 DEF SendFails
<1>17. CASE Exit \/ Crash
  <2>1. ProcessGone
    BY <1>17 DEF Exit, Crash
  <2>2. \A s \in Topic : items'[s] = <<>>
    BY <2>1 DEF ProcessGone, ForEach
  <2> QED BY <2>2 DEF BacklogSeen
<1> QED
  BY <1>2, <1>3, <1>4, <1>5, <1>6, <1>7, <1>8, <1>11, <1>13, <1>14, <1>15, <1>16, <1>17
     DEF Next, PollStep

-----------------------------------------------------------------------------

\* The inductive invariant holds initially.
LEMMA InitInv == Init => IInv
<1> SUFFICES ASSUME Init PROVE IInv
  OBVIOUS
<1>1. /\ ForEach(<<>>) \in [Topic -> Seq(Message)]
      /\ ForEach({}) \in [Topic -> SUBSET Message]
      /\ ForEach("none") \in [Topic -> Poll]
      /\ \A t \in Topic : /\ ForEach(<<>>)[t] = <<>> /\ ForEach({})[t] = {}
                          /\ ForEach("none")[t] = "none"
  BY DEF ForEach, Poll
<1>2. SessionTypeOK
  BY MqttAssumption DEF Init, SessionTypeOK
<1>3. ClientTypeOK
  BY <1>1 DEF Init, ClientTypeOK, Connection
<1>4. RunnerTypeOK
  BY <1>1, MqttAssumption DEF Init, RunnerTypeOK, Location, Cycle
<1>5. TypeOK
  BY <1>1, <1>2, <1>3, <1>4 DEF Init, TypeOK
<1>6. Routed
  BY <1>1 DEF Init, Routed, TopicRouted, InFlight
<1>7. OnePoll /\ PendingIsDurable /\ BacklogSeen
  BY <1>1 DEF Init, OnePoll, PendingIsDurable, BacklogSeen, InFlight, LockHeld
<1>8. AckedIsSettled /\ LastingKept
  BY DEF Init, AckedIsSettled, LastingKept
<1>9. InOrder
  <2>1. \A t \in Topic : Chain(t) = <<>> \o <<>> \o <<>> \o <<>>
    BY <1>1 DEF Init, Chain, Working, InFlight
  <2>2. <<>> \o <<>> \o <<>> \o <<>> = <<>>
    OBVIOUS
  <2>3. Range(<<>>) = {} /\ Ascending(<<>>)
    BY DEF Range, Ascending
  <2>4. \A t \in Topic : Ascending(Chain(t)) /\ Range(Chain(t)) = {}
    BY <2>1, <2>2, <2>3
  <2> QED BY <2>4 DEF Init, InOrder
<1> QED BY <1>5, <1>6, <1>7, <1>8, <1>9 DEF IInv

\* A step that changes nothing keeps the invariant.
LEMMA Stuttering ==
    ASSUME IInv, UNCHANGED vars
    PROVE  IInv'
<1> USE DEF vars, sessionVars, viewVars, clientVars, pollVars, runnerVars, boundVars, IInv
<1>1. TypeOK'
  BY DEF TypeOK, SessionTypeOK, ClientTypeOK, RunnerTypeOK
<1>2. Routed'
  BY DEF Routed, TopicRouted, OfTopic, InFlight
<1>3. OnePoll' /\ PendingIsDurable'
  BY DEF OnePoll, PendingIsDurable, Durable, InFlight, LockHeld
<1>4. AckedIsSettled' /\ LastingKept' /\ BacklogSeen'
  BY DEF AckedIsSettled, LastingKept, BacklogSeen
<1>5. InOrder'
  <2>1. \A t \in Topic : Chain(t)' = Chain(t)
    BY DEF Chain, Working, InFlight
  <2> QED BY <2>1 DEF InOrder
<1> QED BY <1>1, <1>2, <1>3, <1>4, <1>5

\* The inductive invariant: for any topics, messages, window and drain limit, and
\* any number of crashes, lost connections, failing polls and config changes.
THEOREM Invariance == Spec => []IInv
<1>1. IInv /\ [Next]_vars => IInv'
  <2> SUFFICES ASSUME IInv, Next PROVE IInv'
    BY Stuttering
  <2>1. TypeOK' /\ Routed' /\ OnePoll'
    BY TypeStep, RoutedStep, OnePollStep DEF IInv
  <2>2. PendingIsDurable' /\ AckedIsSettled'
    BY PendingIsDurableStep, AckedIsSettledStep DEF IInv
  <2>3. LastingKept' /\ BacklogSeen'
    BY LastingKeptStep, BacklogSeenStep DEF IInv
  <2>4. InOrder'
    BY <2>1, InOrderStep DEF IInv
  <2> QED BY <2>1, <2>2, <2>3, <2>4 DEF IInv
<1> QED BY <1>1, InitInv, PTL DEF Spec

\* The bridge keeps its types, and nothing is left in a disposed view.
THEOREM TypeCorrect == Spec => []TypeOK
<1>1. IInv => TypeOK
  BY DEF IInv
<1> QED BY <1>1, Invariance, PTL

\* No wakeup is lost (WakesForBacklog): an idle stage never sits on messages it
\* has buffered.
THEOREM NoWakeupLost == Spec => []WakesForBacklog
<1>1. IInv => WakesForBacklog
  BY DEF IInv, OnePoll, BacklogSeen, WakesForBacklog
<1> QED BY <1>1, Invariance, PTL

\* A process writes each message at most once, and a topic's messages in order
\* (OnceInOrder), whatever is disposed of, held, drained or rolled back on the way.
THEOREM WrittenOnceInOrder == Spec => []OnceInOrder
<1>1. IInv => OnceInOrder
  <2> SUFFICES ASSUME IInv, NEW t \in Topic PROVE Ascending(landed[t])
    BY DEF OnceInOrder
  <2>1. /\ landed[t] \in Seq(Nat) /\ Working(t) \in Seq(Nat)
        /\ items[t] \in Seq(Nat) /\ unrouted[t] \in Seq(Nat)
        /\ landed[t] \o Working(t) \in Seq(Nat)
        /\ landed[t] \o Working(t) \o items[t] \in Seq(Nat)
    BY ChainType DEF IInv
  <2>2. Ascending(Chain(t))
    BY DEF IInv, InOrder
  <2>3. Ascending(landed[t] \o Working(t) \o items[t])
    BY <2>1, <2>2, AscendingConcat DEF Chain
  <2>4. Ascending(landed[t] \o Working(t))
    BY <2>1, <2>3, AscendingConcat
  <2> QED BY <2>1, <2>4, AscendingConcat
<1> QED BY <1>1, Invariance, PTL

\* The bridge implements Relay (RelaysAtLeastOnce): a message is acknowledged to
\* the broker only when it is in Kafka or dropped, also when a poll, a commit or
\* the connection fails; and none of a lasting config's topic is ever dropped, also
\* not when it arrives before the first configs are reconciled.
THEOREM ImplementsRelay == Spec => RelaysAtLeastOnce
<1>1. Init => Promise!Init
  BY DEF Init, Promise!Init
<1>2. IInv /\ [Next]_vars => [Promise!Next]_(Promise!vars)
  <2> SUFFICES ASSUME IInv, [Next]_vars
               PROVE  \/ Promise!Next
                      \/ UNCHANGED <<absorbed, unacked, output, dropped>>
    BY DEF Promise!vars
  <2> USE DEF sessionVars, viewVars, clientVars, pollVars, runnerVars, boundVars
  <2>0. TypeOK /\ Routed /\ OnePoll /\ AckedIsSettled
    BY DEF IInv
  <2>1. CASE UNCHANGED vars
    BY <2>1 DEF vars
  <2>2. CASE Publish
    <3>1. published' \in Message /\ published' \notin absorbed
      BY <2>0, <2>2, MqttAssumption DEF Publish, Routed, TypeOK, SessionTypeOK, Message
    <3>2. \/ UNCHANGED <<absorbed, unacked>>
          \/ absorbed' = absorbed \cup {published'} /\ unacked' = unacked \cup {published'}
      BY <2>2 DEF Publish
    <3>3. UNCHANGED <<output, dropped>>
      BY <2>2 DEF Publish
    <3> QED BY <3>1, <3>2, <3>3 DEF Promise!Next, Promise!Absorb
  <2>3. ASSUME NEW m \in Message, PubackArrives(m)
        PROVE  Promise!Next \/ UNCHANGED <<absorbed, unacked, output, dropped>>
    <3>1. /\ unacked' = unacked \ {m} /\ m \in output \cup dropped
          /\ UNCHANGED <<absorbed, output, dropped>>
      BY <2>0, <2>3 DEF PubackArrives, AckedIsSettled
    <3>2. CASE m \in unacked
      BY <3>1, <3>2 DEF Promise!Next, Promise!Acknowledge
    <3>3. CASE m \notin unacked
      BY <3>1, <3>3
    <3> QED BY <3>2, <3>3
  <2>4. ASSUME NEW ms, ms \subseteq absorbed, dropped' = dropped \cup ms,
               dropped' \cap MustRelay = {}, UNCHANGED <<absorbed, unacked, output>>
        PROVE  Promise!Next
    <3>1. ms \in SUBSET Message /\ ms \subseteq absorbed \cap (Message \ MustRelay)
      BY <2>0, <2>4 DEF TypeOK, SessionTypeOK
    <3> QED BY <2>4, <3>1 DEF Promise!Next, Promise!Drop
  <2>5. ASSUME NEW ms, ms \subseteq absorbed, output' = output \cup ms,
               UNCHANGED <<absorbed, unacked, dropped>>
        PROVE  Promise!Next
    <3>1. ms \in SUBSET Message
      BY <2>0, <2>5 DEF TypeOK, SessionTypeOK
    <3> QED BY <2>5, <3>1 DEF Promise!Next, Promise!Write
  <2>6. ASSUME Next, dropped \subseteq dropped', UNCHANGED <<absorbed, unacked, output>>
        PROVE  Promise!Next
    <3>1. AckedIsSettled' /\ TypeOK'
      BY <2>0, <2>6, AckedIsSettledStep, TypeStep DEF IInv
    <3>2. dropped' \subseteq absorbed /\ dropped' = dropped \cup dropped'
      BY <2>6, <3>1 DEF TypeOK, ClientTypeOK
    <3> QED BY <2>4, <2>6, <3>1, <3>2 DEF AckedIsSettled
  <2>7. CASE Deliver
    <3>1. dropped \subseteq dropped' /\ UNCHANGED <<absorbed, unacked, output>>
      BY <2>7 DEF Deliver, OnMessage
    <3> QED BY <2>6, <2>7, <3>1 DEF Next
  <2>8. CASE FirstCycle \/ IdleWakes \/ IdleTimesOut
    <3>1. dropped \subseteq dropped' /\ UNCHANGED <<absorbed, unacked, output>>
      BY <2>8 DEF FirstCycle, IdleWakes, IdleTimesOut, PollCycle, Reconcile
    <3> QED BY <2>6, <2>8, <3>1 DEF Next
  <2>9. ASSUME NEW t \in Topic, DropMessage(t) PROVE Promise!Next
    <3>1. dropped \subseteq dropped' /\ UNCHANGED <<absorbed, unacked, output>>
      BY <2>9 DEF DropMessage
    <3> QED BY <2>6, <2>9, <3>1 DEF Next, PollStep
  <2>10. ASSUME NEW t \in Topic, CommitPage(t) \/ CommitFails(t)
         PROVE  Promise!Next \/ UNCHANGED <<absorbed, unacked, output, dropped>>
    <3>1. Range(forwarded) \subseteq absorbed
      BY <2>0, <2>10, PollBuffers DEF CommitPage, CommitFails, InFlight
    <3>2. /\ output' = output \cup Range(forwarded) \/ UNCHANGED output
          /\ UNCHANGED <<absorbed, unacked, dropped>>
      BY <2>10 DEF CommitPage, CommitFails, Commit
    <3> QED BY <2>5, <3>1, <3>2
  <2>11. ASSUME NEW t \in Topic, PollStarts(t) \/ RelayMessage(t) \/ SendFails(t)
         PROVE  UNCHANGED <<absorbed, unacked, output, dropped>>
    BY <2>11 DEF PollStarts, RelayMessage, SendFails
  <2>12. CASE OnConnect \/ OnDisconnect \/ Restart \/ LoadInitialConfigs
    BY <2>12 DEF OnConnect, OnDisconnect, Restart, LoadInitialConfigs
  <2>13. CASE ConfigChanges \/ CheckConfigUpdates
    BY <2>13 DEF ConfigChanges, CheckConfigUpdates
  <2>14. CASE Exit \/ Crash
    BY <2>14 DEF Exit, Crash, ProcessGone
  <2> QED
    BY <2>1, <2>2, <2>3, <2>7, <2>8, <2>9, <2>10, <2>11, <2>12, <2>13, <2>14 DEF Next, PollStep
<1> QED BY <1>1, <1>2, Invariance, PTL DEF Spec, RelaysAtLeastOnce, Promise!Spec
====

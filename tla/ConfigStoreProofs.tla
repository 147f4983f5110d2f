---- MODULE ConfigStoreProofs ----
(***************************************************************************)
(* A stage that runs holds the store that a boot would build, and entries  *)
(* and a byte count that agree with it: for any keys, values, policies and *)
(* enrichments, any partitions and any log that writers, transactions and  *)
(* aborts leave in them.                                                   *)
(*                                                                         *)
(* The argument: bootstrap and drains alike handle each partition in       *)
(* order, so what they hold for a key, raw or built, is always that of a   *)
(* record which is the last one of its partition so far (Compacted,        *)
(* StoreAsBooted).  Nothing below `stable' ever changes (WriteGrows).  An  *)
(* entry is made of two things, a record and the store, which may be ahead *)
(* of it; they meet again at the last record of the key (EntriesFollow).   *)
(***************************************************************************)
EXTENDS ConfigStore, TLAPS, SequenceTheorems, FiniteSetTheorems

\* Records that change the store.
Applicable == {r \in Record : r.key \in Key /\ (IsTombstone(r.value) \/ DecodeEventMediated(r) \in Value)}

Typed ==
    /\ log \in [Partition -> Seq(Record \cup {Hole})]
    /\ stable \in [Partition -> Nat]
    /\ written \in 0..MaxRecords
    /\ pc \in {"down", "reading", "applying", "running"}
    /\ position \in [Partition -> Nat]
    /\ handled \in [Partition -> Nat]
    /\ end \in [Partition -> Nat]
    /\ \A p \in Partition :
           handled[p] <= position[p] /\ position[p] <= stable[p] /\ stable[p] <= Len(log[p])
    /\ latest \in [Key -> Record \cup {None}]
    /\ applied \in Seq(Applicable)
    /\ store \in [Key -> Value \cup {None}]
    /\ entries \in [Key -> Entry \cup {None}]
    /\ faults \in 0..MaxFaults

BytesCounted == IsFiniteSet(Bytes(store)) /\ nbytes = Cardinality(Bytes(store))

\* What is in hand where: records that were fetched, survivors, applied records.
Phases ==
    /\ pc \in {"down", "reading"} => store = Nothing /\ entries = Nothing /\ applied = <<>>
    /\ pc = "down" => handled = Start /\ latest = Nothing
    /\ pc = "applying" => latest = Nothing \/ handled = position
    /\ pc = "running" => latest = Nothing /\ handled = position /\ applied = <<>>

\* What survived so far of k is a last record, or was deleted by one.
Survives(k) ==
    IF latest[k] # None
    THEN latest[k] \in LastRecords(k, handled)
    ELSE LastRecords(k, handled) = {} \/ \E r \in LastRecords(k, handled) : IsTombstone(r.value)

Compacted == pc \in {"down", "reading"} => \A k \in Key : Survives(k)

\* What NoDivergence says of k, for what is handled so far.
AsBooted(k) ==
    (\A r \in LastRecords(k, handled) : ~Skipped(r)) =>
        store[k] \in IF LastRecords(k, handled) = {} THEN {None}
                     ELSE {BuiltFrom(r) : r \in {q \in LastRecords(k, handled) : ~Raises(q)}}

StoreAsBooted ==
    pc \in {"applying", "running"} =>
        \A k \in Key :
            IF latest[k] # None THEN latest[k] \in LastRecords(k, handled) ELSE AsBooted(k)

EntryAgrees(k) ==
    /\ entries[k] = None <=> store[k] = None
    /\ entries[k] # None => /\ entries[k].config = store[k]
                            /\ entries[k].keyedBy \in Value /\ Enrich[entries[k].keyedBy] = store[k]

\* The n-th of the applied records is the last one of its key.
LastApplied(n) == \A m \in 1..Len(applied) : m > n => applied[m].key # applied[n].key

\* An entry agrees with the store, or a record of its key has yet to reach it; the last one
\* of those is what the store's value was built from.
EntriesFollow ==
    /\ \A k \in Key :
           (\A n \in 1..Len(applied) : applied[n].key # k) => EntryAgrees(k)
    /\ \A n \in 1..Len(applied) : LastApplied(n) => store[applied[n].key] = BuiltFrom(applied[n])

ConfigInv ==
    /\ Typed
    /\ BytesCounted
    /\ Phases
    /\ Compacted
    /\ StoreAsBooted
    /\ EntriesFollow

-----------------------------------------------------------------------------
(* Records *)

\* A key that decodes is itself; one that does not is skipped or raised for.
LEMMA KeyDecodes ==
    ASSUME NEW r \in Record
    PROVE  /\ r.key \in Key => DecodeKeyMediated(r) = r.key /\ r.key \notin {Skip, Raise}
           /\ r.key \notin Key => DecodeKeyMediated(r) \in {Skip, Raise}
<1>1. r.key \in Key \cup Undecodable
  BY DEF Record
<1>2. CASE r.key \in Key
  BY <1>2, WireAssumption DEF DecodeKeyMediated
<1>3. CASE r.key \notin Key
  BY <1>1, <1>3 DEF DecodeKeyMediated
<1> QED BY <1>2, <1>3

\* A value decodes, is substituted, or is put to the policy and skipped or raised for.
LEMMA EventDecodes ==
    ASSUME NEW r \in Record, ~IsTombstone(r.value)
    PROVE  DecodeEventMediated(r) \in Value \cup {Raise, Skip}
<1>1. r.value \in Value \cup Undecodable
  BY DEF Record, IsTombstone
<1> QED BY <1>1, WireAssumption DEF DecodeEventMediated

\* A record that nothing is raised for is skipped or changes the store.
LEMMA SkippedOrApplicable ==
    ASSUME NEW r \in Record, ~Raises(r)
    PROVE  Skipped(r) \/ r \in Applicable
  BY KeyDecodes, EventDecodes, WireAssumption DEF Raises, Skipped, Applicable

\* A record that changes the store is not skipped, nothing is raised for it, and its key is itself.
LEMMA ApplicableApplies ==
    ASSUME NEW r \in Applicable
    PROVE  /\ r \in Record /\ r.key \in Key
           /\ ~Skipped(r) /\ ~Raises(r)
           /\ DecodeKeyMediated(r) = r.key
           /\ BuiltFrom(r) \in Value \cup {None}
           /\ IsTombstone(r.value) => BuiltFrom(r) = None
           /\ ~IsTombstone(r.value) => /\ DecodeEventMediated(r) \in Value
                                       /\ BuiltFrom(r) = Enrich[DecodeEventMediated(r)]
                                       /\ BuiltFrom(r) \in Value
<1>1. r \in Record /\ r.key \in Key
  BY DEF Applicable
<1>2. DecodeKeyMediated(r) = r.key /\ r.key \notin {Skip, Raise}
  BY <1>1, KeyDecodes
<1>3. ~IsTombstone(r.value) => DecodeEventMediated(r) \in Value
  BY DEF Applicable
<1>4. ~Skipped(r) /\ ~Raises(r)
  BY <1>2, <1>3, WireAssumption DEF Skipped, Raises
<1> QED BY <1>1, <1>2, <1>3, <1>4, ConfigStoreAssumption DEF BuiltFrom

\* A tombstone of a key that decodes is nothing to raise for.
LEMMA TombstoneDeletes ==
    ASSUME NEW r \in Record, r.key \in Key, IsTombstone(r.value)
    PROVE  ~Raises(r) /\ BuiltFrom(r) = None
  BY KeyDecodes DEF Raises, BuiltFrom

-----------------------------------------------------------------------------
(* The byte count *)

LEMMA WeighType ==
    ASSUME NEW k \in Key, NEW v \in Value \cup {None}
    PROVE  Weigh(k, v) \in Nat
  BY ConfigStoreAssumption DEF Weigh

\* The bytes of one key.
LEMMA BytesOfKey ==
    ASSUME NEW k, NEW w \in Nat
    PROVE  IsFiniteSet({k} \X (1..w)) /\ Cardinality({k} \X (1..w)) = w
<1>1. IsFiniteSet({k}) /\ Cardinality({k}) = 1
  BY FS_Singleton
<1>2. IsFiniteSet(1..w) /\ Cardinality(1..w) = w
  BY FS_Interval
<1>3. /\ IsFiniteSet({k} \X (1..w))
      /\ Cardinality({k} \X (1..w)) = Cardinality({k}) * Cardinality(1..w)
  BY <1>1, <1>2, FS_Product
<1>4. Cardinality({k} \X (1..w)) = 1 * w
  BY <1>1, <1>2, <1>3
<1> QED BY <1>3, <1>4

\* What a put or a delete does to the bytes held is what it does to the count.
LEMMA CountKept ==
    ASSUME NEW f \in [Key -> Value \cup {None}], IsFiniteSet(Bytes(f)),
           NEW k \in Key, NEW v \in Value \cup {None}
    PROVE  LET g == [f EXCEPT ![k] = v] IN
           /\ IsFiniteSet(Bytes(g))
           /\ Cardinality(Bytes(g)) = Cardinality(Bytes(f)) - Weigh(k, f[k]) + Weigh(k, v)
<1> DEFINE g == [f EXCEPT ![k] = v]
           was == {k} \X (1..Weigh(k, f[k]))
           is == {k} \X (1..Weigh(k, v))
           rest == Bytes(f) \ was
<1>1. Weigh(k, f[k]) \in Nat /\ Weigh(k, v) \in Nat
  BY WeighType
<1>2. /\ IsFiniteSet(was) /\ Cardinality(was) = Weigh(k, f[k])
      /\ IsFiniteSet(is) /\ Cardinality(is) = Weigh(k, v)
  BY <1>1, BytesOfKey
<1>3. was \subseteq Bytes(f)
  BY DEF Bytes
<1>4. \A x \in rest : \E j \in Key \ {k} : x \in {j} \X (1..Weigh(j, f[j]))
  BY DEF Bytes
<1>5. \A j \in Key \ {k} : ({j} \X (1..Weigh(j, f[j]))) \cap was = {}
  OBVIOUS
<1>6. Bytes(g) = rest \cup is
  <2>1. g[k] = v /\ \A j \in Key \ {k} : g[j] = f[j]
    OBVIOUS
  <2> HIDE DEF g, is, was
  <2>2. ASSUME NEW x \in Bytes(g) PROVE x \in rest \cup is
    <3>1. PICK j \in Key : x \in {j} \X (1..Weigh(j, g[j]))
      BY DEF Bytes
    <3>2. CASE j = k
      BY <2>1, <3>1, <3>2 DEF is
    <3>3. CASE j # k
      <4>1. x \in {j} \X (1..Weigh(j, f[j]))
        BY <2>1, <3>1, <3>3
      <4> QED BY <1>5, <3>3, <4>1 DEF Bytes
    <3> QED BY <3>2, <3>3
  <2>3. rest \subseteq Bytes(g)
    BY <1>4, <2>1 DEF Bytes
  <2>4. is \subseteq Bytes(g)
    BY <2>1 DEF Bytes, is
  <2> QED BY <2>2, <2>3, <2>4
<1>7. rest \cap is = {}
  BY <1>4
<1> HIDE DEF was, is
<1>8. /\ IsFiniteSet(rest)
      /\ Cardinality(rest) = Cardinality(Bytes(f)) - Cardinality(was)
  <2>1. Bytes(f) \cap was = was
    BY <1>3
  <2> QED BY <2>1, FS_Difference
<1> HIDE DEF rest
<1>9. /\ IsFiniteSet(rest \cup is)
      /\ Cardinality(rest \cup is) = Cardinality(rest) + Cardinality(is) - Cardinality(rest \cap is)
  BY <1>2, <1>8, FS_Union
<1>10. Cardinality(rest \cap is) = 0
  BY <1>7, FS_EmptySet
<1>11. Cardinality(Bytes(f)) \in Nat
  BY FS_CardinalityType
<1> HIDE DEF g
<1>12. /\ IsFiniteSet(Bytes(g))
       /\ Cardinality(Bytes(g)) = Cardinality(Bytes(f)) - Weigh(k, f[k]) + Weigh(k, v)
  BY <1>1, <1>2, <1>6, <1>8, <1>9, <1>10, <1>11
<1> QED BY <1>12 DEF g

\* An empty store weighs nothing.
LEMMA NothingWeighs == IsFiniteSet(Bytes(Nothing)) /\ Cardinality(Bytes(Nothing)) = 0
<1>1. \A k \in Key : Weigh(k, Nothing[k]) = 0
  BY DEF Nothing, Weigh
<1>2. Bytes(Nothing) = {}
  BY <1>1 DEF Bytes
<1> QED BY <1>2, FS_EmptySet

-----------------------------------------------------------------------------
(* The log *)

\* What a write adds is above the last stable offset; below it nothing changes.
WriteGrows ==
    /\ log' \in [Partition -> Seq(Record \cup {Hole})]
    /\ stable' \in [Partition -> Nat]
    /\ written' \in 0..MaxRecords
    /\ \A p \in Partition :
           /\ stable[p] <= stable'[p] /\ stable'[p] <= Len(log'[p])
           /\ \A n \in 1..stable[p] : log'[p][n] = log[p][n]

\* A log with one entry more at its end.
LEMMA Appended ==
    ASSUME NEW seq \in Seq(Record \cup {Hole}), NEW r \in Record \cup {Hole}
    PROVE  /\ Append(seq, r) \in Seq(Record \cup {Hole})
           /\ Len(Append(seq, r)) = Len(seq) + 1 /\ Len(seq) \in Nat
           /\ \A n \in 1..Len(seq) : Append(seq, r)[n] = seq[n]
           /\ Append(seq, r)[Len(seq) + 1] = r
  BY AppendProperties, LenProperties

LEMMA ProduceGrows ==
    ASSUME Typed, NEW p \in Partition, NEW r \in Record, Produce(p, r) \/ ProduceInTransaction(p, r)
    PROVE  WriteGrows
<1> DEFINE longer == Append(log[p], r)
<1>1. /\ log' = [log EXCEPT ![p] = longer]
      /\ written < MaxRecords /\ written' = written + 1
      /\ \/ stable' = [stable EXCEPT ![p] = IF InTransaction(p) THEN @ ELSE @ + 1]
         \/ stable' = stable
  BY DEF Produce, ProduceInTransaction
<1>2. /\ longer \in Seq(Record \cup {Hole})
      /\ Len(longer) = Len(log[p]) + 1 /\ Len(log[p]) \in Nat
      /\ \A n \in 1..Len(log[p]) : longer[n] = log[p][n]
  BY Appended DEF Typed
<1> HIDE DEF longer
<1>3. /\ log' \in [Partition -> Seq(Record \cup {Hole})]
      /\ log'[p] = longer /\ \A q \in Partition \ {p} : log'[q] = log[q]
  BY <1>1, <1>2 DEF Typed
<1>4. PICK s \in {stable[p], stable[p] + 1} : stable' = [stable EXCEPT ![p] = s]
  <2>1. stable = [stable EXCEPT ![p] = stable[p]]
    BY DEF Typed
  <2> QED BY <1>1, <2>1
<1>5. written' \in 0..MaxRecords
  BY <1>1, TopicLogAssumption DEF Typed
<1>6. /\ stable[p] \in Nat /\ stable[p] <= Len(log[p])
      /\ stable' \in [Partition -> Nat]
      /\ stable'[p] = s /\ \A q \in Partition \ {p} : stable'[q] = stable[q]
  BY <1>4 DEF Typed
<1>7. ASSUME NEW q \in Partition
      PROVE  stable[q] <= stable'[q] /\ stable'[q] <= Len(log'[q])
  <2>1. CASE q = p
    BY <1>2, <1>3, <1>6, <2>1
  <2>2. CASE q # p
    BY <1>3, <1>6, <2>2 DEF Typed
  <2> QED BY <2>1, <2>2
<1>8. ASSUME NEW q \in Partition, NEW n \in 1..stable[q]
      PROVE  log'[q][n] = log[q][n]
  <2>1. CASE q = p
    <3>1. n \in 1..Len(log[p])
      BY <1>2, <1>6, <2>1
    <3> QED BY <1>2, <1>3, <2>1, <3>1
  <2>2. CASE q # p
    BY <1>3, <2>2
  <2> QED BY <2>1, <2>2
<1> QED BY <1>3, <1>5, <1>6, <1>7, <1>8 DEF WriteGrows

LEMMA EndTransactionGrows ==
    ASSUME Typed, NEW p \in Partition, NEW committed \in BOOLEAN, EndTransaction(p, committed)
    PROVE  WriteGrows
<1> DEFINE kept == IF committed THEN log[p] ELSE [log[p] EXCEPT ![stable[p] + 1] = Hole]
           longer == Append(kept, Hole)
<1>1. /\ log' = [log EXCEPT ![p] = longer]
      /\ stable' = [stable EXCEPT ![p] = Len(log[p]) + 1]
      /\ written' = written
  BY DEF EndTransaction
<1>2. /\ log[p] \in Seq(Record \cup {Hole}) /\ Len(log[p]) \in Nat
      /\ stable[p] \in Nat /\ stable[p] < Len(log[p])
      /\ DOMAIN log[p] = 1..Len(log[p])
  BY LenProperties DEF EndTransaction, InTransaction, Typed
<1>3. /\ kept \in Seq(Record \cup {Hole}) /\ Len(kept) = Len(log[p])
      /\ \A n \in 1..stable[p] : kept[n] = log[p][n]
  <2>1. CASE committed
    BY <1>2, <2>1
  <2>2. CASE ~committed
    <3>1. /\ [log[p] EXCEPT ![stable[p] + 1] = Hole] \in Seq(Record \cup {Hole})
          /\ Len([log[p] EXCEPT ![stable[p] + 1] = Hole]) = Len(log[p])
      BY <1>2, ExceptSeq
    <3> QED BY <1>2, <2>2, <3>1
  <2> QED BY <2>1, <2>2
<1> HIDE DEF kept
<1>4. /\ longer \in Seq(Record \cup {Hole})
      /\ Len(longer) = Len(log[p]) + 1
      /\ \A n \in 1..Len(log[p]) : longer[n] = kept[n]
  BY <1>3, Appended
<1> HIDE DEF longer
<1>5. /\ log' \in [Partition -> Seq(Record \cup {Hole})]
      /\ log'[p] = longer /\ \A q \in Partition \ {p} : log'[q] = log[q]
      /\ stable' \in [Partition -> Nat]
      /\ stable'[p] = Len(log[p]) + 1 /\ \A q \in Partition \ {p} : stable'[q] = stable[q]
  BY <1>1, <1>2, <1>4 DEF Typed
<1>6. ASSUME NEW q \in Partition
      PROVE  stable[q] <= stable'[q] /\ stable'[q] <= Len(log'[q])
  <2>1. CASE q = p
    BY <1>2, <1>3, <1>4, <1>5, <2>1
  <2>2. CASE q # p
    BY <1>5, <2>2 DEF Typed
  <2> QED BY <2>1, <2>2
<1>7. ASSUME NEW q \in Partition, NEW n \in 1..stable[q]
      PROVE  log'[q][n] = log[q][n]
  <2>1. CASE q = p
    <3>1. n \in 1..Len(log[p])
      BY <1>2, <2>1
    <3> QED BY <1>3, <1>4, <1>5, <2>1, <3>1
  <2>2. CASE q # p
    BY <1>5, <2>2
  <2> QED BY <2>1, <2>2
<1> QED BY <1>1, <1>5, <1>6, <1>7 DEF WriteGrows, Typed

\* As long as nothing below what is handled changes, the last records stay what they are.
LEMMA LastKept ==
    ASSUME Typed, handled' = handled,
           \A p \in Partition : \A n \in 1..handled[p] : log'[p][n] = log[p][n]
    PROVE  \A k \in Key : LastRecords(k, handled)' = LastRecords(k, handled)
<1>1. ASSUME NEW k \in Key, NEW p \in Partition
      PROVE  OffsetsOf(k, p, handled[p])' = OffsetsOf(k, p, handled[p])
  BY DEF OffsetsOf
<1>2. \A k \in Key : \A p \in Partition : \A n \in OffsetsOf(k, p, handled[p]) :
          log'[p][n] = log[p][n]
  BY DEF OffsetsOf
<1>3. ASSUME NEW k \in Key, NEW r
      PROVE  r \in LastRecords(k, handled)' <=> r \in LastRecords(k, handled)
  <2>1. r \in LastRecords(k, handled)' <=>
            \E p \in Partition : \E n \in OffsetsOf(k, p, handled[p])' :
                r = log'[p][n] /\ \A i \in OffsetsOf(k, p, handled[p])' : i <= n
    BY DEF LastRecords
  <2>2. r \in LastRecords(k, handled) <=>
            \E p \in Partition : \E n \in OffsetsOf(k, p, handled[p]) :
                r = log[p][n] /\ \A i \in OffsetsOf(k, p, handled[p]) : i <= n
    BY DEF LastRecords
  <2> QED BY <1>1, <1>2, <2>1, <2>2
<1> QED BY <1>3

\* A record is among the last ones of its key.
LEMMA LastMember ==
    ASSUME NEW k \in Key, NEW upto, NEW r
    PROVE  r \in LastRecords(k, upto) <=>
               \E p \in Partition : \E n \in OffsetsOf(k, p, upto[p]) :
                   r = log[p][n] /\ \A i \in OffsetsOf(k, p, upto[p]) : i <= n
  BY DEF LastRecords

\* The last records are records of the key.
LEMMA LastType ==
    ASSUME Typed, NEW k \in Key, NEW r \in LastRecords(k, handled)
    PROVE  r \in Record /\ r.key = k
<1>1. PICK p \in Partition : \E n \in OffsetsOf(k, p, handled[p]) : r = log[p][n]
  BY LastMember
<1>2. PICK n \in 1..handled[p] : r = log[p][n] /\ r # Hole /\ r.key = k
  BY <1>1 DEF OffsetsOf
<1>3. n \in 1..Len(log[p]) /\ log[p] \in Seq(Record \cup {Hole})
  BY LenProperties DEF Typed
<1>4. r \in Record \cup {Hole}
  BY <1>2, <1>3, ElementOfSeq
<1> QED BY <1>2, <1>4

\* One offset further, in one partition: the record there is the last one of its key,
\* and the other keys' last records are what they were.
LEMMA LastMoves ==
    ASSUME Typed, NEW p \in InHand, Handle(p), log' = log
    PROVE  /\ NextOf(p) \in Record \cup {Hole}
           /\ handled' \in [Partition -> Nat]
           /\ \A q \in Partition : handled'[q] <= position[q]
           /\ \A k \in Key :
                  IF NextOf(p) # Hole /\ NextOf(p).key = k
                  THEN NextOf(p) \in LastRecords(k, handled)'
                  ELSE LastRecords(k, handled)' = LastRecords(k, handled)
<1> DEFINE n == handled[p] + 1
<1>1. /\ p \in Partition /\ handled[p] \in Nat /\ position[p] \in Nat /\ handled[p] < position[p]
      /\ handled' = [handled EXCEPT ![p] = n]
      /\ NextOf(p) = log[p][n]
  BY DEF InHand, Handle, NextOf, Typed
<1>2. NextOf(p) \in Record \cup {Hole}
  <2>1. n \in 1..Len(log[p]) /\ log[p] \in Seq(Record \cup {Hole})
    BY <1>1, LenProperties DEF Typed
  <2> QED BY <1>1, <2>1, ElementOfSeq
<1>3. /\ handled' \in [Partition -> Nat]
      /\ handled'[p] = n /\ \A q \in Partition \ {p} : handled'[q] = handled[q]
  BY <1>1 DEF Typed
<1>4. \A q \in Partition : handled'[q] <= position[q]
  BY <1>1, <1>3 DEF Typed
<1>5. ASSUME NEW k \in Key
      PROVE  /\ \A q \in Partition \ {p} :
                    OffsetsOf(k, q, handled[q])' = OffsetsOf(k, q, handled[q])
             /\ OffsetsOf(k, p, handled[p])' =
                    OffsetsOf(k, p, handled[p]) \cup
                        IF NextOf(p) # Hole /\ NextOf(p).key = k THEN {n} ELSE {}
  <2>1. 1..n = (1..handled[p]) \cup {n}
    BY <1>1
  <2> QED BY <1>1, <1>3, <2>1 DEF OffsetsOf
<1>6. ASSUME NEW k \in Key, NextOf(p) # Hole, NextOf(p).key = k
      PROVE  NextOf(p) \in LastRecords(k, handled)'
  <2>1. n \in OffsetsOf(k, p, handled[p])'
    BY <1>5, <1>6
  <2>2. \A i \in OffsetsOf(k, p, handled[p])' : i <= n
    BY <1>1, <1>3 DEF OffsetsOf
  <2>3. NextOf(p) = log'[p][n]
    BY <1>1
  <2> HIDE DEF n
  <2> QED BY <1>1, <2>1, <2>2, <2>3 DEF LastRecords
<1>7. ASSUME NEW k \in Key, ~(NextOf(p) # Hole /\ NextOf(p).key = k)
      PROVE  LastRecords(k, handled)' = LastRecords(k, handled)
  <2>1. \A q \in Partition : OffsetsOf(k, q, handled[q])' = OffsetsOf(k, q, handled[q])
    BY <1>5, <1>7
  <2> QED BY <2>1 DEF LastRecords
<1> QED BY <1>2, <1>3, <1>4, <1>6, <1>7

-----------------------------------------------------------------------------
(* A record reaches the store, and then the entries *)

\* What a record does to the store, its byte count and what is to reach the entries.
LEMMA ApplyEffect ==
    ASSUME Typed, BytesCounted, NEW r \in Record, ~Raises(r), Apply(r)
    PROVE  /\ store' \in [Key -> Value \cup {None}]
           /\ applied' \in Seq(Applicable)
           /\ BytesCounted'
           /\ Skipped(r) => store' = store /\ applied' = applied
           /\ ~Skipped(r) => /\ r \in Applicable
                             /\ store' = [store EXCEPT ![r.key] = BuiltFrom(r)]
                             /\ applied' = Append(applied, r)
<1>1. CASE Skipped(r)
  <2>1. store' = store /\ nbytes' = nbytes /\ applied' = applied
    BY <1>1 DEF Apply, Current
  <2> QED BY <1>1, <2>1 DEF Typed, BytesCounted
<1>2. CASE ~Skipped(r)
  <2> DEFINE k == r.key
             v == BuiltFrom(r)
  <2>1. r \in Applicable
    BY <1>2, SkippedOrApplicable
  <2>2. /\ k \in Key /\ DecodeKeyMediated(r) = k /\ v \in Value \cup {None}
        /\ IsTombstone(r.value) => v = None
        /\ ~IsTombstone(r.value) => v = Enrich[DecodeEventMediated(r)]
    BY <2>1, ApplicableApplies
  <2> HIDE DEF v
  <2>3. ApplyConfigRecord(Current, r) =
            [raw |-> [store EXCEPT ![k] = v],
             nbytes |-> IF IsTombstone(r.value) THEN nbytes - Weigh(k, store[k])
                        ELSE nbytes - Weigh(k, store[k]) + Weigh(k, v)]
    BY <2>2 DEF ApplyConfigRecord, Current, Put, Delete
  <2>4. /\ store' = [store EXCEPT ![k] = v]
        /\ nbytes' = IF IsTombstone(r.value) THEN nbytes - Weigh(k, store[k])
                     ELSE nbytes - Weigh(k, store[k]) + Weigh(k, v)
        /\ applied' = Append(applied, r)
    BY <1>2, <2>3 DEF Apply
  <2>5. IsTombstone(r.value) => Weigh(k, v) = 0
    BY <2>2 DEF Weigh
  <2>6. store \in [Key -> Value \cup {None}] /\ store[k] \in Value \cup {None}
    BY <2>2 DEF Typed
  <2>7. Weigh(k, store[k]) \in Nat /\ Weigh(k, v) \in Nat /\ nbytes \in Nat
    BY <2>2, <2>6, WeighType, FS_CardinalityType DEF BytesCounted
  <2>8. nbytes' = nbytes - Weigh(k, store[k]) + Weigh(k, v)
    BY <2>4, <2>5, <2>7
  <2>9. /\ IsFiniteSet(Bytes(store'))
        /\ Cardinality(Bytes(store')) = Cardinality(Bytes(store)) - Weigh(k, store[k]) + Weigh(k, v)
    BY <2>2, <2>4, <2>6, CountKept DEF BytesCounted
  <2>10. BytesCounted'
    <3>1. Bytes(store)' = Bytes(store')
      BY DEF Bytes, Weigh
    <3> QED BY <2>8, <2>9, <3>1 DEF BytesCounted
  <2>11. store' \in [Key -> Value \cup {None}]
    BY <2>2, <2>4, <2>6
  <2>12. applied' \in Seq(Applicable)
    BY <2>1, <2>4, AppendProperties DEF Typed
  <2> QED BY <1>2, <2>1, <2>4, <2>10, <2>11, <2>12 DEF v
<1> QED BY <1>1, <1>2

\* An entry waits for the record, or is as it was.
LEMMA EntriesWait ==
    ASSUME Typed, EntriesFollow, NEW r \in Applicable, entries' = entries,
           store' = [store EXCEPT ![r.key] = BuiltFrom(r)],
           applied' = Append(applied, r)
    PROVE  EntriesFollow'
<1>1. /\ Len(applied) \in Nat /\ Len(applied') = Len(applied) + 1
      /\ \A n \in 1..Len(applied) : applied'[n] = applied[n] /\ applied[n] \in Applicable
      /\ applied'[Len(applied) + 1] = r
  BY AppendProperties, LenProperties, ElementOfSeq DEF Typed
<1>2. /\ r.key \in Key
      /\ store'[r.key] = BuiltFrom(r)
      /\ \A k \in Key \ {r.key} : store'[k] = store[k]
  BY ApplicableApplies DEF Typed
<1>3. ASSUME NEW k \in Key, \A n \in 1..Len(applied') : applied'[n].key # k
      PROVE  EntryAgrees(k)'
  <2>1. Len(applied) + 1 \in 1..Len(applied') /\ \A n \in 1..Len(applied) : n \in 1..Len(applied')
    BY <1>1
  <2>2. k # r.key /\ \A n \in 1..Len(applied) : applied[n].key # k
    BY <1>1, <1>3, <2>1
  <2>3. EntryAgrees(k)
    BY <2>2 DEF EntriesFollow
  <2> QED BY <1>2, <2>2, <2>3 DEF EntryAgrees
<1>4. ASSUME NEW n \in 1..Len(applied'), LastApplied(n)'
      PROVE  store'[applied'[n].key] = BuiltFrom(applied'[n])
  <2>1. CASE n = Len(applied) + 1
    BY <1>1, <1>2, <2>1
  <2>2. CASE n # Len(applied) + 1
    <3>1. n \in 1..Len(applied) /\ applied'[n] = applied[n]
      BY <1>1, <2>2
    <3>2. \A m \in 1..Len(applied') : m > n => applied'[m].key # applied'[n].key
      BY <1>4 DEF LastApplied
    <3>3. Len(applied) + 1 \in 1..Len(applied') /\ Len(applied) + 1 > n
      BY <1>1, <3>1
    <3>4. applied[n].key # r.key
      BY <1>1, <3>1, <3>2, <3>3
    <3>5. LastApplied(n)
      <4>1. \A m \in 1..Len(applied) : m \in 1..Len(applied') /\ applied'[m] = applied[m]
        BY <1>1
      <4> QED BY <3>1, <3>2, <4>1 DEF LastApplied
    <3>6. store[applied[n].key] = BuiltFrom(applied[n])
      BY <3>1, <3>5 DEF EntriesFollow
    <3>7. applied[n].key \in Key
      BY <1>1, <3>1, ApplicableApplies
    <3> QED BY <1>2, <3>1, <3>4, <3>6, <3>7
  <2> QED BY <2>1, <2>2
<1>5. \A n \in 1..Len(applied') : BuiltFrom(applied[n])' = BuiltFrom(applied'[n])
  BY DEF BuiltFrom
<1> QED BY <1>3, <1>4, <1>5 DEF EntriesFollow

\* What the policy skips changes nothing.
LEMMA EntriesStay ==
    ASSUME EntriesFollow, UNCHANGED <<store, applied, entries>>
    PROVE  EntriesFollow'
<1>1. \A k \in Key : EntryAgrees(k)' <=> EntryAgrees(k)
  BY DEF EntryAgrees
<1>2. \A n : LastApplied(n)' <=> LastApplied(n)
  BY DEF LastApplied
<1>3. \A n : BuiltFrom(applied[n])' = BuiltFrom(applied[n])
  BY DEF BuiltFrom
<1> QED BY <1>1, <1>2, <1>3 DEF EntriesFollow

\* Applied to the store, a record leaves it as booted from that record.
LEMMA BuiltAsBooted ==
    ASSUME NEW k \in Key, NEW r, r \in LastRecords(k, handled)', ~Raises(r),
           Skipped(r) \/ store'[k] = BuiltFrom(r)
    PROVE  AsBooted(k)'
<1>1. CASE Skipped(r)
  BY <1>1 DEF AsBooted
<1>2. CASE store'[k] = BuiltFrom(r)
  <2>1. r \in {q \in LastRecords(k, handled)' : ~Raises(q)}
    OBVIOUS
  <2>2. \A q : BuiltFrom(q)' = BuiltFrom(q) /\ (Raises(q)' <=> Raises(q))
    BY DEF BuiltFrom, Raises
  <2> QED BY <1>2, <2>1, <2>2 DEF AsBooted
<1> QED BY <1>1, <1>2

\* Last records and store unchanged, so is what a key is booted from.
LEMMA BootedStays ==
    ASSUME NEW k \in Key, AsBooted(k),
           LastRecords(k, handled)' = LastRecords(k, handled), store'[k] = store[k]
    PROVE  AsBooted(k)'
  BY DEF AsBooted, BuiltFrom, Raises, Skipped

-----------------------------------------------------------------------------
(* The steps *)

\* Before anything is read there is nothing.
LEMMA DownIsEmpty ==
    ASSUME Typed', pc' = "down", handled' = Start, latest' = Nothing, applied' = <<>>,
           store' = Nothing, nbytes' = 0, entries' = Nothing
    PROVE  ConfigInv'
<1>1. BytesCounted'
  BY NothingWeighs DEF BytesCounted, Bytes, Weigh
<1>2. Phases'
  BY DEF Phases, Start, Nothing
<1>3. ASSUME NEW k \in Key PROVE LastRecords(k, handled)' = {}
  <2>1. \A p \in Partition : OffsetsOf(k, p, handled[p])' = {}
    BY DEF OffsetsOf, Start
  <2> QED BY <2>1 DEF LastRecords
<1>4. Compacted'
  BY <1>3 DEF Compacted, Survives, Nothing
<1>5. StoreAsBooted'
  BY DEF StoreAsBooted
<1>6. EntriesFollow'
  <2>1. \A n \in 1..Len(applied') : FALSE
    BY EmptySeq
  <2> QED BY <2>1 DEF EntriesFollow, EntryAgrees, Nothing
<1> QED BY <1>1, <1>2, <1>4, <1>5, <1>6 DEF ConfigInv

\* An exception ends the stage, as a crash does.
LEMMA DownStep ==
    ASSUME Typed, Down, UNCHANGED logVars, faults' \in 0..MaxFaults
    PROVE  ConfigInv'
<1>1. Typed'
  <2>1. /\ Start \in [Partition -> Nat] /\ \A p \in Partition : Start[p] = 0
        /\ Nothing \in [Key -> {None}]
    BY DEF Start, Nothing
  <2>2. <<>> \in Seq(Applicable)
    BY EmptySeq
  <2> QED BY <2>1, <2>2 DEF Typed, Down, logVars
<1> QED BY <1>1, DownIsEmpty DEF Down

\* The stage does not see a write before it reads.
LEMMA WriteStep ==
    ASSUME ConfigInv, Write
    PROVE  ConfigInv'
<1>1. UNCHANGED <<pc, readVars, storeVars, faults>>
  BY DEF Write
<1>2. WriteGrows
  <2>1. PICK p \in Partition :
            \/ \E r \in Writes : Produce(p, r) \/ ProduceInTransaction(p, r)
            \/ \E committed \in BOOLEAN : EndTransaction(p, committed)
    BY DEF Write
  <2>2. Writes \subseteq Record
    BY TopicLogAssumption
  <2> QED BY <2>1, <2>2, ProduceGrows, EndTransactionGrows DEF ConfigInv
<1>3. Typed'
  BY <1>1, <1>2 DEF ConfigInv, Typed, WriteGrows, readVars, storeVars
<1>4. \A k \in Key : LastRecords(k, handled)' = LastRecords(k, handled)
  <2>1. \A p \in Partition : \A n \in 1..handled[p] : n \in 1..stable[p]
    BY DEF ConfigInv, Typed
  <2> QED BY <1>1, <1>2, <2>1, LastKept DEF ConfigInv, WriteGrows, readVars
<1>5. BytesCounted' /\ Phases'
  BY <1>1 DEF ConfigInv, BytesCounted, Bytes, Weigh, Phases, readVars, storeVars, Nothing, Start
<1>6. Compacted'
  BY <1>1, <1>4 DEF ConfigInv, Compacted, Survives, readVars
<1>7. StoreAsBooted'
  BY <1>1, <1>4, BootedStays DEF ConfigInv, StoreAsBooted, readVars, storeVars
<1>8. EntriesFollow'
  BY <1>1, EntriesStay DEF ConfigInv, readVars, storeVars
<1> QED BY <1>3, <1>5, <1>6, <1>7, <1>8 DEF ConfigInv

\* Steps that move neither records nor the store: what is left is to show the phases.
LEMMA QuietStep ==
    ASSUME ConfigInv, Typed', Phases',
           UNCHANGED <<log, handled, latest, applied, store, nbytes, entries>>,
           pc' \in {"down", "reading"} => pc \in {"down", "reading"},
           pc' \in {"applying", "running"} /\ pc \in {"down", "reading"} => StoreAsBooted'
    PROVE  ConfigInv'
<1>1. \A k \in Key : LastRecords(k, handled)' = LastRecords(k, handled)
  BY LastKept DEF ConfigInv
<1>2. BytesCounted'
  BY DEF ConfigInv, BytesCounted, Bytes, Weigh
<1>3. Compacted'
  BY <1>1 DEF ConfigInv, Compacted, Survives
<1>4. StoreAsBooted'
  <2>1. CASE pc \in {"applying", "running"}
    BY <1>1, <2>1, BootedStays DEF ConfigInv, StoreAsBooted
  <2>2. CASE pc \in {"down", "reading"}
    BY <2>2 DEF StoreAsBooted
  <2> QED BY <2>1, <2>2 DEF ConfigInv, Typed
<1>5. EntriesFollow'
  BY EntriesStay DEF ConfigInv
<1> QED BY <1>2, <1>3, <1>4, <1>5 DEF ConfigInv

LEMMA BootstrapStep ==
    ASSUME ConfigInv, Bootstrap
    PROVE  ConfigInv'
<1>1. /\ UNCHANGED <<log, stable, written, position, handled, latest, applied, store, nbytes, entries, faults>>
      /\ pc = "down" /\ pc' = "reading" /\ end' = stable
  BY DEF Bootstrap, logVars, storeVars
<1>2. Typed'
  BY <1>1 DEF ConfigInv, Typed
<1>3. Phases'
  BY <1>1 DEF ConfigInv, Phases, Nothing, Start
<1> QED BY <1>1, <1>2, <1>3, QuietStep

LEMMA ReadBatchStep ==
    ASSUME ConfigInv, NEW p \in Partition, NEW to, ReadBatch(p, to)
    PROVE  ConfigInv'
<1>1. /\ UNCHANGED <<log, stable, written, pc, handled, end, latest, applied, store, nbytes, entries, faults>>
      /\ pc = "reading" /\ position' = [position EXCEPT ![p] = to]
      /\ to \in (position[p] + 1)..stable[p]
  BY DEF ReadBatch, logVars, storeVars
<1>2. to \in Nat /\ position[p] < to /\ to <= stable[p]
  BY <1>1 DEF ConfigInv, Typed
<1>3. Typed'
  <2>1. /\ position' \in [Partition -> Nat]
        /\ position'[p] = to /\ \A q \in Partition \ {p} : position'[q] = position[q]
    BY <1>1, <1>2 DEF ConfigInv, Typed
  <2>2. ASSUME NEW q \in Partition
        PROVE  handled[q] <= position'[q] /\ position'[q] <= stable[q]
    <3>1. handled[q] \in Nat /\ position[q] \in Nat /\ stable[q] \in Nat
          /\ handled[q] <= position[q] /\ position[q] <= stable[q]
      BY DEF ConfigInv, Typed
    <3>2. CASE q = p
      BY <1>2, <2>1, <3>1, <3>2
    <3>3. CASE q # p
      BY <2>1, <3>1, <3>3
    <3> QED BY <3>2, <3>3
  <2> QED BY <1>1, <2>1, <2>2 DEF ConfigInv, Typed
<1>4. Phases'
  BY <1>1 DEF ConfigInv, Phases, Nothing, Start
<1> QED BY <1>1, <1>3, <1>4, QuietStep

\* What survived to the end of the read is what is to be applied; the rest is absent.
LEMMA EndOfReadStep ==
    ASSUME ConfigInv, EndOfRead
    PROVE  ConfigInv'
<1>1. /\ UNCHANGED <<log, stable, written, position, handled, latest, applied, store, nbytes, entries, faults>>
      /\ pc = "reading" /\ pc' = "applying" /\ end' = Start /\ InHand = {}
  BY DEF EndOfRead, logVars, storeVars
<1>2. Typed'
  <2>1. Start \in [Partition -> Nat]
    BY DEF Start
  <2> QED BY <1>1, <2>1 DEF ConfigInv, Typed
<1>3. handled = position
  <2>1. \A p \in Partition : handled[p] \in Nat /\ position[p] \in Nat
                             /\ handled[p] <= position[p] /\ ~(handled[p] < position[p])
    BY <1>1 DEF ConfigInv, Typed, InHand
  <2>2. \A p \in Partition : handled[p] = position[p]
    BY <2>1
  <2> QED BY <2>2 DEF ConfigInv, Typed
<1>4. Phases'
  BY <1>1, <1>3 DEF Phases
<1>5. \A k \in Key : LastRecords(k, handled)' = LastRecords(k, handled)
  BY <1>1, LastKept DEF ConfigInv
<1>6. StoreAsBooted'
  <2> SUFFICES ASSUME NEW k \in Key
               PROVE  IF latest[k] # None THEN latest[k] \in LastRecords(k, handled) ELSE AsBooted(k)'
    BY <1>1, <1>5 DEF StoreAsBooted
  <2>1. Survives(k) /\ store'[k] = None
    BY <1>1 DEF ConfigInv, Compacted, Phases, Nothing
  <2>2. CASE latest[k] # None
    BY <2>1, <2>2 DEF Survives
  <2>3. CASE latest[k] = None /\ LastRecords(k, handled) = {}
    BY <1>5, <2>1, <2>3 DEF AsBooted
  <2>4. CASE latest[k] = None /\ \E r \in LastRecords(k, handled) : IsTombstone(r.value)
    <3>1. PICK r \in LastRecords(k, handled) : IsTombstone(r.value)
      BY <2>4
    <3>2. ~Raises(r) /\ BuiltFrom(r) = None
      BY <3>1, LastType, TombstoneDeletes DEF ConfigInv
    <3> QED BY <1>5, <2>1, <2>4, <3>2, BuiltAsBooted
  <2> QED BY <2>1, <2>2, <2>3, <2>4 DEF Survives
<1> QED BY <1>1, <1>2, <1>4, <1>6, QuietStep

\* While the topics are read, only what survives changes.
LEMMA CollectKeeps ==
    ASSUME ConfigInv, pc = "reading", Typed', Compacted',
           UNCHANGED <<pc, applied, store, nbytes, entries>>
    PROVE  ConfigInv'
<1>1. BytesCounted' /\ Phases' /\ StoreAsBooted'
  BY DEF ConfigInv, BytesCounted, Bytes, Weigh, Phases, StoreAsBooted, Nothing
<1> QED BY <1>1, EntriesStay DEF ConfigInv

\* The record that is collected is a last one by then; the others' keys keep theirs.
LEMMA CollectStep ==
    ASSUME ConfigInv, NEW p \in Partition, CollectRecord(p)
    PROVE  ConfigInv'
<1> DEFINE r == NextOf(p)
<1>1. pc = "reading" /\ p \in InHand /\ UNCHANGED <<logVars, faults>>
  BY DEF CollectRecord
<1>2. CASE Down
  BY <1>1, <1>2, DownStep DEF ConfigInv, Typed
<1>3. CASE /\ ~(r # Hole /\ DecodeKeyMediated(r) = Raise)
           /\ Handle(p)
           /\ latest' = IF r = Hole THEN latest ELSE Collect(latest, r)
           /\ UNCHANGED <<pc, position, end, applied, storeVars>>
  <2>1. UNCHANGED <<log, stable, written, faults, pc, position, end, applied, store, nbytes, entries>>
    BY <1>1, <1>3 DEF logVars, storeVars
  <2>2. /\ r \in Record \cup {Hole}
        /\ handled' \in [Partition -> Nat]
        /\ \A q \in Partition : handled'[q] <= position[q]
        /\ \A k \in Key : IF r # Hole /\ r.key = k
                          THEN r \in LastRecords(k, handled)'
                          ELSE LastRecords(k, handled)' = LastRecords(k, handled)
    BY <1>1, <1>3, <2>1, LastMoves DEF ConfigInv
  <2>3. CASE r = Hole \/ r.key \notin Key
    <3>1. latest' = latest
      BY <1>3, <2>2, <2>3, KeyDecodes DEF Collect
    <3>2. \A k \in Key : LastRecords(k, handled)' = LastRecords(k, handled)
      BY <2>2, <2>3
    <3>3. Typed'
      BY <2>1, <2>2, <3>1 DEF ConfigInv, Typed
    <3>4. Compacted'
      BY <1>1, <2>1, <3>1, <3>2 DEF ConfigInv, Compacted, Survives
    <3> QED BY <1>1, <2>1, <3>3, <3>4, CollectKeeps
  <2>4. CASE r # Hole /\ r.key \in Key
    <3> DEFINE k == r.key
               left == IF IsTombstone(r.value) THEN None ELSE r
    <3>1. r \in Record /\ DecodeKeyMediated(r) = k /\ k # Skip
      BY <2>2, <2>4, KeyDecodes
    <3>2. latest' = [latest EXCEPT ![k] = left]
      BY <1>3, <2>4, <3>1 DEF Collect
    <3>3. left \in Record \cup {None} /\ (left = None <=> IsTombstone(r.value))
      BY <3>1, ConfigStoreAssumption
    <3>4. /\ latest' \in [Key -> Record \cup {None}]
          /\ latest'[k] = left /\ \A j \in Key \ {k} : latest'[j] = latest[j]
      BY <2>4, <3>2, <3>3 DEF ConfigInv, Typed
    <3>5. Typed'
      BY <2>1, <2>2, <3>4 DEF ConfigInv, Typed
    <3>6. Compacted'
      <4> SUFFICES ASSUME NEW j \in Key PROVE Survives(j)'
        BY DEF Compacted
      <4>1. CASE j = k
        <5>1. r \in LastRecords(j, handled)' /\ latest'[j] = left
          BY <2>2, <2>4, <3>4, <4>1
        <5> QED BY <3>3, <5>1 DEF Survives
      <4>2. CASE j # k
        <5>1. LastRecords(j, handled)' = LastRecords(j, handled) /\ latest'[j] = latest[j]
          BY <2>2, <3>4, <4>2
        <5>2. Survives(j)
          BY <1>1 DEF ConfigInv, Compacted
        <5> HIDE DEF k, left, r
        <5> QED BY <5>1, <5>2 DEF Survives
      <4> QED BY <4>1, <4>2
    <3> QED BY <1>1, <2>1, <3>5, <3>6, CollectKeeps
  <2> QED BY <2>3, <2>4
<1> QED BY <1>2, <1>3 DEF CollectRecord

\* Whatever a survivor does, the key it was kept for is as booted, and the others as before.
LEMMA ApplySurvivorStep ==
    ASSUME ConfigInv, NEW k \in Key, ApplySurvivor(k)
    PROVE  ConfigInv'
<1> DEFINE r == latest[k]
<1>1. pc = "applying" /\ r # None /\ UNCHANGED <<logVars, faults>>
  BY DEF ApplySurvivor
<1>2. CASE Down
  BY <1>1, <1>2, DownStep DEF ConfigInv, Typed
<1>3. CASE /\ ~Raises(r)
           /\ Apply(r)
           /\ latest' = [latest EXCEPT ![k] = None]
           /\ UNCHANGED <<pc, position, handled, end, entries>>
  <2>1. UNCHANGED <<log, stable, written, faults, pc, position, handled, end, entries>>
    BY <1>1, <1>3 DEF logVars
  <2>2. r \in Record
    BY <1>1 DEF ConfigInv, Typed
  <2>3. /\ store' \in [Key -> Value \cup {None}]
        /\ applied' \in Seq(Applicable)
        /\ BytesCounted'
        /\ Skipped(r) => store' = store /\ applied' = applied
        /\ ~Skipped(r) => /\ r \in Applicable
                          /\ store' = [store EXCEPT ![r.key] = BuiltFrom(r)]
                          /\ applied' = Append(applied, r)
    BY <1>3, <2>2, ApplyEffect DEF ConfigInv
  <2>4. /\ latest' \in [Key -> Record \cup {None}]
        /\ latest'[k] = None /\ \A j \in Key \ {k} : latest'[j] = latest[j]
    BY <1>3 DEF ConfigInv, Typed
  <2>5. Typed'
    BY <2>1, <2>3, <2>4 DEF ConfigInv, Typed
  <2>6. Phases'
    <3>1. handled = position
      BY <1>1 DEF ConfigInv, Phases, Nothing
    <3> QED BY <1>1, <2>1, <3>1 DEF Phases
  <2>7. \A j \in Key : LastRecords(j, handled)' = LastRecords(j, handled)
    BY <2>1, LastKept DEF ConfigInv
  <2>8. r \in LastRecords(k, handled) /\ r.key = k
    BY <1>1, LastType DEF ConfigInv, StoreAsBooted
  <2>9. /\ Skipped(r) \/ store'[k] = BuiltFrom(r)
        /\ \A j \in Key \ {k} : store'[j] = store[j]
    BY <2>3, <2>8 DEF ConfigInv, Typed
  <2>10. StoreAsBooted'
    <3>1. AsBooted(k)'
      BY <1>3, <2>7, <2>8, <2>9, BuiltAsBooted
    <3>2. ASSUME NEW j \in Key \ {k}
          PROVE  IF latest'[j] # None THEN latest'[j] \in LastRecords(j, handled)' ELSE AsBooted(j)'
      <4>1. IF latest[j] # None THEN latest[j] \in LastRecords(j, handled) ELSE AsBooted(j)
        BY <1>1 DEF ConfigInv, StoreAsBooted
      <4> QED BY <2>4, <2>7, <2>9, <4>1, BootedStays
    <3> QED BY <2>4, <3>1, <3>2 DEF StoreAsBooted
  <2>11. EntriesFollow'
    <3>1. CASE Skipped(r)
      BY <2>1, <2>3, <3>1, EntriesStay DEF ConfigInv
    <3>2. CASE ~Skipped(r)
      BY <2>1, <2>3, <3>2, EntriesWait DEF ConfigInv
    <3> QED BY <3>1, <3>2
  <2>12. Compacted'
    BY <1>1, <2>1 DEF Compacted
  <2> QED BY <2>3, <2>5, <2>6, <2>10, <2>11, <2>12 DEF ConfigInv
<1> QED BY <1>2, <1>3 DEF ApplySurvivor

\* A drained record is the last one of its key by then, and the store is built from it.
LEMMA ApplyDrainedStep ==
    ASSUME ConfigInv, NEW p \in Partition, ApplyDrained(p)
    PROVE  ConfigInv'
<1> DEFINE r == NextOf(p)
<1>1. pc = "applying" /\ p \in InHand /\ UNCHANGED <<logVars, faults>>
  BY DEF ApplyDrained
<1>2. CASE Down
  BY <1>1, <1>2, DownStep DEF ConfigInv, Typed
<1>3. CASE /\ ~(r # Hole /\ Raises(r))
           /\ Handle(p)
           /\ IF r = Hole THEN UNCHANGED <<store, nbytes, applied>> ELSE Apply(r)
           /\ UNCHANGED <<pc, position, end, latest, entries>>
  <2>1. UNCHANGED <<log, stable, written, faults, pc, position, end, latest, entries>>
    BY <1>1, <1>3 DEF logVars
  <2>2. /\ r \in Record \cup {Hole}
        /\ handled' \in [Partition -> Nat]
        /\ \A q \in Partition : handled'[q] <= position[q]
        /\ \A k \in Key : IF r # Hole /\ r.key = k
                          THEN r \in LastRecords(k, handled)'
                          ELSE LastRecords(k, handled)' = LastRecords(k, handled)
    BY <1>1, <1>3, <2>1, LastMoves DEF ConfigInv
  <2>3. latest = Nothing
    <3>1. handled # position
      BY <1>1 DEF InHand, ConfigInv, Typed
    <3> QED BY <1>1, <3>1 DEF ConfigInv, Phases
  <2>4. /\ store' \in [Key -> Value \cup {None}]
        /\ applied' \in Seq(Applicable)
        /\ BytesCounted'
        /\ r = Hole \/ Skipped(r) => store' = store /\ applied' = applied
        /\ ~(r = Hole \/ Skipped(r)) => /\ r \in Applicable
                                        /\ store' = [store EXCEPT ![r.key] = BuiltFrom(r)]
                                        /\ applied' = Append(applied, r)
    <3>1. CASE r = Hole
      BY <1>3, <3>1 DEF ConfigInv, Typed, BytesCounted, Bytes, Weigh
    <3>2. CASE r # Hole
      BY <1>3, <2>2, <3>2, ApplyEffect DEF ConfigInv
    <3> QED BY <3>1, <3>2
  <2>5. Typed'
    BY <2>1, <2>2, <2>4 DEF ConfigInv, Typed
  <2>6. Phases'
    BY <1>1, <2>1, <2>3 DEF Phases, Nothing
  <2>7. StoreAsBooted'
    <3> SUFFICES ASSUME NEW k \in Key PROVE AsBooted(k)'
      BY <2>1, <2>3 DEF StoreAsBooted, Nothing
    <3>1. CASE r # Hole /\ r.key = k
      <4>1. Skipped(r) \/ store'[k] = BuiltFrom(r)
        BY <2>4, <3>1 DEF ConfigInv, Typed
      <4> QED BY <1>3, <2>2, <3>1, <4>1, BuiltAsBooted
    <3>2. CASE ~(r # Hole /\ r.key = k)
      <4>1. LastRecords(k, handled)' = LastRecords(k, handled)
        BY <2>2, <3>2
      <4>2. store'[k] = store[k]
        BY <2>4, <3>2 DEF ConfigInv, Typed
      <4>3. AsBooted(k)
        BY <1>1, <2>3 DEF ConfigInv, StoreAsBooted, Nothing
      <4> QED BY <4>1, <4>2, <4>3, BootedStays
    <3> QED BY <3>1, <3>2
  <2>8. EntriesFollow'
    <3>1. CASE r = Hole \/ Skipped(r)
      BY <2>1, <2>4, <3>1, EntriesStay DEF ConfigInv
    <3>2. CASE ~(r = Hole \/ Skipped(r))
      BY <2>1, <2>4, <3>2, EntriesWait DEF ConfigInv
    <3> QED BY <3>1, <3>2
  <2>9. Compacted'
    BY <1>1, <2>1 DEF Compacted
  <2> QED BY <2>4, <2>5, <2>6, <2>7, <2>8, <2>9 DEF ConfigInv
<1> QED BY <1>2, <1>3 DEF ApplyDrained

LEMMA CheckConfigUpdatesStep ==
    ASSUME ConfigInv, NEW to \in [Partition -> Offsets], CheckConfigUpdates(to)
    PROVE  ConfigInv'
<1>1. /\ UNCHANGED <<log, stable, written, handled, end, latest, applied, store, nbytes, entries, faults>>
      /\ pc = "running" /\ pc' \in {"applying", "running"}
      /\ pc' = "running" => to = position
      /\ position' = to
      /\ \A p \in Partition : to[p] \in position[p]..stable[p]
  BY DEF CheckConfigUpdates, logVars, storeVars
<1>2. \A p \in Partition : to[p] \in Nat /\ position[p] <= to[p] /\ to[p] <= stable[p]
  BY <1>1 DEF ConfigInv, Typed
<1>3. Typed'
  <2>1. position' \in [Partition -> Nat]
    BY <1>1, <1>2
  <2>2. \A p \in Partition : handled[p] <= position'[p] /\ position'[p] <= stable[p]
    BY <1>1, <1>2 DEF ConfigInv, Typed
  <2> QED BY <1>1, <2>1, <2>2 DEF ConfigInv, Typed
<1>4. Phases'
  BY <1>1 DEF ConfigInv, Phases, Nothing
<1> QED BY <1>1, <1>3, <1>4, QuietStep

\* An entry catches up with the store at the last record of its key.
LEMMA SyncEntryStep ==
    ASSUME ConfigInv, SyncEntry
    PROVE  ConfigInv'
<1> DEFINE r == Head(applied)
           k == r.key
<1>1. /\ UNCHANGED <<log, stable, written, pc, position, handled, end, latest, store, nbytes, faults>>
      /\ pc = "applying" /\ applied # <<>>
      /\ applied' = Tail(applied)
      /\ entries' = ApplyConfig(store, entries, r)
  BY DEF SyncEntry, StoreIsFed, logVars
<1>2. /\ applied' \in Seq(Applicable) /\ Len(applied') = Len(applied) - 1
      /\ Len(applied) \in Nat /\ Len(applied) > 0
      /\ \A n \in 1..Len(applied') : applied'[n] = applied[n + 1]
      /\ r = applied[1] /\ r \in Applicable
  <2>1. applied \in Seq(Applicable)
    BY DEF ConfigInv, Typed
  <2>2. Len(applied) \in Nat /\ Len(applied) # 0
    BY <1>1, <2>1, LenProperties, EmptySeq
  <2> QED BY <1>1, <2>1, <2>2, HeadTailProperties, ElementOfSeq
<1>3. /\ k \in Key
      /\ IsTombstone(r.value) => BuiltFrom(r) = None
      /\ ~IsTombstone(r.value) => /\ DecodeEventMediated(r) \in Value
                                  /\ BuiltFrom(r) = Enrich[DecodeEventMediated(r)]
                                  /\ BuiltFrom(r) \in Value
  BY <1>2, ApplicableApplies
<1>4. MessageValue(r) \in Value \cup {Null} /\ (~IsTombstone(r.value) => MessageValue(r) = DecodeEventMediated(r))
  BY <1>3 DEF MessageValue
<1> DEFINE entry == IF store[k] = None THEN None ELSE [config |-> store[k], keyedBy |-> MessageValue(r)]
<1>5. /\ entries' = [entries EXCEPT ![k] = entry]
      /\ store \in [Key -> Value \cup {None}] /\ entries \in [Key -> Entry \cup {None}]
  BY <1>1 DEF ApplyConfig, ConfigInv, Typed
<1>6. entry \in Entry \cup {None} /\ (entry = None <=> store[k] = None)
  <2>1. store[k] # None => [config |-> store[k], keyedBy |-> MessageValue(r)] \in Entry
    BY <1>3, <1>4, <1>5 DEF Entry
  <2> QED BY <2>1, ConfigStoreAssumption
<1>7. /\ entries' \in [Key -> Entry \cup {None}]
      /\ entries'[k] = entry /\ \A j \in Key \ {k} : entries'[j] = entries[j]
  BY <1>3, <1>5, <1>6
<1>8. Typed'
  BY <1>1, <1>2, <1>7 DEF ConfigInv, Typed
<1>9. Phases' /\ Compacted' /\ BytesCounted'
  BY <1>1 DEF ConfigInv, Phases, Compacted, BytesCounted, Bytes, Weigh, Nothing
<1>10. StoreAsBooted'
  <2>1. \A j \in Key : LastRecords(j, handled)' = LastRecords(j, handled)
    BY <1>1, LastKept DEF ConfigInv
  <2> QED BY <1>1, <2>1, BootedStays DEF ConfigInv, StoreAsBooted
<1>11. ASSUME NEW j \in Key, \A n \in 1..Len(applied') : applied'[n].key # j
       PROVE  EntryAgrees(j)'
  <2>1. \A n \in 1..Len(applied) : n > 1 => applied[n].key # j
    <3> SUFFICES ASSUME NEW n \in 1..Len(applied), n > 1 PROVE applied[n].key # j
      OBVIOUS
    <3>1. n - 1 \in 1..Len(applied') /\ (n - 1) + 1 = n
      BY <1>2
    <3> QED BY <1>2, <1>11, <3>1
  <2>2. CASE j # k
    <3>1. \A n \in 1..Len(applied) : applied[n].key # j
      BY <1>2, <2>1, <2>2
    <3>2. EntryAgrees(j)
      BY <3>1 DEF ConfigInv, EntriesFollow
    <3> QED BY <1>1, <1>7, <2>2, <3>2 DEF EntryAgrees
  <2>3. CASE j = k
    <3>1. 1 \in 1..Len(applied) /\ LastApplied(1)
      BY <1>2, <2>1, <2>3 DEF LastApplied
    <3>2. store[k] = BuiltFrom(r)
      BY <1>2, <3>1 DEF ConfigInv, EntriesFollow
    <3>3. CASE IsTombstone(r.value)
      BY <1>1, <1>3, <1>6, <1>7, <2>3, <3>2, <3>3 DEF EntryAgrees
    <3>4. CASE ~IsTombstone(r.value)
      <4>1. store[k] # None /\ MessageValue(r) \in Value /\ Enrich[MessageValue(r)] = store[k]
        BY <1>3, <1>4, <3>2, <3>4, ConfigStoreAssumption
      <4>2. entry # None /\ entry.config = store[k] /\ entry.keyedBy = MessageValue(r)
        BY <1>6, <4>1
      <4> HIDE DEF entry
      <4> QED BY <1>1, <1>7, <2>3, <4>1, <4>2 DEF EntryAgrees
    <3> QED BY <3>3, <3>4
  <2> QED BY <2>2, <2>3
<1>12. ASSUME NEW n \in 1..Len(applied'), LastApplied(n)'
       PROVE  store'[applied'[n].key] = BuiltFrom(applied'[n])
  <2>1. n + 1 \in 1..Len(applied) /\ applied'[n] = applied[n + 1]
    BY <1>2
  <2>2. LastApplied(n + 1)
    <3> SUFFICES ASSUME NEW m \in 1..Len(applied), m > n + 1
                 PROVE  applied[m].key # applied[n + 1].key
      BY DEF LastApplied
    <3>1. m - 1 \in 1..Len(applied') /\ m - 1 > n /\ (m - 1) + 1 = m
      BY <1>2
    <3>2. applied'[m - 1].key # applied'[n].key
      BY <1>12, <3>1 DEF LastApplied
    <3> QED BY <1>2, <2>1, <3>1, <3>2
  <2>3. store[applied[n + 1].key] = BuiltFrom(applied[n + 1])
    BY <2>1, <2>2 DEF ConfigInv, EntriesFollow
  <2> QED BY <1>1, <2>1, <2>3
<1>13. EntriesFollow'
  <2>1. \A n : BuiltFrom(applied[n])' = BuiltFrom(applied'[n])
    BY DEF BuiltFrom
  <2> QED BY <1>11, <1>12, <2>1 DEF EntriesFollow
<1> QED BY <1>8, <1>9, <1>10, <1>13 DEF ConfigInv

LEMMA BackToLoopStep ==
    ASSUME ConfigInv, BackToLoop
    PROVE  ConfigInv'
<1>1. /\ UNCHANGED <<log, stable, written, position, handled, end, latest, applied, store, nbytes, entries, faults>>
      /\ pc = "applying" /\ pc' = "running"
      /\ InHand = {} /\ latest = Nothing /\ applied = <<>>
  BY DEF BackToLoop, StoreIsFed, logVars, readVars, storeVars
<1>2. Typed'
  BY <1>1 DEF ConfigInv, Typed
<1>3. handled = position
  <2>1. \A p \in Partition : handled[p] \in Nat /\ position[p] \in Nat
                             /\ handled[p] <= position[p] /\ ~(handled[p] < position[p])
    BY <1>1 DEF ConfigInv, Typed, InHand
  <2>2. \A p \in Partition : handled[p] = position[p]
    BY <2>1
  <2> QED BY <2>2 DEF ConfigInv, Typed
<1>4. Phases'
  BY <1>1, <1>3 DEF Phases, Nothing
<1> QED BY <1>1, <1>2, <1>4, QuietStep

-----------------------------------------------------------------------------
(* The theorems *)

LEMMA InitHolds ==
    ASSUME Init
    PROVE  ConfigInv
<1>1. /\ pc = "down" /\ position = Start /\ handled = Start /\ end = Start
      /\ latest = Nothing /\ applied = <<>> /\ store = Nothing /\ nbytes = 0 /\ entries = Nothing
      /\ log = [p \in Partition |-> <<>>] /\ stable = Start /\ written = 0 /\ faults = 0
  BY DEF Init, LogInit, Start
<1>2. /\ Start \in [Partition -> Nat] /\ \A p \in Partition : Start[p] = 0
      /\ Nothing \in [Key -> {None}]
  BY DEF Start, Nothing
<1>3. Typed
  <2>1. <<>> \in Seq(Applicable) /\ <<>> \in Seq(Record \cup {Hole}) /\ Len(<<>>) = 0
    BY EmptySeq
  <2> QED BY <1>1, <1>2, <2>1, TopicLogAssumption, ConfigStoreAssumption DEF Typed
<1>4. BytesCounted
  BY <1>1, NothingWeighs DEF BytesCounted
<1>5. Phases /\ StoreAsBooted
  BY <1>1 DEF Phases, StoreAsBooted
<1>6. Compacted
  <2>1. ASSUME NEW k \in Key PROVE LastRecords(k, handled) = {}
    <3>1. \A p \in Partition : OffsetsOf(k, p, handled[p]) = {}
      BY <1>1, <1>2 DEF OffsetsOf
    <3> QED BY <3>1 DEF LastRecords
  <2> QED BY <1>1, <2>1 DEF Compacted, Survives, Nothing
<1>7. EntriesFollow
  <2>1. \A n \in 1..Len(applied) : FALSE
    BY <1>1, EmptySeq
  <2> QED BY <1>1, <2>1 DEF EntriesFollow, EntryAgrees, Nothing
<1> QED BY <1>3, <1>4, <1>5, <1>6, <1>7 DEF ConfigInv

LEMMA NextKeeps ==
    ASSUME ConfigInv, [Next]_vars
    PROVE  ConfigInv'
<1>1. CASE UNCHANGED vars
  <2>1. /\ UNCHANGED <<log, handled, latest, applied, store, nbytes, entries, pc, position, end, stable, written, faults>>
    BY <1>1 DEF vars, logVars, readVars, storeVars
  <2>2. Typed' /\ Phases'
    BY <2>1 DEF ConfigInv, Typed, Phases, Nothing, Start
  <2> QED BY <2>1, <2>2, QuietStep DEF ConfigInv, Typed
<1>2. CASE Write
  BY <1>2, WriteStep
<1>3. CASE Crash
  <2>1. faults' \in 0..MaxFaults
    BY <1>3, ConfigStoreAssumption DEF Crash, ConfigInv, Typed
  <2> QED BY <1>3, <2>1, DownStep DEF Crash, ConfigInv
<1>4. CASE Run
  BY <1>4, BootstrapStep, ReadBatchStep, CollectStep, ApplyDrainedStep, EndOfReadStep,
     ApplySurvivorStep, CheckConfigUpdatesStep, SyncEntryStep, BackToLoopStep DEF Run
<1> QED BY <1>1, <1>2, <1>3, <1>4 DEF Next

\* The inductive invariant: whatever is written while a stage boots, drains and crashes,
\* its raw survivors and its store are made of last records, and its entries follow.
THEOREM ConfigInvariance == Spec => []ConfigInv
<1>1. Init => ConfigInv
  BY InitHolds
<1>2. ConfigInv /\ [Next]_vars => ConfigInv'
  BY NextKeeps
<1> QED BY <1>1, <1>2, PTL DEF Spec

\* Types of the log, the read, the store and its byte count.
THEOREM TypeCorrect == Spec => []TypeOK
<1>1. ConfigInv => TypeOK
  <2> SUFFICES ASSUME ConfigInv PROVE TypeOK
    OBVIOUS
  <2>1. nbytes \in Nat
    BY FS_CardinalityType DEF ConfigInv, BytesCounted
  <2>2. applied \in Seq(Record)
    <3>1. Applicable \subseteq Record
      BY DEF Applicable
    <3> QED BY <3>1, SeqMonotonic DEF ConfigInv, Typed
  <2> QED BY <2>1, <2>2 DEF ConfigInv, Typed, TypeOK
<1> QED BY <1>1, ConfigInvariance, PTL

\* configs.py: the enriched store cannot diverge from what a fresh boot would build.
THEOREM StoreNeverDiverges == Spec => []NoDivergence
<1>1. ConfigInv => NoDivergence
  <2> SUFFICES ASSUME ConfigInv, pc = "running", NEW k \in Key,
                      \A r \in LastRecords(k, position) : ~Skipped(r)
               PROVE  store[k] \in IF LastRecords(k, position) = {} THEN {None}
                          ELSE {BuiltFrom(r) : r \in {q \in LastRecords(k, position) : ~Raises(q)}}
    BY DEF NoDivergence
  <2>1. latest[k] = None /\ handled = position
    BY DEF ConfigInv, Phases, Nothing
  <2>2. AsBooted(k)
    BY <2>1 DEF ConfigInv, StoreAsBooted
  <2> QED BY <2>1, <2>2 DEF AsBooted
<1> QED BY <1>1, ConfigInvariance, PTL

\* ConfigStore.nbytes is the weight of what is held, and the entries of an extractor that
\* is back in its loop are those of the store.
THEOREM EntriesAgree == Spec => []StoreAndEntriesAgree
<1>1. ConfigInv => StoreAndEntriesAgree
  <2> SUFFICES ASSUME ConfigInv PROVE StoreAndEntriesAgree
    OBVIOUS
  <2>1. nbytes = Cardinality(Bytes(store))
    BY DEF ConfigInv, BytesCounted
  <2>2. ASSUME pc = "running", NEW k \in Key PROVE EntryAgrees(k)
    <3>1. \A n \in 1..Len(applied) : FALSE
      BY <2>2, EmptySeq DEF ConfigInv, Phases
    <3> QED BY <3>1 DEF ConfigInv, EntriesFollow
  <2> QED BY <2>1, <2>2 DEF StoreAndEntriesAgree, EntryAgrees
<1> QED BY <1>1, ConfigInvariance, PTL

-----------------------------------------------------------------------------
(* Keys that keep to a partition *)

\* A record is in a partition its key is written to.
HomeKept ==
    \A p \in Partition : \A n \in 1..Len(log[p]) :
        log[p][n] # Hole => p \in Home[log[p][n].key]

\* No two boots of a running stage differ in a key whose records are in one partition: it
\* has one last record, and unless that was skipped its value is built from it.
BootsAlike ==
    pc = "running" =>
        \A k \in Key, p \in Partition : Home[k] = {p} =>
            \A r \in LastRecords(k, position) :
                /\ LastRecords(k, position) = {r}
                /\ ~Skipped(r) => store[k] = BuiltFrom(r)

LEMMA HomeStays ==
    ASSUME Typed, HomeKept, Write
    PROVE  HomeKept'
<1>1. PICK p \in Partition :
          \/ \E r \in Writes : Produce(p, r) \/ ProduceInTransaction(p, r)
          \/ \E committed \in BOOLEAN : EndTransaction(p, committed)
  BY DEF Write
<1>2. /\ log \in [Partition -> Seq(Record \cup {Hole})]
      /\ log[p] \in Seq(Record \cup {Hole}) /\ Len(log[p]) \in Nat
      /\ DOMAIN log[p] = 1..Len(log[p])
  BY LenProperties DEF Typed
<1>3. CASE \E r \in Writes : Produce(p, r) \/ ProduceInTransaction(p, r)
  <2>1. PICK r \in Writes : Produce(p, r) \/ ProduceInTransaction(p, r)
    BY <1>3
  <2>2. r \in Record /\ p \in Home[r.key] /\ log' = [log EXCEPT ![p] = Append(log[p], r)]
    BY <2>1, TopicLogAssumption DEF Produce, ProduceInTransaction
  <2>3. /\ Len(log'[p]) = Len(log[p]) + 1
        /\ \A n \in 1..Len(log[p]) : log'[p][n] = log[p][n]
        /\ log'[p][Len(log[p]) + 1] = r
        /\ \A q \in Partition \ {p} : log'[q] = log[q]
    BY <1>2, <2>2, Appended
  <2>4. ASSUME NEW n \in 1..Len(log'[p]), log'[p][n] # Hole
        PROVE  p \in Home[log'[p][n].key]
    <3>1. n \in 1..Len(log[p]) \/ n = Len(log[p]) + 1
      BY <1>2, <2>3
    <3> QED BY <2>2, <2>3, <2>4, <3>1 DEF HomeKept
  <2> QED BY <2>3, <2>4 DEF HomeKept
<1>4. CASE \E committed \in BOOLEAN : EndTransaction(p, committed)
  <2>1. PICK committed \in BOOLEAN : EndTransaction(p, committed)
    BY <1>4
  <2> DEFINE kept == IF committed THEN log[p] ELSE [log[p] EXCEPT ![stable[p] + 1] = Hole]
  <2>2. log' = [log EXCEPT ![p] = Append(kept, Hole)]
    BY <2>1 DEF EndTransaction
  <2>3. /\ kept \in Seq(Record \cup {Hole}) /\ Len(kept) = Len(log[p])
        /\ \A n \in 1..Len(log[p]) : kept[n] \in {log[p][n], Hole}
    <3>1. stable[p] + 1 \in 1..Len(log[p])
      BY <1>2, <2>1 DEF EndTransaction, InTransaction, Typed
    <3>2. /\ [log[p] EXCEPT ![stable[p] + 1] = Hole] \in Seq(Record \cup {Hole})
          /\ Len([log[p] EXCEPT ![stable[p] + 1] = Hole]) = Len(log[p])
          /\ \A n \in 1..Len(log[p]) :
                 [log[p] EXCEPT ![stable[p] + 1] = Hole][n] \in {log[p][n], Hole}
      BY <1>2, <3>1, ExceptSeq
    <3> QED BY <1>2, <3>2
  <2> HIDE DEF kept
  <2>4. /\ Len(log'[p]) = Len(log[p]) + 1
        /\ \A n \in 1..Len(log[p]) : log'[p][n] \in {log[p][n], Hole}
        /\ log'[p][Len(log[p]) + 1] = Hole
        /\ \A q \in Partition \ {p} : log'[q] = log[q]
    BY <1>2, <2>2, <2>3, Appended
  <2>5. ASSUME NEW n \in 1..Len(log'[p]), log'[p][n] # Hole
        PROVE  p \in Home[log'[p][n].key]
    <3>1. n \in 1..Len(log[p]) \/ n = Len(log[p]) + 1
      BY <1>2, <2>4
    <3> QED BY <2>4, <2>5, <3>1 DEF HomeKept
  <2> QED BY <2>4, <2>5 DEF HomeKept
<1> QED BY <1>1, <1>3, <1>4

\* A key of one partition has one last record.
LEMMA OneLast ==
    ASSUME Typed, HomeKept, NEW k \in Key, NEW p \in Partition, Home[k] = {p},
           NEW r \in LastRecords(k, handled), NEW s \in LastRecords(k, handled)
    PROVE  r = s
<1>1. ASSUME NEW x \in LastRecords(k, handled)
      PROVE  \E n \in OffsetsOf(k, p, handled[p]) :
                 x = log[p][n] /\ \A i \in OffsetsOf(k, p, handled[p]) : i <= n
  <2>1. PICK q \in Partition : \E n \in OffsetsOf(k, q, handled[q]) :
            x = log[q][n] /\ \A i \in OffsetsOf(k, q, handled[q]) : i <= n
    BY <1>1, LastMember
  <2>2. PICK n \in OffsetsOf(k, q, handled[q]) :
            x = log[q][n] /\ \A i \in OffsetsOf(k, q, handled[q]) : i <= n
    BY <2>1
  <2>3. n \in 1..Len(log[q]) /\ log[q][n] # Hole /\ log[q][n].key = k
    BY LenProperties DEF OffsetsOf, Typed
  <2>4. q = p
    BY <2>3 DEF HomeKept
  <2> QED BY <2>2, <2>4
<1>2. PICK m \in OffsetsOf(k, p, handled[p]) :
          r = log[p][m] /\ \A i \in OffsetsOf(k, p, handled[p]) : i <= m
  BY <1>1
<1>3. PICK n \in OffsetsOf(k, p, handled[p]) :
          s = log[p][n] /\ \A i \in OffsetsOf(k, p, handled[p]) : i <= n
  BY <1>1
<1>4. m = n
  BY <1>2, <1>3 DEF OffsetsOf
<1> QED BY <1>2, <1>3, <1>4

\* Where records keep to a partition, the store of a running stage is a function of the log.
THEOREM StoreIsDetermined == Spec => []BootsAlike
<1>1. Init => HomeKept
  <2> SUFFICES ASSUME Init PROVE HomeKept
    OBVIOUS
  <2>1. \A p \in Partition : log[p] = <<>>
    BY DEF Init, LogInit
  <2>2. \A n \in 1..Len(<<>>) : FALSE
    BY EmptySeq
  <2> QED BY <2>1, <2>2 DEF HomeKept
<1>2. ConfigInv /\ HomeKept /\ [Next]_vars => HomeKept'
  <2> SUFFICES ASSUME ConfigInv, HomeKept, [Next]_vars PROVE HomeKept'
    OBVIOUS
  <2>1. CASE Write
    BY <2>1, HomeStays DEF ConfigInv
  <2>2. CASE ~Write
    <3>1. log' = log
      BY <2>2 DEF Next, Run, Crash, Bootstrap, ReadBatch, CollectRecord, EndOfRead, ApplySurvivor,
                  CheckConfigUpdates, ApplyDrained, SyncEntry, BackToLoop, vars, logVars
    <3> QED BY <3>1 DEF HomeKept
  <2> QED BY <2>1, <2>2
<1>3. ConfigInv /\ HomeKept => BootsAlike
  <2> SUFFICES ASSUME ConfigInv, HomeKept, pc = "running",
                      NEW k \in Key, NEW p \in Partition, Home[k] = {p},
                      NEW r \in LastRecords(k, position)
               PROVE  /\ LastRecords(k, position) = {r}
                      /\ ~Skipped(r) => store[k] = BuiltFrom(r)
    BY DEF BootsAlike
  <2>1. latest[k] = None /\ handled = position
    BY DEF ConfigInv, Phases, Nothing
  <2>2. LastRecords(k, handled) = {r}
    BY <2>1, OneLast DEF ConfigInv
  <2>3. AsBooted(k)
    BY <2>1 DEF ConfigInv, StoreAsBooted
  <2> QED BY <2>1, <2>2, <2>3 DEF AsBooted
<1> QED BY <1>1, <1>2, <1>3, ConfigInvariance, PTL DEF Spec

====

---- MODULE ConfigStore ----
(***************************************************************************)
(* The config store of a stage (flechtwerk/configs.py over kafka.py's      *)
(* read_to_end): read in full at startup, compacted by wire key over all   *)
(* config topics, then kept up to date by non-blocking drains.  Values are *)
(* enriched on their way in.  An extractor's runner keeps an entry per     *)
(* config beside the store (extractor.py, apply_config), which it brings   *)
(* up to date once the store is.  Each record is an await: steps go record *)
(* by record, and the stage may end between any two of them.               *)
(***************************************************************************)
EXTENDS TopicLog, FiniteSetsExt

CONSTANTS Enrich,       \* [Value -> Value], Stage.enrich_config
          Weight,       \* [Key \cup Value -> bytes], on the wire
          None,
          MaxFaults     \* bound: crashes

\* A ConfigEntry: the config, and what extract_state_key() saw of the record.
Entry == [config : Value, keyedBy : Value \cup {Null}]

ASSUME ConfigStoreAssumption ==
    /\ Enrich \in [Value -> Value]
    /\ Weight \in [Key \cup Value -> Nat]
    /\ None \notin Value \cup Record \cup Entry
    /\ MaxFaults \in Nat

VARIABLES
    pc,         \* "down", "reading" in read_to_end(), "applying" records to the store
                \* and then to the entries, "running"
    position,   \* per partition, the consumer's fetch position
    handled,    \* per partition, the offset up to which fetched records are handled
    end,        \* per partition, the end offset captured at entry
    latest,     \* bootstrap: the surviving record per key
    applied,    \* records applied to the store, not yet to the entries
    store,      \* ConfigStore._raw, None for an absent key
    nbytes,     \* ConfigStore._nbytes
    entries,    \* ExtractorRunner.entries, None for an absent key
    faults

readVars == <<position, handled, end, latest, applied>>
storeVars == <<store, nbytes, entries>>
vars == <<logVars, pc, readVars, storeVars, faults>>

Nothing == [k \in Key |-> None]
Start == [p \in Partition |-> 0]

Init ==
    /\ LogInit
    /\ pc = "down"
    /\ position = Start /\ handled = Start /\ end = Start
    /\ latest = Nothing /\ applied = <<>>
    /\ store = Nothing
    /\ nbytes = 0
    /\ entries = Nothing
    /\ faults = 0

-----------------------------------------------------------------------------
(* ConfigStore *)

Weigh(k, v) == IF v = None THEN 0 ELSE Weight[k] + Weight[v]

\* Mutant: what the key held before is subtracted, what it holds now is not added.
PutForgetting(s, k, v) ==
    [raw |-> [s.raw EXCEPT ![k] = v], nbytes |-> s.nbytes - Weigh(k, s.raw[k])]

Put(s, k, v) ==
    [raw |-> [s.raw EXCEPT ![k] = v],
     nbytes |-> s.nbytes - Weigh(k, s.raw[k]) + Weigh(k, v)]

Delete(s, k) ==
    [raw |-> [s.raw EXCEPT ![k] = None], nbytes |-> s.nbytes - Weigh(k, s.raw[k])]

\* Mutant: the value that reaches the store was enriched by an earlier call.
ApplyConfigRecordTwice(s, r) ==
    IF IsTombstone(r.value) THEN Delete(s, DecodeKeyMediated(r))
    ELSE Put(s, DecodeKeyMediated(r), Enrich[Enrich[DecodeEventMediated(r)]])

\* apply_config_record() for a record that decodes or is substituted.
ApplyConfigRecord(s, r) ==
    IF IsTombstone(r.value) THEN Delete(s, DecodeKeyMediated(r))
    ELSE Put(s, DecodeKeyMediated(r), Enrich[DecodeEventMediated(r)])

Skipped(r) ==
    \/ DecodeKeyMediated(r) = Skip
    \/ ~IsTombstone(r.value) /\ DecodeEventMediated(r) = Skip

Raises(r) ==
    \/ DecodeKeyMediated(r) = Raise
    \/ DecodeKeyMediated(r) \in Key /\ ~IsTombstone(r.value) /\ DecodeEventMediated(r) = Raise

Current == [raw |-> store, nbytes |-> nbytes]

\* A record of a bootstrap or a drain: what the policy skips changes nothing.
Apply(r) ==
    LET s == IF Skipped(r) THEN Current ELSE ApplyConfigRecord(Current, r) IN
    /\ store' = s.raw /\ nbytes' = s.nbytes
    /\ applied' = IF Skipped(r) THEN applied ELSE Append(applied, r)

-----------------------------------------------------------------------------
(* The extractor's entries *)

MessageValue(r) == IF IsTombstone(r.value) THEN Null ELSE DecodeEventMediated(r)

\* Mutant: an entry is added or updated, never removed.
ApplyConfigKeeping(raw, es, r) ==
    [es EXCEPT ![r.key] =
        IF raw[r.key] = None THEN @
        ELSE [config |-> raw[r.key], keyedBy |-> MessageValue(r)]]

\* apply_config() reads the store, which holds the WHOLE drain by then: what it
\* takes from the record itself is the value extract_state_key() may look at.
ApplyConfig(raw, es, r) ==
    [es EXCEPT ![r.key] =
        IF raw[r.key] = None THEN None
        ELSE [config |-> raw[r.key], keyedBy |-> MessageValue(r)]]

-----------------------------------------------------------------------------
(* The process *)

Down ==
    /\ pc' = "down"
    /\ position' = Start /\ handled' = Start /\ end' = Start
    /\ latest' = Nothing /\ applied' = <<>>
    /\ store' = Nothing /\ nbytes' = 0 /\ entries' = Nothing

\* Partitions of which a getmany() returned records, or passed over offsets, that
\* are not handled yet.
InHand == {p \in Partition : handled[p] < position[p]}

NextOf(p) == log[p][handled[p] + 1]

Handle(p) == handled' = [handled EXCEPT ![p] = @ + 1]

\* read_to_end(): from the beginning, to the end offsets as they are now.
Bootstrap ==
    /\ pc = "down"
    /\ pc' = "reading"
    /\ end' = stable
    /\ UNCHANGED <<logVars, position, handled, latest, applied, storeVars, faults>>

\* Mutant: a read that got past the captured end waits to be back at it.
PendingUntilEqual == {p \in Partition : position[p] # end[p]}

Pending == {p \in Partition : position[p] < end[p]}

\* collect(): keys only; a stale record's value is never decoded.
Collect(survivors, r) ==
    LET k == DecodeKeyMediated(r) IN
    IF k = Skip THEN survivors
    ELSE [survivors EXCEPT ![k] = IF IsTombstone(r.value) THEN None ELSE r]

\* A getmany() of the read returns records of p, past the captured end perhaps.
\* (It may return none: no step.)
ReadBatch(p, to) ==
    /\ pc = "reading"
    /\ InHand = {}
    /\ p \in Pending
    /\ to \in (position[p] + 1)..stable[p]
    /\ position' = [position EXCEPT ![p] = to]
    /\ UNCHANGED <<logVars, pc, handled, end, latest, applied, storeVars, faults>>

\* An offset without a record is passed over.
CollectRecord(p) ==
    LET r == NextOf(p) IN
    /\ pc = "reading"
    /\ p \in InHand
    /\ IF r # Hole /\ DecodeKeyMediated(r) = Raise
       THEN Down
       ELSE /\ Handle(p)
            /\ latest' = IF r = Hole THEN latest ELSE Collect(latest, r)
            /\ UNCHANGED <<pc, position, end, applied, storeVars>>
    /\ UNCHANGED <<logVars, faults>>

\* Every position has reached the end.
EndOfRead ==
    /\ pc = "reading"
    /\ InHand = {} /\ Pending = {}
    /\ pc' = "applying"
    /\ end' = Start
    /\ UNCHANGED <<logVars, position, handled, latest, applied, storeVars, faults>>

\* What survived is decoded and applied, in the order of `latest'.
ApplySurvivor(k) ==
    LET r == latest[k] IN
    /\ pc = "applying"
    /\ r # None
    /\ IF Raises(r)
       THEN Down
       ELSE /\ Apply(r)
            /\ latest' = [latest EXCEPT ![k] = None]
            /\ UNCHANGED <<pc, position, handled, end, entries>>
    /\ UNCHANGED <<logVars, faults>>

\* check_config_updates(): drain what is there, which may be nothing.
CheckConfigUpdates(to) ==
    /\ pc = "running"
    /\ \A p \in Partition : to[p] \in position[p]..stable[p]
    /\ pc' = IF to = position THEN "running" ELSE "applying"
    /\ position' = to
    /\ UNCHANGED <<logVars, handled, end, latest, applied, storeVars, faults>>

\* Per partition in order, the partitions in any.
ApplyDrained(p) ==
    LET r == NextOf(p) IN
    /\ pc = "applying"
    /\ p \in InHand
    /\ IF r # Hole /\ Raises(r)
       THEN Down
       ELSE /\ Handle(p)
            /\ IF r = Hole THEN UNCHANGED <<store, nbytes, applied>> ELSE Apply(r)
            /\ UNCHANGED <<pc, position, end, latest, entries>>
    /\ UNCHANGED <<logVars, faults>>

\* The store holds all of it: now the entries.
StoreIsFed == pc = "applying" /\ InHand = {} /\ latest = Nothing

SyncEntry ==
    /\ StoreIsFed /\ applied # <<>>
    /\ entries' = ApplyConfig(store, entries, Head(applied))
    /\ applied' = Tail(applied)
    /\ UNCHANGED <<logVars, pc, position, handled, end, latest, store, nbytes, faults>>

BackToLoop ==
    /\ StoreIsFed /\ applied = <<>>
    /\ pc' = "running"
    /\ UNCHANGED <<logVars, readVars, storeVars, faults>>

Crash ==
    /\ pc # "down"
    /\ faults < MaxFaults
    /\ faults' = faults + 1
    /\ Down
    /\ UNCHANGED logVars

Write ==
    /\ \E p \in Partition :
           \/ \E r \in Writes : Produce(p, r) \/ ProduceInTransaction(p, r)
           \/ \E committed \in BOOLEAN : EndTransaction(p, committed)
    /\ UNCHANGED <<pc, readVars, storeVars, faults>>

Offsets == 0..Max({stable[p] : p \in Partition})

\* The stage's process.
Run ==
    \/ Bootstrap
    \/ \E p \in Partition : \/ \E to \in Offsets : ReadBatch(p, to)
                           \/ CollectRecord(p)
                           \/ ApplyDrained(p)
    \/ EndOfRead
    \/ \E k \in Key : ApplySurvivor(k)
    \/ \E to \in [Partition -> Offsets] : CheckConfigUpdates(to)
    \/ SyncEntry
    \/ BackToLoop

Next == Write \/ Run \/ Crash

Spec == Init /\ [][Next]_vars

(***************************************************************************)
(* Fairness.  The orchestrator restarts a stage that went down, every      *)
(* fetch returns in the end - not each time with records -, and the main   *)
(* loop keeps draining.  Writers may stop, transactions stay open.         *)
(***************************************************************************)
FairSpec == Spec /\ WF_vars(Run)

-----------------------------------------------------------------------------
(* What should hold *)

\* The log, the read and the store, by their types.
TypeOK ==
    /\ log \in [Partition -> Seq(Record \cup {Hole})]
    /\ \A p \in Partition :
           handled[p] <= position[p] /\ position[p] <= stable[p] /\ stable[p] <= Len(log[p])
    /\ written \in 0..MaxRecords
    /\ pc \in {"down", "reading", "applying", "running"}
    /\ end \in [Partition -> Nat]
    /\ latest \in [Key -> Record \cup {None}]
    /\ applied \in Seq(Record)
    /\ store \in [Key -> Value \cup {None}]
    /\ entries \in [Key -> Entry \cup {None}]
    /\ nbytes \in Nat
    /\ faults \in 0..MaxFaults

OffsetsOf(k, p, upto) == {n \in 1..upto : log[p][n] # Hole /\ log[p][n].key = k}

\* The last record of k in each partition, up to the given offsets: with any
\* interleaving of the partitions, one of them is the one that survives.
LastRecords(k, upto) ==
    UNION {{log[p][n] : n \in {m \in OffsetsOf(k, p, upto[p]) :
                                   \A i \in OffsetsOf(k, p, upto[p]) : i <= m}} : p \in Partition}

BuiltFrom(r) ==
    IF IsTombstone(r.value) THEN None ELSE Enrich[DecodeEventMediated(r)]

\* "The enriched store cannot diverge from what a fresh boot would build"
\* (configs.py): whatever bootstraps, appends during the read, drains and
\* crashes led here, every key has a value that a boot that reads as far may
\* build: THE value, for a key that keeps to a partition, one of the last ones of
\* a key that does not - except where on_invalid_message skipped such a record: a
\* boot has nothing then, and a drain leaves the value before it.
NoDivergence ==
    pc = "running" =>
        \A k \in Key :
            LET last == LastRecords(k, position) IN
            (\A r \in last : ~Skipped(r)) =>
                store[k] \in IF last = {} THEN {None} ELSE {BuiltFrom(r) : r \in {q \in last : ~Raises(q)}}

\* What a store holds on the wire, byte by byte.
Bytes(raw) == UNION {{k} \X (1..Weigh(k, raw[k])) : k \in Key}

\* ConfigStore.nbytes, kept incrementally, is what counting again would give; and an
\* extractor that is back in its loop polls the configs its store holds, each under the
\* state key of the very record the store's value was built from.
StoreAndEntriesAgree ==
    /\ nbytes = Cardinality(Bytes(store))
    /\ pc = "running" => \A k \in Key :
           /\ entries[k] = None <=> store[k] = None
           /\ entries[k] # None =>
                  /\ entries[k].config = store[k]
                  /\ entries[k].keyedBy \in Value /\ Enrich[entries[k].keyedBy] = store[k]

\* A record every boot raises for: an undecodable key, or a surviving value.
BootRaises ==
    \E p \in Partition : \E n \in 1..stable[p] :
        /\ log[p][n] # Hole /\ Raises(log[p][n])
        /\ log[p][n].key \in Key =>
               \A m \in OffsetsOf(log[p][n].key, p, stable[p]) : m <= n

\* The read ends whatever is appended meanwhile, whatever offsets hold no record
\* and however long a transaction stays open; a boot that nothing raises in
\* comes up, a later value heals a bad one, and the drains catch up.
ComesUpToDate == <>[]~BootRaises => <>[](pc = "running" /\ position = stable)
====

---- MODULE Wire ----
(***************************************************************************)
(* What a record is when it is read (flechtwerk/kafka.py): its key and its *)
(* value each decode or do not, and what does not decode is put to the     *)
(* stage's on_invalid_message, whose answer is a function of the record.   *)
(***************************************************************************)
CONSTANTS Key,          \* decodable keys
          Value,        \* decodable values that are not empty
          Undecodable,  \* bytes that are not UTF-8, or no JSON object
          Policy,       \* [Undecodable -> what on_invalid_message does]
          Raise, Skip,  \* two of its outcomes; the third is a substitute
          Null,         \* the null value, a tombstone
          Empty         \* b"" and b"{}"

ASSUME WireAssumption ==
    /\ Policy \in [Undecodable -> Value \cup {Raise, Skip}]
    /\ Value \cap Undecodable = {} /\ Key \cap Undecodable = {}
    /\ {Raise, Skip, Null, Empty} \cap (Key \cup Value \cup Undecodable) = {}
    /\ Raise # Skip /\ Null # Empty /\ {Raise, Skip} \cap {Null, Empty} = {}

Record == [key : Key \cup Undecodable,
           value : Value \cup Undecodable \cup {Null, Empty}]

\* Tooling that cannot write a null deletes with an empty value.
IsTombstone(raw) == raw \in {Null, Empty}

\* A key is identity: it is skipped or raised, a substitute is a TypeError.
DecodeKeyMediated(r) ==
    CASE r.key \notin Undecodable -> r.key
      [] r.key \in Undecodable /\ Policy[r.key] = Skip -> Skip
      [] OTHER -> Raise

\* The value itself, a substitute, Skip or Raise.
DecodeEventMediated(r) ==
    IF r.value \in Undecodable THEN Policy[r.value] ELSE r.value
====

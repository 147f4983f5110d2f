---- MODULE Rotation ----
(***************************************************************************)
(* The life of one encrypted config attribute (flechtwerk/secrets.py): the *)
(* keyring files that flechtctl edits, the readers and the writer that     *)
(* load them when they start, the config topic, and an operator who        *)
(* rotates the key and rolls out new declarations of the attribute by the  *)
(* procedures of docs/concepts/secrets.md.  flechtctl replaces a file by a *)
(* rename: a process that starts reads the old one or the new one.         *)
(***************************************************************************)
EXTENDS Tokens, Naturals, Sequences

CONSTANTS Reader, Writer,       \* processes
          Config,               \* keys of the config topic
          Codecs,               \* Seq(Codec), the declarations in the order of their rollout
          Old, New,             \* the kid to retire and its successor
          Successors,           \* what the successor may be: [kind, bound] records
          InitialRing,          \* [{"reader", "writer"} -> Keyring], as flechtctl wrote them
          MaxEdits              \* bound: values the writer writes

ASSUME RotationAssumption ==
    /\ Reader # {} /\ Reader \cap Writer = {}
    /\ {Old, New} \subseteq Kid /\ Old # New
    /\ Successors \subseteq [kind : {"oct", "x25519"}, bound : SUBSET Scope]
    /\ MaxEdits \in Nat

\* Reads a value that is neither sealed nor signed.
ReadsPlain(codec) ==
    codec.encrypted => codec.readPlaintext /\ (codec.signed => codec.readUnsigned)

\* The first declaration reads what is there: plaintext.  A signature has a scope, and
\* is inside a token.  What one declaration seals, scopes or signs, the next ones do.
ASSUME RolloutAssumption ==
    /\ Codecs \in Seq(Codec) /\ Len(Codecs) > 0
    /\ ReadsPlain(Codecs[1])
    /\ \A n \in DOMAIN Codecs :
           Codecs[n].signed => Codecs[n].encrypted /\ Codecs[n].scope \in Scope
    /\ \A m, n \in DOMAIN Codecs : m <= n =>
           /\ Codecs[m].encrypted => Codecs[n].encrypted
           /\ Codecs[m].scope \in Scope => Codecs[n].scope = Codecs[m].scope
           /\ Codecs[m].signed => Codecs[n].signed

\* The readers can open what the writer seals, and verify what it signs.  The old
\* key is theirs, the new one nobody's yet.
ASSUME StartAssumption ==
    LET reader == InitialRing["reader"]
        writer == InitialRing["writer"]
    IN  /\ InitialRing \in [{"reader", "writer"} -> Keyring]
        /\ Valid(reader) /\ Valid(writer)
        /\ Old \in SealingKeys(reader)
        /\ New \notin Held(reader) \cup Held(writer)
        /\ SealingKeys(reader) \subseteq reader.private
        /\ \A kid \in SealingKeys(writer) :
               reader.kind[kid] = writer.kind[kid] /\ reader.bound[kid] = writer.bound[kid]
        /\ \A s \in Scope : writer.signing[s] # NoKid =>
               /\ reader.kind[writer.signing[s]] = "ed25519"
               /\ s \in reader.bound[writer.signing[s]]

VARIABLES
    file,       \* per role, the keyring in its file
    version,    \* per process, the index of the codec it was deployed with
    ring,       \* per process, its installed keyring
    topic,      \* per config, the surviving value of the attribute
    stale,      \* what the scan sees of superseded records, not compacted away yet; the
                \* new kid is left out, nobody waits for it to go
    value,      \* per config, what was meant
    quiesced,   \* a sweep is on: config writers pause
    edits

procVars == <<version, ring>>
topicVars == <<topic, stale, value>>
vars == <<file, procVars, topicVars, quiesced, edits>>

Process == Reader \cup Writer
Role(p) == IF p \in Reader THEN "reader" ELSE "writer"
CodecOf(p) == Codecs[version[p]]

Init ==
    /\ file = InitialRing
    /\ version = [p \in Process |-> 1]
    /\ ring = [p \in Process |-> InitialRing[Role(p)]]
    /\ value \in [Config -> Plain]
    /\ topic = value
    /\ stale = {}
    /\ quiesced = FALSE
    /\ edits = 0

-----------------------------------------------------------------------------
(* The topic scan *)

\* The kid of a ScanEntry; NoKid: a plaintext value.
ScanEntry(v) == IF IsEncrypted(v) THEN v.kid ELSE NoKid

\* The whole log, superseded records included.
Scanned == {ScanEntry(topic[c]) : c \in Config} \cup stale

-----------------------------------------------------------------------------
(* The processes *)

Produce(c, v) ==
    /\ topic' = [topic EXCEPT ![c] = v]
    /\ stale' = stale \cup ({ScanEntry(topic[c])} \ {New})

\* A typed write of the writer: an encoding that raises writes nothing.
Edit(w, c, v) ==
    LET token == Encode(CodecOf(w), ring[w], v) IN
    /\ edits < MaxEdits
    /\ ~quiesced
    /\ token # Failed
    /\ Produce(c, token)
    /\ value' = [value EXCEPT ![c] = v]
    /\ edits' = edits + 1
    /\ UNCHANGED <<file, procVars, quiesced>>

\* A process (re)starts: it installs the keyring that is in its file.
Restart(p, n) ==
    /\ version' = [version EXCEPT ![p] = n]
    /\ ring' = [ring EXCEPT ![p] = file[Role(p)]]
    /\ <<version', ring'>> # <<version, ring>>
    /\ UNCHANGED <<file, topicVars, quiesced, edits>>

\* Readers first.  A declaration that tolerates no plaintext, or nothing unsigned,
\* waits until the writers write none, the scan finds none, and no read took the
\* unsigned branch.
MayDeploy(p, n) ==
    /\ n \in DOMAIN Codecs
    /\ p \in Writer => \A r \in Reader : version[r] >= n
    /\ p \in Reader /\ Codecs[n].encrypted /\ ~Codecs[n].readPlaintext =>
           NoKid \notin Scanned /\ \A w \in Writer : CodecOf(w).encrypted
    /\ p \in Reader /\ Codecs[n].signed /\ ~Codecs[n].readUnsigned =>
           /\ \A c \in Config : IsEncrypted(topic[c]) /\ topic[c].payload \notin Plain
           /\ \A w \in Writer : CodecOf(w).signed

Deploy(p) == MayDeploy(p, version[p] + 1) /\ Restart(p, version[p] + 1)

RestartAsIs(p) == Restart(p, version[p])

\* Compaction removes superseded records, any time.
Compact(kid) ==
    /\ kid \in stale
    /\ stale' = stale \ {kid}
    /\ UNCHANGED <<file, procVars, topic, value, quiesced, edits>>

-----------------------------------------------------------------------------
(* flechtctl keyring *)

Save(role, new) ==
    /\ Valid(new)
    /\ new # file[role]
    /\ file' = [file EXCEPT ![role] = new]
    /\ UNCHANGED <<procVars, topicVars, quiesced, edits>>

\* `add': step 1, to the readers' keyring.
Add(key) ==
    /\ New \notin Held(file["reader"])
    /\ Old \in Held(file["reader"])
    /\ Save("reader", WithJwk(file["reader"],
                [kid |-> New, kind |-> key.kind, private |-> TRUE, bound |-> key.bound]))

\* `import': the public half of a recipient key, or a copy of an oct key.
Import ==
    /\ New \in Held(file["reader"]) \ Held(file["writer"])
    /\ Save("writer", WithJwk(file["writer"],
                IF file["reader"].kind[New] = "oct"
                THEN [PublicJwk(file["reader"], New) EXCEPT !.private = TRUE]
                ELSE PublicJwk(file["reader"], New)))

Loaded(kid) == \A r \in Reader : kid \in Held(ring[r])

\* `primary': step 2, once every reader's keyring_keys_loaded shows the key; of a
\* bound key for its scope first.
Promote(role, scope) ==
    /\ Loaded(New)
    /\ New \in Held(file[role])
    /\ scope \in file[role].bound[New] \cup {NoScope}
    /\ scope = NoScope => \A t \in file[role].bound[New] : file[role].primaries[t] = New
    /\ Save(role, SetPrimary(file[role], scope, New))

\* What the writer may still seal under, running or started from its file.
SealsUnder(kid) ==
    \E w \in Writer, n \in DOMAIN Codecs :
        /\ n >= version[w]
        /\ Codecs[n].encrypted
        /\ kid \in {SealingKid(keyring, Codecs[n].scope) : keyring \in {ring[w], file["writer"]}}

\* `remove': step 4, once the scan names the old kid no more.
Retire(role) ==
    /\ Old \in Held(file[role]) /\ Old # file[role].primary
    /\ Loaded(New)
    /\ Old \notin Scanned
    /\ ~SealsUnder(Old)
    /\ Save(role, Remove(file[role], Old))

-----------------------------------------------------------------------------
(* The sweep: step 3, where the readers' keyring is held *)

\* The declaration that every reader has by now.
SweepCodec == Codecs[CHOOSE n \in {version[r] : r \in Reader} :
                        \A r \in Reader : n <= version[r]]

Resealed(v, scope) ==
    IF IsEncrypted(v) THEN Reencrypt(file["reader"], v, scope)
                      ELSE EncryptBytes(file["reader"], v, scope)

CanSweep(c, scope) ==
    SweepCodec.encrypted /\ Resealed(topic[c], scope) \notin {Failed, topic[c]}

BeginSweep ==
    /\ ~quiesced
    /\ \E c \in Config : CanSweep(c, SweepCodec.scope)
    /\ quiesced' = TRUE
    /\ UNCHANGED <<file, procVars, topicVars, edits>>

\* A record is produced again, under its key and to its partition; the operator
\* may have left out --scope.
Sweep(c, scope) ==
    /\ quiesced
    /\ scope \in {SweepCodec.scope, NoScope}
    /\ CanSweep(c, scope)
    /\ Produce(c, Resealed(topic[c], scope))
    /\ UNCHANGED <<file, procVars, value, quiesced, edits>>

EndSweep ==
    /\ quiesced
    /\ \A c \in Config : ~CanSweep(c, SweepCodec.scope)
    /\ quiesced' = FALSE
    /\ UNCHANGED <<file, procVars, topicVars, edits>>

\* The operator at work.
Operate ==
    \/ \E key \in Successors : Add(key)
    \/ Import
    \/ \E role \in DOMAIN file, scope \in Scope \cup {NoScope} : Promote(role, scope)
    \/ \E role \in DOMAIN file : Retire(role)
    \/ BeginSweep \/ EndSweep
    \/ \E c \in Config, scope \in Scope \cup {NoScope} : Sweep(c, scope)

Next ==
    \/ \E w \in Writer, c \in Config, v \in Plain : Edit(w, c, v)
    \/ \E p \in Process : Deploy(p) \/ RestartAsIs(p)
    \/ \E kid \in stale : Compact(kid)
    \/ Operate

Spec == Init /\ [][Next]_vars

(***************************************************************************)
(* Fairness.  The operator goes on, in any order the procedures allow;     *)
(* processes are redeployed; superseded records are compacted away.        *)
(* Nobody has to edit.                                                     *)
(***************************************************************************)
FairSpec ==
    /\ Spec
    /\ \A p \in Process : WF_vars(Deploy(p) \/ RestartAsIs(p))
    /\ WF_vars(\E kid \in stale : Compact(kid))
    /\ WF_vars(Operate)

-----------------------------------------------------------------------------
(* What should hold *)

\* "The keyring validates itself" (docs/concepts/secrets.md): whatever edits led to
\* a keyring, its roles name keys it holds and public-key material is bound.
WellFormed(r) ==
    /\ r \in Keyring
    /\ r.primary \in SealingKeys(r)
    /\ \A kid \in Held(r) : r.kind[kid] = "oct" \/ r.bound[kid] # {}
    /\ \A s \in Scope : {r.primaries[s], r.signing[s]} \subseteq Held(r) \cup {NoKid}

\* Values, versions and keyrings, by their types; every keyring well formed.
TypeOK ==
    /\ \A role \in {"reader", "writer"} : WellFormed(file[role])
    /\ \A p \in Process : WellFormed(ring[p]) /\ version[p] \in DOMAIN Codecs
    /\ value \in [Config -> Plain]
    /\ topic \in [Config -> Plain \cup Sealed]
    /\ stale \subseteq Kid \cup {NoKid}
    /\ quiesced \in BOOLEAN
    /\ edits \in 0..MaxEdits

\* In the middle of a rotation, of the rollout of a scope or a signature, of a sweep,
\* or of all of them: every reader reads every surviving value as it was meant.
ReadsWhatWasMeant ==
    \A r \in Reader, c \in Config : Decode(CodecOf(r), ring[r], topic[c]) = value[c]

\* A scope cannot be silently dropped (docs/concepts/secrets.md): no sweep, whatever
\* scope it is run with, makes a scoped token an unscoped one.
ScopeNeverDropped ==
    [][\A c \in Config :
          edits' = edits /\ IsEncrypted(topic[c]) /\ topic[c].scope \in Scope =>
              IsEncrypted(topic'[c]) /\ topic'[c].scope = topic[c].scope]_vars

\* The procedure ends: the old key goes out of every keyring, running ones included,
\* whichever kind of key succeeds it.
RotationEnds ==
    <>[](/\ \A role \in {"reader", "writer"} : Old \notin Held(file[role])
         /\ \A p \in Process : Old \notin Held(ring[p]))
====

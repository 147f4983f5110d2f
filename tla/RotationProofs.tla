---- MODULE RotationProofs ----
(***************************************************************************)
(* In the middle of a rotation, a rollout and a sweep, what was meant is   *)
(* what is read: for any number of readers, writers, configs, scopes and   *)
(* keys, any chain of declarations and any successor of the key.           *)
(*                                                                         *)
(* The argument: readers' keyrings differ in the key that comes and the    *)
(* key that goes only.  Nothing is sealed under the new key before every   *)
(* reader has loaded it (NewIsLoaded), and while the old one is gone from  *)
(* the readers' file nothing is sealed under it any more (OldIsSpent).     *)
(* With that, whatever is sealed opens in every reader, running or         *)
(* restarted (SealOpens), and every surviving value is Legible.            *)
(***************************************************************************)
EXTENDS Rotation, TLAPS, FiniteSetTheorems, WellFoundedInduction

Roles == {"reader", "writer"}

Same(X, Y, kid) == X.kind[kid] = Y.kind[kid] /\ X.bound[kid] = Y.bound[kid]

\* X seals under the new key in some scope.
NamesNew(X) == X.primary = New \/ \E scope \in Scope : X.primaries[scope] = New

\* X is the keyring that role began with, but for the keys that come and go.
Descends(X, role) ==
    /\ X \in Keyring /\ Valid(X)
    /\ X.signing = InitialRing[role].signing
    /\ \A kid \in Kid \ {Old, New} : Same(X, InitialRing[role], kid)
    /\ Old \in Held(X) => Same(X, InitialRing[role], Old)
    /\ New \in Held(X) => New \in Held(file["reader"]) /\ Same(X, file["reader"], New)
    /\ role = "reader" => SealingKeys(X) \subseteq X.private

KeyringsDescend ==
    /\ \A role \in Roles : Descends(file[role], role)
    /\ \A p \in Process : Descends(ring[p], Role(p))

\* A keyring, loaded or not, names the new key once every reader has loaded it.
NewIsLoaded ==
    /\ \A role \in Roles : NamesNew(file[role]) => Loaded(New)
    /\ \A p \in Process : NamesNew(ring[p]) => Loaded(New)

\* The old key goes from the readers' file before it goes from a reader, and when
\* nothing can be sealed under it any more.
OldIsSpent ==
    /\ Old \in Held(file["reader"]) => Loaded(Old)
    /\ Old \notin Held(file["reader"]) => ~SealsUnder(Old)

ReadersFirst == \A r \in Reader, w \in Writer : version[w] <= version[r]

\* Where a reader tolerates something no more, no writer writes it.
ToleranceOutlived ==
    \A r \in Reader, w \in Writer :
        /\ CodecOf(r).encrypted /\ ~CodecOf(r).readPlaintext => CodecOf(w).encrypted
        /\ CodecOf(r).signed /\ ~CodecOf(r).readUnsigned => CodecOf(w).signed

\* X, a reader's keyring, opens the token; it verifies the signature.
Opens(X, token) ==
    /\ token.kid \in SealingKeys(X) \cap X.private
    /\ X.kind[token.kid] = token.kind
    /\ Covers(X, token.kid, token.scope)

Verifies(X, signature) ==
    /\ X.kind[signature.kid] = "ed25519"
    /\ signature.scope \in X.bound[signature.kid]

\* What is in a token says v to every reader, running or started from the file.
SignedSays(signature, v) ==
    /\ signature \in Signature /\ signature.payload = v
    /\ Verifies(file["reader"], signature)
    /\ \A r \in Reader : /\ Verifies(ring[r], signature)
                         /\ CodecOf(r).signed /\ CodecOf(r).scope = signature.scope

UnsignedSays(payload, v) ==
    /\ payload = v
    /\ \A r \in Reader : CodecOf(r).signed => CodecOf(r).readUnsigned

Fits(token) ==
    /\ Opens(file["reader"], token)
    /\ \A r \in Reader : /\ Opens(ring[r], token)
                         /\ CodecOf(r).encrypted /\ Ratchet(CodecOf(r).scope, token.scope)

TokenSays(token, v) ==
    /\ token \in Sealed
    /\ Fits(token)
    /\ SignedSays(token.payload, v) \/ UnsignedSays(token.payload, v)

PlainSays(x, v) == x = v /\ \A r \in Reader : ReadsPlain(CodecOf(r))

Legible(x, v) == PlainSays(x, v) \/ TokenSays(x, v)

Typed ==
    /\ file \in [Roles -> Keyring]
    /\ ring \in [Process -> Keyring]
    /\ version \in [Process -> DOMAIN Codecs]
    /\ value \in [Config -> Plain]
    /\ topic \in [Config -> Plain \cup Sealed]
    /\ stale \subseteq Kid \cup {NoKid}
    /\ quiesced \in BOOLEAN
    /\ edits \in 0..MaxEdits

KeysInv == KeyringsDescend /\ NewIsLoaded /\ OldIsSpent
RolloutInv == ReadersFirst /\ ToleranceOutlived

RotationInv ==
    /\ Typed
    /\ KeysInv
    /\ RolloutInv
    /\ \A c \in Config : Legible(topic[c], value[c])

-----------------------------------------------------------------------------
(* Keyrings *)

\* What its type says of a keyring.
LEMMA KeyringFields ==
    ASSUME NEW X \in Keyring
    PROVE  /\ X.kind \in [Kid -> {"oct", "x25519", "ed25519", "none"}]
           /\ X.private \in SUBSET Kid
           /\ X.bound \in [Kid -> SUBSET Scope]
           /\ X.primary \in Kid
           /\ X.primaries \in [Scope -> Kid \cup {NoKid}]
           /\ X.signing \in [Scope -> Kid \cup {NoKid}]
  BY DEF Keyring

\* The kid that is sealed under is held for sealing and covers the scope (sealing_kid).
LEMMA SealingKidSeals ==
    ASSUME NEW X \in Keyring, Valid(X), NEW scope, SealingKid(X, scope) # NoKid
    PROVE  /\ SealingKid(X, scope) \in SealingKeys(X)
           /\ Covers(X, SealingKid(X, scope), scope)
           /\ SealingKid(X, scope) = New => NamesNew(X)
<1>1. CASE scope \in Scope /\ X.primaries[scope] # NoKid
  <2>1. SealingKid(X, scope) = X.primaries[scope]
    BY <1>1 DEF SealingKid
  <2>2. X.primaries[scope] \in SealingKeys(X) /\ Covers(X, X.primaries[scope], scope)
    BY <1>1 DEF Valid
  <2> QED BY <1>1, <2>1, <2>2 DEF NamesNew
<1>2. CASE ~(scope \in Scope /\ X.primaries[scope] # NoKid)
  <2>1. SealingKid(X, scope) = X.primary /\ Covers(X, X.primary, scope)
    BY <1>2 DEF SealingKid
  <2> QED BY <2>1 DEF Valid, NamesNew
<1> QED BY <1>1, <1>2

\* A sealing key is held.
LEMMA SealingIsHeld ==
    ASSUME NEW X
    PROVE  SealingKeys(X) \subseteq Held(X) /\ Held(X) \subseteq Kid
  BY DEF SealingKeys, Held

\* The first keyrings, by name.
LEMMA Start ==
    /\ InitialRing \in [Roles -> Keyring]
    /\ \A role \in Roles : Valid(InitialRing[role]) /\ New \notin Held(InitialRing[role])
    /\ Old \in SealingKeys(InitialRing["reader"])
    /\ SealingKeys(InitialRing["reader"]) \subseteq InitialRing["reader"].private
    /\ \A kid \in SealingKeys(InitialRing["writer"]) :
           Same(InitialRing["writer"], InitialRing["reader"], kid)
    /\ \A scope \in Scope : InitialRing["writer"].signing[scope] # NoKid =>
           /\ InitialRing["reader"].kind[InitialRing["writer"].signing[scope]] = "ed25519"
           /\ scope \in InitialRing["reader"].bound[InitialRing["writer"].signing[scope]]
  BY StartAssumption DEF Roles, Same

\* A reader's and a writer's keyring agree on what the writer seals under.
LEMMA KeysAgree ==
    ASSUME NEW X, NEW Y, NEW role \in Roles, Descends(X, role), Descends(Y, "reader"),
           NEW kid \in SealingKeys(X), kid \in {Old, New} => kid \in Held(Y)
    PROVE  Same(X, Y, kid) /\ kid \in SealingKeys(Y) /\ kid \in Y.private
<1>1. kid \in Kid
  BY SealingIsHeld
<1>2. "reader" \in Roles
  BY DEF Roles
<1>3. X \in Keyring /\ Y \in Keyring
  BY DEF Descends
<1>4. Same(X, Y, kid)
  <2>1. CASE kid = New
    <3>1. Same(X, file["reader"], kid) /\ Same(Y, file["reader"], kid)
      BY <2>1, SealingIsHeld DEF Descends
    <3> QED BY <3>1 DEF Same
  <2>2. CASE kid # New
    <3>1. Same(X, InitialRing[role], kid) /\ Same(Y, InitialRing["reader"], kid)
      BY <1>1, <2>2, SealingIsHeld DEF Descends
    <3>2. kid \in SealingKeys(InitialRing[role])
      BY <3>1 DEF Same, SealingKeys
    <3>3. Same(InitialRing[role], InitialRing["reader"], kid)
      BY <3>2, Start DEF Roles, Same
    <3> QED BY <3>1, <3>3 DEF Same
  <2> QED BY <2>1, <2>2
<1>5. kid \in SealingKeys(Y)
  BY <1>4 DEF Same, SealingKeys
<1> QED BY <1>4, <1>5 DEF Descends

\* What a writer or the sweep seals, every reader opens, if it still holds the key.
LEMMA SealOpens ==
    ASSUME NEW X, NEW role \in Roles, Descends(X, role), NEW Y, Descends(Y, "reader"),
           NEW scope, NEW payload, EncryptBytes(X, payload, scope) # Failed,
           SealingKid(X, scope) \in {Old, New} => SealingKid(X, scope) \in Held(Y)
    PROVE  Opens(Y, EncryptBytes(X, payload, scope))
<1> DEFINE kid == SealingKid(X, scope)
<1>1. kid # NoKid /\ EncryptBytes(X, payload, scope) = Token("flenc", kid, X.kind[kid], scope, payload)
  BY DEF EncryptBytes
<1>2. kid \in SealingKeys(X) /\ Covers(X, kid, scope)
  BY <1>1, SealingKidSeals DEF Descends
<1>3. Same(X, Y, kid) /\ kid \in SealingKeys(Y) /\ kid \in Y.private
  BY <1>2, KeysAgree
<1>4. Covers(Y, kid, scope)
  BY <1>2, <1>3 DEF Covers, Same
<1> HIDE DEF kid
<1> QED BY <1>1, <1>3, <1>4 DEF Opens, Token, Same

-----------------------------------------------------------------------------
(* flechtctl's edits of a keyring file *)

\* What an edit of role's file may do to it.
Edited(role, new) ==
    LET was == file[role] IN
    /\ new \in Keyring
    /\ new.signing = was.signing
    /\ \A kid \in Kid \ {Old, New} : Same(new, was, kid)
    /\ Old \in Held(new) => Same(new, was, Old)
    /\ New \in Held(was) => Same(new, was, New)
    /\ New \in Held(new) \ Held(was) =>
           \/ role = "reader"
           \/ New \in Held(file["reader"]) /\ Same(new, file["reader"], New)
    /\ NamesNew(new) => NamesNew(was) \/ Loaded(New)
    /\ \A scope \in Scope \cup {NoScope} :
           SealingKid(new, scope) = Old => SealingKid(was, scope) = Old
    /\ role = "reader" =>
           /\ SealingKeys(new) \subseteq new.private
           /\ Old \in Held(was) /\ Old \notin Held(new) => ~SealsUnder(Old) /\ Old \notin Scanned

\* The fields of a keyring with one more key (with_jwk).
LEMMA WithJwkFields ==
    ASSUME NEW X \in Keyring, NEW jwk \in Jwk
    PROVE  /\ WithJwk(X, jwk) \in Keyring
           /\ \A kid \in Kid \ {jwk.kid} : Same(WithJwk(X, jwk), X, kid)
           /\ WithJwk(X, jwk).kind[jwk.kid] = jwk.kind /\ WithJwk(X, jwk).bound[jwk.kid] = jwk.bound
           /\ WithJwk(X, jwk).private = IF jwk.private THEN X.private \cup {jwk.kid} ELSE X.private
           /\ WithJwk(X, jwk).primary = X.primary /\ WithJwk(X, jwk).primaries = X.primaries
           /\ WithJwk(X, jwk).signing = X.signing
<1> DEFINE kind == [X.kind EXCEPT ![jwk.kid] = jwk.kind]
           bound == [X.bound EXCEPT ![jwk.kid] = jwk.bound]
           private == IF jwk.private THEN X.private \cup {jwk.kid} ELSE X.private
<1>1. WithJwk(X, jwk) = [kind |-> kind, private |-> private, bound |-> bound,
                         primary |-> X.primary, primaries |-> X.primaries,
                         signing |-> X.signing]
  <2>1. /\ DOMAIN WithJwk(X, jwk) = {"kind", "private", "bound", "primary", "primaries", "signing"}
        /\ WithJwk(X, jwk) = [f \in DOMAIN WithJwk(X, jwk) |-> WithJwk(X, jwk)[f]]
    BY DEF WithJwk, Keyring
  <2>2. /\ WithJwk(X, jwk).kind = kind /\ WithJwk(X, jwk).private = private
        /\ WithJwk(X, jwk).bound = bound
        /\ WithJwk(X, jwk).primary = X.primary /\ WithJwk(X, jwk).primaries = X.primaries
        /\ WithJwk(X, jwk).signing = X.signing
    BY DEF WithJwk, Keyring
  <2> QED BY <2>1, <2>2
<1>2. /\ jwk.kid \in Kid /\ jwk.kind \in {"oct", "x25519", "ed25519"}
      /\ jwk.bound \in SUBSET Scope
  BY DEF Jwk
<1>3. kind \in [Kid -> {"oct", "x25519", "ed25519", "none"}] /\ bound \in [Kid -> SUBSET Scope]
      /\ private \in SUBSET Kid
  BY <1>2, KeyringFields
<1>4. /\ \A kid \in Kid \ {jwk.kid} : kind[kid] = X.kind[kid] /\ bound[kid] = X.bound[kid]
      /\ kind[jwk.kid] = jwk.kind /\ bound[jwk.kid] = jwk.bound
  BY <1>2, KeyringFields
<1>5. private = IF jwk.private THEN X.private \cup {jwk.kid} ELSE X.private
  OBVIOUS
<1> HIDE DEF kind, bound, private
<1>6. WithJwk(X, jwk) \in Keyring
  BY <1>1, <1>3, KeyringFields DEF Keyring
<1> QED BY <1>1, <1>4, <1>5, <1>6 DEF Same

\* `add' of the successor.
LEMMA AddEdits ==
    ASSUME Typed, KeysInv, NEW key \in Successors, Add(key)
    PROVE  Edited("reader", file'["reader"]) /\ Save("reader", file'["reader"])
<1> DEFINE was == file["reader"]
           jwk == [kid |-> New, kind |-> key.kind, private |-> TRUE, bound |-> key.bound]
           new == WithJwk(was, jwk)
<1>1. jwk \in Jwk /\ key.kind \in {"oct", "x25519"}
  BY RotationAssumption DEF Jwk
<1>2. Save("reader", new) /\ New \notin Held(was) /\ Old \in Held(was)
  BY DEF Add
<1>3. file'["reader"] = new /\ was \in Keyring
  BY <1>2 DEF Save, Typed, Roles
<1>4. SealingKeys(was) \subseteq was.private
  BY DEF KeysInv, KeyringsDescend, Descends, Roles
<1>5. /\ jwk.kid = New /\ jwk.kind = key.kind /\ jwk.bound = key.bound /\ jwk.private = TRUE
  OBVIOUS
<1> HIDE DEF was, jwk
<1>6. /\ new \in Keyring
      /\ \A kid \in Kid \ {New} : Same(new, was, kid)
      /\ new.kind[New] = key.kind
      /\ new.private = was.private \cup {New}
      /\ new.primary = was.primary /\ new.primaries = was.primaries /\ new.signing = was.signing
  BY <1>1, <1>3, <1>5, WithJwkFields
<1> HIDE DEF new
<1>7. SealingKeys(new) \subseteq new.private
  BY <1>4, <1>6 DEF SealingKeys, Same
<1>8. NamesNew(new) => NamesNew(was)
  BY <1>6 DEF NamesNew
<1>9. ASSUME NEW scope \in Scope \cup {NoScope}, SealingKid(new, scope) = Old
      PROVE  SealingKid(was, scope) = Old
  BY <1>6, <1>9, RotationAssumption, TokensAssumption DEF SealingKid, Covers, Same
<1>10. Old \in Held(new) /\ Same(new, was, Old)
  BY <1>2, <1>6, RotationAssumption DEF Held, Same
<1> QED BY <1>2, <1>3, <1>6, <1>7, <1>8, <1>9, <1>10 DEF Edited, was

\* `import' into the writer's keyring.
LEMMA ImportEdits ==
    ASSUME Typed, KeysInv, Import
    PROVE  Edited("writer", file'["writer"]) /\ Save("writer", file'["writer"])
<1> DEFINE was == file["writer"]
           half == PublicJwk(file["reader"], New)
           jwk == IF file["reader"].kind[New] = "oct" THEN [half EXCEPT !.private = TRUE] ELSE half
           new == WithJwk(was, jwk)
<1>1. Save("writer", new) /\ New \in Held(file["reader"]) /\ New \notin Held(was)
  BY DEF Import
<1>2. file["reader"] \in Keyring /\ was \in Keyring
  BY DEF Typed, Roles
<1>3. half = [kid |-> New, kind |-> file["reader"].kind[New], private |-> FALSE,
              bound |-> file["reader"].bound[New]]
  BY DEF PublicJwk
<1>4. /\ jwk \in Jwk
      /\ jwk.kid = New /\ jwk.kind = file["reader"].kind[New] /\ jwk.bound = file["reader"].bound[New]
  <2>1. /\ file["reader"].kind[New] \in {"oct", "x25519", "ed25519"}
        /\ file["reader"].bound[New] \in SUBSET Scope
    BY <1>1, <1>2, KeyringFields, RotationAssumption DEF Held
  <2>2. \E b \in BOOLEAN : jwk = [kid |-> New, kind |-> file["reader"].kind[New], private |-> b,
                                  bound |-> file["reader"].bound[New]]
    <3>1. ASSUME NEW b
          PROVE  [half EXCEPT !.private = b] =
                     [kid |-> New, kind |-> file["reader"].kind[New], private |-> b,
                      bound |-> file["reader"].bound[New]]
      BY <1>3
    <3> HIDE DEF half
    <3> QED BY <1>3, <3>1
  <2> HIDE DEF jwk
  <2> QED BY <2>1, <2>2, RotationAssumption DEF Jwk
<1>5. file'["writer"] = new
  BY <1>1 DEF Save, Typed, Roles
<1> HIDE DEF was, jwk
<1>6. /\ new \in Keyring
      /\ \A kid \in Kid \ {New} : Same(new, was, kid)
      /\ Same(new, file["reader"], New)
      /\ new.primary = was.primary /\ new.primaries = was.primaries /\ new.signing = was.signing
  BY <1>2, <1>4, WithJwkFields DEF Same
<1> HIDE DEF new
<1>7. NamesNew(new) => NamesNew(was)
  BY <1>6 DEF NamesNew
<1>8. ASSUME NEW scope \in Scope \cup {NoScope}, SealingKid(new, scope) = Old
      PROVE  SealingKid(was, scope) = Old
  BY <1>6, <1>8, RotationAssumption, TokensAssumption DEF SealingKid, Covers, Same
<1>9. Same(new, was, Old)
  BY <1>6, RotationAssumption
<1> QED BY <1>1, <1>5, <1>6, <1>7, <1>8, <1>9 DEF Edited, was

\* `primary', for a scope or without one.
LEMMA PromoteEdits ==
    ASSUME Typed, KeysInv, NEW role \in Roles, NEW scope \in Scope \cup {NoScope},
           Promote(role, scope)
    PROVE  Edited(role, file'[role]) /\ Save(role, file'[role])
<1> DEFINE was == file[role]
           new == SetPrimary(was, scope, New)
<1>1. Save(role, new) /\ Loaded(New) /\ New \in Held(was)
  BY DEF Promote
<1>2. file'[role] = new /\ was \in Keyring
  BY <1>1 DEF Save, Typed, Roles
<1>3. role = "reader" => SealingKeys(was) \subseteq was.private
  BY DEF KeysInv, KeyringsDescend, Descends
<1> HIDE DEF was
<1>4. /\ new \in Keyring
      /\ new.kind = was.kind /\ new.bound = was.bound /\ new.private = was.private
      /\ new.signing = was.signing
      /\ new.primary \in {New, was.primary}
      /\ \A s \in Scope : new.primaries[s] \in {New, was.primaries[s]}
      /\ new.primary = New => scope = NoScope \/ was.primary = New
      /\ scope = NoScope => new.primaries = was.primaries
  <2> USE KeyringFields, RotationAssumption, <1>2
  <2>1. CASE scope = NoScope
    <3>1. new = [was EXCEPT !.primary = New]
      BY <2>1 DEF SetPrimary
    <3> HIDE DEF new
    <3> QED BY <2>1, <3>1 DEF Keyring
  <2>2. CASE scope # NoScope
    <3> DEFINE primaries == [was.primaries EXCEPT ![scope] = New]
    <3>1. new = [was EXCEPT !.primaries = primaries]
      BY <2>2 DEF SetPrimary
    <3>2. /\ primaries \in [Scope -> Kid \cup {NoKid}]
          /\ \A s \in Scope : primaries[s] \in {New, was.primaries[s]}
      OBVIOUS
    <3> HIDE DEF new, primaries
    <3> QED BY <2>2, <3>1, <3>2 DEF Keyring
  <2> QED BY <2>1, <2>2
<1> HIDE DEF new
<1>5. /\ SealingKeys(new) = SealingKeys(was) /\ Held(new) = Held(was)
      /\ \A kid \in Kid : Same(new, was, kid)
  BY <1>4 DEF SealingKeys, Held, Same
<1>6. ASSUME NEW t \in Scope \cup {NoScope}, SealingKid(new, t) = Old
      PROVE  SealingKid(was, t) = Old
  <2>1. CASE t \in Scope /\ new.primaries[t] # NoKid
    <3>1. new.primaries[t] = Old /\ Covers(was, Old, t)
      BY <1>4, <1>6, <2>1, TokensAssumption, RotationAssumption DEF SealingKid, Covers
    <3>2. was.primaries[t] = Old
      BY <1>4, <2>1, <3>1, RotationAssumption
    <3> QED BY <2>1, <3>1, <3>2, TokensAssumption, RotationAssumption DEF SealingKid
  <2>2. CASE ~(t \in Scope /\ new.primaries[t] # NoKid)
    <3>1. new.primary = Old /\ Covers(was, Old, t)
      BY <1>4, <1>6, <2>2, TokensAssumption, RotationAssumption DEF SealingKid, Covers
    <3>2. was.primary = Old
      BY <1>4, <3>1, RotationAssumption
    <3>3. t \in Scope => was.primaries[t] = NoKid
      BY <1>4, <2>2, TokensAssumption, RotationAssumption
    <3> QED BY <3>1, <3>2, <3>3 DEF SealingKid
  <2> QED BY <2>1, <2>2
<1> QED BY <1>1, <1>2, <1>3, <1>4, <1>5, <1>6, RotationAssumption DEF Edited, was

\* `remove' of the old key.
LEMMA RetireEdits ==
    ASSUME Typed, KeysInv, NEW role \in Roles, Retire(role)
    PROVE  Edited(role, file'[role]) /\ Save(role, file'[role])
<1> DEFINE was == file[role]
           new == Remove(was, Old)
<1>1. Save(role, new) /\ Old \notin Scanned /\ ~SealsUnder(Old) /\ Old # was.primary
  BY DEF Retire
<1>2. file'[role] = new /\ was \in Keyring
  BY <1>1 DEF Save, Typed, Roles
<1>3. Descends(was, role)
  BY DEF KeysInv, KeyringsDescend
<1> HIDE DEF was
<1> DEFINE kind == [was.kind EXCEPT ![Old] = "none"]
           bound == [was.bound EXCEPT ![Old] = {}]
           primaries == [s \in Scope |-> IF was.primaries[s] = Old THEN NoKid ELSE was.primaries[s]]
           signing == [s \in Scope |-> IF was.signing[s] = Old THEN NoKid ELSE was.signing[s]]
<1>4. new = [kind |-> kind, private |-> was.private \ {Old}, bound |-> bound,
             primary |-> was.primary, primaries |-> primaries, signing |-> signing]
  BY <1>2 DEF Remove, Keyring
<1>5. /\ kind \in [Kid -> {"oct", "x25519", "ed25519", "none"}]
      /\ bound \in [Kid -> SUBSET Scope]
      /\ primaries \in [Scope -> Kid \cup {NoKid}]
      /\ kind[Old] = "none"
      /\ \A kid \in Kid \ {Old} : kind[kid] = was.kind[kid] /\ bound[kid] = was.bound[kid]
      /\ \A s \in Scope : primaries[s] # Old /\ primaries[s] \in {NoKid, was.primaries[s]}
  BY <1>2, KeyringFields, RotationAssumption, TokensAssumption
<1>6. signing = was.signing
  <2>1. \A s \in Scope : was.signing[s] # Old
    <3> SUFFICES ASSUME NEW s \in Scope, was.signing[s] = Old PROVE FALSE
      OBVIOUS
    <3>1. was.signing[s] # NoKid
      BY RotationAssumption, TokensAssumption
    <3>2. was.kind[Old] = "ed25519"
      BY <1>3, <3>1 DEF Descends, Valid
    <3>3. Same(was, InitialRing[role], Old)
      BY <1>3, <3>2, RotationAssumption DEF Descends, Held
    <3>4. InitialRing["reader"].kind[Old] = "ed25519"
      <4>1. CASE role = "reader"
        BY <3>2, <3>3, <4>1 DEF Same
      <4>2. CASE role = "writer"
        <5>1. was.signing = InitialRing["writer"].signing
          BY <1>3, <4>2 DEF Descends
        <5> QED BY <3>1, <5>1, Start
      <4> QED BY <4>1, <4>2 DEF Roles
    <3> QED BY <3>4, Start DEF SealingKeys
  <2>2. was.signing \in [Scope -> Kid \cup {NoKid}]
    BY <1>2, KeyringFields
  <2> QED BY <2>1, <2>2
<1> HIDE DEF kind, bound, primaries, signing
<1>7. /\ new \in Keyring
      /\ new.kind[Old] = "none" /\ new.signing = was.signing /\ new.primary = was.primary
      /\ \A kid \in Kid \ {Old} : Same(new, was, kid)
      /\ \A s \in Scope : new.primaries[s] # Old /\ new.primaries[s] \in {NoKid, was.primaries[s]}
      /\ new.private = was.private \ {Old}
  <2>1. new \in Keyring
    BY <1>2, <1>4, <1>5, <1>6, KeyringFields DEF Keyring
  <2> HIDE DEF new
  <2> QED BY <1>4, <1>5, <1>6, <2>1 DEF Same
<1> HIDE DEF new
<1>8. Old \notin Held(new)
  BY <1>7 DEF Held
<1>9. New \in Held(new) => New \in Held(was)
  BY <1>7, RotationAssumption DEF Held, Same
<1>10. role = "reader" => SealingKeys(new) \subseteq new.private
  <2> SUFFICES ASSUME role = "reader", NEW kid \in SealingKeys(new) PROVE kid \in new.private
    OBVIOUS
  <2>1. kid # Old /\ kid \in Kid
    BY <1>7 DEF SealingKeys
  <2>2. kid \in SealingKeys(was)
    BY <1>7, <2>1 DEF SealingKeys, Same
  <2> QED BY <1>3, <1>7, <2>1, <2>2 DEF Descends
<1>11. NamesNew(new) => NamesNew(was)
  BY <1>7, RotationAssumption, TokensAssumption DEF NamesNew
<1>12. \A scope \in Scope \cup {NoScope} : SealingKid(new, scope) # Old
  BY <1>1, <1>7, RotationAssumption, TokensAssumption DEF SealingKid, was
<1>13. Same(new, was, New) /\ \A kid \in Kid \ {Old, New} : Same(new, was, kid)
  BY <1>7, RotationAssumption
<1> QED BY <1>1, <1>2, <1>7, <1>8, <1>9, <1>10, <1>11, <1>12, <1>13 DEF Edited, was

\* An edit leaves everything but the file as it is.
LEMMA SaveFrame ==
    ASSUME Typed, NEW role \in Roles, NEW new \in Keyring, Save(role, new)
    PROVE  /\ Typed'
           /\ Valid(new) /\ file'[role] = new
           /\ \A other \in Roles \ {role} : file'[other] = file[other]
           /\ ring' = ring /\ version' = version /\ topic' = topic /\ value' = value
  BY DEF Save, Typed, Roles, procVars, topicVars

\* The edited keyring, and the others.
LEMMA SaveDescends ==
    ASSUME Typed, KeyringsDescend, NEW role \in Roles, NEW new, Save(role, new), Edited(role, new)
    PROVE  KeyringsDescend'
<1>1. new \in Keyring
  BY DEF Edited
<1>2. /\ Valid(new) /\ file'[role] = new
      /\ \A other \in Roles \ {role} : file'[other] = file[other]
      /\ ring' = ring
  BY <1>1, SaveFrame
<1>3. Descends(file[role], role) /\ "reader" \in Roles
  BY DEF KeyringsDescend, Roles
<1>4. New \in Held(file["reader"]) =>
          New \in Held(file["reader"])' /\ Same(file'["reader"], file["reader"], New)
  <2>1. CASE role = "reader"
    <3>1. New \in Held(file["reader"]) => Same(new, file["reader"], New)
      BY <2>1 DEF Edited
    <3> QED BY <1>2, <2>1, <3>1, RotationAssumption DEF Same, Held
  <2>2. CASE role # "reader"
    <3>1. file'["reader"] = file["reader"]
      BY <1>2, <1>3, <2>2
    <3> QED BY <3>1 DEF Same, Held
  <2> QED BY <2>1, <2>2
<1>5. ASSUME NEW X, NEW other \in Roles, Descends(X, other) PROVE Descends(X, other)'
  BY <1>4, <1>5 DEF Descends, Same, Held, Valid, SealingKeys, Covers
<1>6. Descends(new, role)'
  <2>1. \A kid \in Kid \ {Old, New} : Same(new, InitialRing[role], kid)
    BY <1>3 DEF Edited, Descends, Same
  <2>2. Old \in Held(new) => Same(new, InitialRing[role], Old)
    <3> SUFFICES ASSUME Old \in Held(new) PROVE Same(new, InitialRing[role], Old)
      OBVIOUS
    <3>1. Same(new, file[role], Old)
      BY DEF Edited
    <3>2. Old \in Held(file[role])
      BY <3>1 DEF Same, Held
    <3> QED BY <1>3, <3>1, <3>2 DEF Descends, Same
  <2>3. New \in Held(new) => New \in Held(file'["reader"]) /\ Same(new, file'["reader"], New)
    <3> SUFFICES ASSUME New \in Held(new)
                 PROVE  New \in Held(file'["reader"]) /\ Same(new, file'["reader"], New)
      OBVIOUS
    <3>1. CASE role = "reader"
      BY <1>2, <3>1 DEF Same
    <3>2. CASE role # "reader"
      <4>1. file'["reader"] = file["reader"]
        BY <1>2, <1>3, <3>2
      <4>2. CASE New \in Held(file[role])
        <5>1. Same(new, file[role], New) /\ Same(file[role], file["reader"], New)
              /\ New \in Held(file["reader"])
          BY <1>3, <4>2 DEF Edited, Descends
        <5> QED BY <4>1, <5>1 DEF Same
      <4>3. CASE New \notin Held(file[role])
        BY <3>2, <4>1, <4>3 DEF Edited
      <4> QED BY <4>2, <4>3
    <3> QED BY <3>1, <3>2
  <2>4. new.signing = InitialRing[role].signing
    BY <1>3 DEF Edited, Descends
  <2>5. role = "reader" => SealingKeys(new) \subseteq new.private
    BY DEF Edited
  <2> QED BY <1>1, <1>2, <2>1, <2>2, <2>3, <2>4, <2>5
          DEF Descends, Same, Held, Valid, SealingKeys, Covers
<1>7. \A other \in Roles : Descends(file[other], other)'
  <2> SUFFICES ASSUME NEW other \in Roles PROVE Descends(file[other], other)'
    OBVIOUS
  <2>1. CASE other = role
    <3>1. new = file'[other]
      BY <1>2, <2>1
    <3> QED BY <1>6, <2>1, <3>1 DEF Descends, Same, Held, Valid, SealingKeys, Covers
  <2>2. CASE other # role
    <3>1. file'[other] = file[other] /\ Descends(file[other], other)
      BY <1>2, <2>2 DEF KeyringsDescend
    <3>2. PICK X : X = file[other]
      OBVIOUS
    <3>3. Descends(X, other)'
      BY <1>5, <3>1, <3>2
    <3> QED BY <3>1, <3>2, <3>3 DEF Descends, Same, Held, Valid, SealingKeys, Covers
  <2> QED BY <2>1, <2>2
<1>8. \A p \in Process : Descends(ring[p], Role(p))'
  <2> SUFFICES ASSUME NEW p \in Process PROVE Descends(ring[p], Role(p))'
    OBVIOUS
  <2>1. Descends(ring[p], Role(p)) /\ Role(p) \in Roles
    BY DEF KeyringsDescend, Role, Roles
  <2>2. PICK X, other : X = ring[p] /\ other = Role(p)
    OBVIOUS
  <2>3. Descends(X, other)'
    BY <1>5, <2>1, <2>2
  <2>4. ring'[p] = X /\ Role(p) = other
    BY <1>2, <2>2
  <2> QED BY <2>3, <2>4 DEF Descends, Same, Held, Valid, SealingKeys, Covers
<1> QED BY <1>7, <1>8 DEF KeyringsDescend

\* The new key and the old one, when a file is edited.
LEMMA SaveSpends ==
    ASSUME Typed, NewIsLoaded, OldIsSpent, NEW role \in Roles, NEW new, Save(role, new),
           Edited(role, new)
    PROVE  NewIsLoaded' /\ OldIsSpent'
<1>1. new \in Keyring
  BY DEF Edited
<1>2. /\ Valid(new) /\ file'[role] = new
      /\ \A other \in Roles \ {role} : file'[other] = file[other]
      /\ ring' = ring /\ version' = version
  BY <1>1, SaveFrame
<1>3. \A kid : Loaded(kid)' <=> Loaded(kid)
  BY <1>2 DEF Loaded, Held
<1>4. NewIsLoaded'
  <2>1. NamesNew(new) => Loaded(New)
    BY DEF Edited, NewIsLoaded
  <2> QED BY <1>2, <1>3, <2>1 DEF NewIsLoaded, NamesNew
<1>5. SealsUnder(Old)' => SealsUnder(Old)
  <2> SUFFICES ASSUME NEW w \in Writer, NEW n \in DOMAIN Codecs, n >= version[w],
                      Codecs[n].encrypted,
                      NEW X \in {ring[w], file'["writer"]}, Old = SealingKid(X, Codecs[n].scope)
               PROVE  Old \in {SealingKid(keyring, Codecs[n].scope) :
                                  keyring \in {ring[w], file["writer"]}}
    BY <1>2 DEF SealsUnder
  <2>1. CASE X = file["writer"] \/ X = ring[w]
    BY <2>1
  <2>2. CASE role = "writer" /\ X = new
    <3>1. Codecs[n].scope \in Scope \cup {NoScope}
      <4>1. Codecs[n] \in Codec
        BY RolloutAssumption
      <4> QED BY <4>1 DEF Codec
    <3>2. SealingKid(file["writer"], Codecs[n].scope) = Old
      BY <2>2, <3>1 DEF Edited
    <3> QED BY <3>2
  <2> QED BY <1>2, <2>1, <2>2 DEF Roles
<1>6. OldIsSpent'
  <2>1. CASE role # "reader"
    <3>1. file'["reader"] = file["reader"]
      BY <1>2, <2>1 DEF Roles
    <3> QED BY <1>3, <1>5, <3>1 DEF OldIsSpent, Held
  <2>2. CASE role = "reader"
    <3>1. Old \in Held(new) => Old \in Held(file["reader"])
      BY <2>2 DEF Edited, Same, Held
    <3>2. Old \notin Held(new) => ~SealsUnder(Old)
      BY <2>2 DEF Edited, OldIsSpent
    <3>3. Held(file["reader"])' = Held(new)
      BY <1>2, <2>2 DEF Held
    <3> QED BY <1>3, <1>5, <3>1, <3>2, <3>3 DEF OldIsSpent
  <2> QED BY <2>1, <2>2
<1> QED BY <1>4, <1>6

\* The old key does not sign.
LEMMA OldSeals ==
    ASSUME NEW X, Descends(X, "reader")
    PROVE  X.kind[Old] # "ed25519"
  BY Start, RotationAssumption DEF Descends, Same, Held, SealingKeys

\* What was legible stays so when a file is edited: the old key goes when it is in no token.
LEMMA SaveLegible ==
    ASSUME RotationInv, NEW role \in Roles, NEW new, Save(role, new), Edited(role, new),
           NEW c \in Config
    PROVE  Legible(topic[c], value[c])'
<1>1. /\ file'[role] = new
      /\ \A other \in Roles \ {role} : file'[other] = file[other]
      /\ ring' = ring /\ version' = version /\ topic' = topic /\ value' = value
  BY SaveFrame DEF Edited, RotationInv
<1>2. Legible(topic[c], value[c])
  BY DEF RotationInv
<1>3. CASE PlainSays(topic[c], value[c])
  BY <1>1, <1>3 DEF Legible, PlainSays, CodecOf
<1>4. CASE TokenSays(topic[c], value[c])
  <2> DEFINE token == topic[c]
  <2>1. token \in Sealed /\ Opens(file["reader"], token)
    BY <1>4 DEF TokenSays, Fits
  <2>2. Opens(file'["reader"], token)
    <3>1. CASE role # "reader"
      BY <1>1, <2>1, <3>1 DEF Roles
    <3>2. CASE role = "reader"
      <4>1. token.kid \in Kid /\ token.kid \in Held(file["reader"])
        BY <2>1 DEF Opens, Held, SealingKeys
      <4>2. token.kid = Old => Old \in Held(new)
        <5> SUFFICES ASSUME token.kid = Old, Old \notin Held(new) PROVE FALSE
          OBVIOUS
        <5>1. Old \notin Scanned
          BY <3>2, <4>1 DEF Edited
        <5>2. IsEncrypted(token)
          BY <2>1, TokensAssumption DEF IsEncrypted, Sealed
        <5>3. ScanEntry(topic[c]) = Old
          BY <5>2 DEF ScanEntry
        <5> QED BY <5>1, <5>3 DEF Scanned
      <4>3. Same(new, file["reader"], token.kid)
        BY <3>2, <4>1, <4>2 DEF Edited
      <4>4. token.kid \in SealingKeys(new) /\ SealingKeys(new) \subseteq new.private
        BY <2>1, <3>2, <4>3 DEF Edited, Opens, Same, SealingKeys
      <4> QED BY <1>1, <2>1, <3>2, <4>3, <4>4 DEF Opens, Same, Covers, SealingKeys
    <3> QED BY <3>1, <3>2
  <2>3. ASSUME NEW signature \in Signature, Verifies(file["reader"], signature)
        PROVE  Verifies(file'["reader"], signature)
    <3>1. CASE role # "reader"
      BY <1>1, <2>3, <3>1 DEF Roles
    <3>2. CASE role = "reader"
      <4>1. signature.kid \in Kid \ {Old}
        <5>1. Descends(file["reader"], "reader")
          BY DEF RotationInv, KeysInv, KeyringsDescend, Roles
        <5> QED BY <2>3, <5>1, OldSeals DEF Verifies, Signature
      <4>2. signature.kid \in Held(file["reader"])
        BY <2>3, <4>1 DEF Verifies, Held
      <4>3. Same(new, file["reader"], signature.kid)
        BY <3>2, <4>1, <4>2 DEF Edited
      <4> QED BY <1>1, <2>3, <3>2, <4>3 DEF Verifies, Same
    <3> QED BY <3>1, <3>2
  <2>4. Fits(token)'
    BY <1>1, <1>4, <2>2 DEF TokenSays, Fits, Opens, CodecOf, SealingKeys, Covers
  <2>5. SignedSays(token.payload, value[c]) => SignedSays(token.payload, value[c])'
    BY <1>1, <2>3 DEF SignedSays, Verifies, CodecOf
  <2>6. UnsignedSays(token.payload, value[c]) => UnsignedSays(token.payload, value[c])'
    BY <1>1 DEF UnsignedSays, CodecOf
  <2> QED BY <1>1, <1>4, <2>1, <2>4, <2>5, <2>6 DEF TokenSays, Legible
<1> QED BY <1>2, <1>3, <1>4 DEF Legible

LEMMA SaveStep ==
    ASSUME RotationInv, NEW role \in Roles, NEW new, Save(role, new), Edited(role, new)
    PROVE  RotationInv'
<1>1. Typed' /\ version' = version
  BY SaveFrame DEF RotationInv, Edited
<1>2. KeysInv'
  BY SaveDescends, SaveSpends DEF RotationInv, KeysInv
<1>3. RolloutInv'
  BY <1>1 DEF RotationInv, RolloutInv, ReadersFirst, ToleranceOutlived, CodecOf
<1>4. \A c \in Config : Legible(topic[c], value[c])'
  BY SaveLegible
<1> QED BY <1>1, <1>2, <1>3, <1>4 DEF RotationInv

-----------------------------------------------------------------------------
(* Processes start *)

\* What a declaration is, and what the later ones keep of it.
LEMMA CodecFields ==
    ASSUME NEW n \in DOMAIN Codecs
    PROVE  /\ n \in Nat
           /\ Codecs[n] \in Codec
           /\ Codecs[n].scope \in Scope \cup {NoScope}
           /\ Codecs[n].signed => Codecs[n].encrypted /\ Codecs[n].scope \in Scope
<1>1. Codecs \in Seq(Codec)
  BY RolloutAssumption
<1>2. n \in Nat /\ Codecs[n] \in Codec
  BY <1>1
<1> QED BY <1>2, RolloutAssumption DEF Codec

LEMMA CodecsGrow ==
    ASSUME NEW m \in DOMAIN Codecs, NEW n \in DOMAIN Codecs, m <= n
    PROVE  /\ Codecs[m].encrypted => Codecs[n].encrypted
           /\ Codecs[m].signed => Codecs[n].signed
           /\ Codecs[m].scope \in Scope => Codecs[n].scope = Codecs[m].scope
           /\ \A stamped \in Scope \cup {NoScope} :
                  Ratchet(Codecs[m].scope, stamped) => Ratchet(Codecs[n].scope, stamped)
<1>1. /\ Codecs[m].encrypted => Codecs[n].encrypted
      /\ Codecs[m].signed => Codecs[n].signed
      /\ Codecs[m].scope \in Scope => Codecs[n].scope = Codecs[m].scope
  BY RolloutAssumption
<1> QED BY <1>1, CodecFields, TokensAssumption DEF Ratchet

\* p starts with declaration n, the one it has or a later one that may be deployed.
Starts(p, n) ==
    /\ n \in DOMAIN Codecs /\ version[p] <= n
    /\ Restart(p, n)
    /\ n # version[p] => MayDeploy(p, n)

LEMMA StartFrame ==
    ASSUME Typed, NEW p \in Process, NEW n \in DOMAIN Codecs, Restart(p, n)
    PROVE  /\ Typed'
           /\ version'[p] = n /\ ring'[p] = file[Role(p)]
           /\ \A q \in Process \ {p} : version'[q] = version[q] /\ ring'[q] = ring[q]
           /\ file' = file /\ topic' = topic /\ value' = value
<1>1. file[Role(p)] \in Keyring
  BY DEF Typed, Role, Roles
<1> QED BY <1>1 DEF Restart, Typed, topicVars

LEMMA StartKeys ==
    ASSUME Typed, KeysInv, NEW p \in Process, NEW n, Starts(p, n)
    PROVE  KeysInv'
<1>1. /\ n \in DOMAIN Codecs /\ version[p] <= n
      /\ version'[p] = n /\ ring'[p] = file[Role(p)]
      /\ \A q \in Process \ {p} : version'[q] = version[q] /\ ring'[q] = ring[q]
      /\ file' = file
  BY StartFrame DEF Starts
<1>2. Role(p) \in Roles /\ "reader" \in Roles
  BY DEF Role, Roles
<1>3. \A X, role : Descends(X, role)' <=> Descends(X, role)
  BY <1>1 DEF Descends
<1>4. KeyringsDescend'
  <2>1. \A role \in Roles : Descends(file'[role], role)
    BY <1>1 DEF KeysInv, KeyringsDescend
  <2>2. \A q \in Process : Descends(ring'[q], Role(q))
    BY <1>1, <1>2 DEF KeysInv, KeyringsDescend
  <2> QED BY <1>1, <2>1, <2>2 DEF KeyringsDescend, Descends
<1>5. Loaded(New) => Loaded(New)'
  <2> SUFFICES ASSUME Loaded(New), NEW r \in Reader PROVE New \in Held(ring'[r])
    BY DEF Loaded, Held
  <2>1. r \in Process /\ Role(r) = "reader"
    BY DEF Process, Role
  <2>2. CASE r = p
    <3>1. New \in Held(ring[r]) /\ Descends(ring[r], "reader")
      BY <2>1 DEF Loaded, KeysInv, KeyringsDescend
    <3> QED BY <1>1, <2>1, <2>2, <3>1 DEF Descends
  <2>3. CASE r # p
    BY <1>1, <2>1, <2>3 DEF Loaded
  <2> QED BY <2>2, <2>3
<1>6. NewIsLoaded'
  <2>1. \A role \in Roles : NamesNew(file'[role]) => Loaded(New)'
    BY <1>1, <1>5 DEF KeysInv, NewIsLoaded
  <2>2. \A q \in Process : NamesNew(ring'[q]) => Loaded(New)'
    BY <1>1, <1>2, <1>5 DEF KeysInv, NewIsLoaded
  <2> QED BY <2>1, <2>2 DEF NewIsLoaded, NamesNew
<1>7. Old \in Held(file["reader"]) => Loaded(Old)'
  <2> SUFFICES ASSUME Old \in Held(file["reader"]), NEW r \in Reader
               PROVE  Old \in Held(ring'[r])
    BY DEF Loaded, Held
  <2>1. r \in Process /\ Role(r) = "reader"
    BY DEF Process, Role
  <2>2. Old \in Held(ring[r])
    BY DEF KeysInv, OldIsSpent, Loaded
  <2> QED BY <1>1, <2>1, <2>2
<1>8. SealsUnder(Old)' => SealsUnder(Old)
  <2> SUFFICES ASSUME NEW w \in Writer, NEW m \in DOMAIN Codecs, m >= version'[w],
                      Codecs[m].encrypted,
                      NEW X \in {ring'[w], file["writer"]}, Old = SealingKid(X, Codecs[m].scope)
               PROVE  /\ m >= version[w]
                      /\ Old \in {SealingKid(keyring, Codecs[m].scope) :
                                     keyring \in {ring[w], file["writer"]}}
    BY <1>1 DEF SealsUnder
  <2>1. w \in Process /\ Role(w) = "writer"
    BY RotationAssumption DEF Process, Role
  <2>2. version[w] \in Nat /\ version'[w] \in Nat /\ version[w] <= version'[w] /\ m \in Nat
    <3>1. version[w] \in DOMAIN Codecs
      BY <2>1 DEF Typed
    <3> QED BY <1>1, <2>1, <3>1, CodecFields
  <2>3. X \in {ring[w], file["writer"]}
    BY <1>1, <2>1
  <2> QED BY <2>2, <2>3
<1>9. OldIsSpent'
  BY <1>1, <1>7, <1>8 DEF KeysInv, OldIsSpent, Held
<1> QED BY <1>4, <1>6, <1>9 DEF KeysInv

\* Readers first, and tolerance until nothing needs it: what MayDeploy waits for.
LEMMA StartRollout ==
    ASSUME Typed, RolloutInv, NEW p \in Process, NEW n, Starts(p, n)
    PROVE  RolloutInv'
<1>1. /\ n \in DOMAIN Codecs /\ version[p] <= n
      /\ version'[p] = n
      /\ \A q \in Process \ {p} : version'[q] = version[q]
  BY StartFrame DEF Starts
<1>2. \A q \in Process : version[q] \in DOMAIN Codecs /\ version'[q] \in DOMAIN Codecs
  BY <1>1 DEF Typed
<1>3. SUFFICES ASSUME NEW r \in Reader, NEW w \in Writer
               PROVE  /\ version'[w] <= version'[r]
                      /\ CodecOf(r)'.encrypted /\ ~CodecOf(r)'.readPlaintext => CodecOf(w)'.encrypted
                      /\ CodecOf(r)'.signed /\ ~CodecOf(r)'.readUnsigned => CodecOf(w)'.signed
  BY DEF RolloutInv, ReadersFirst, ToleranceOutlived, CodecOf
<1>4. r \in Process /\ w \in Process /\ r # w
  BY RotationAssumption DEF Process
<1>5. /\ version[w] \in Nat /\ version[r] \in Nat /\ version'[w] \in Nat /\ version'[r] \in Nat
  BY <1>2, <1>4, CodecFields
<1>6. /\ version[w] <= version[r]
      /\ CodecOf(r).encrypted /\ ~CodecOf(r).readPlaintext => CodecOf(w).encrypted
      /\ CodecOf(r).signed /\ ~CodecOf(r).readUnsigned => CodecOf(w).signed
  BY DEF RolloutInv, ReadersFirst, ToleranceOutlived
<1>7. CASE version'[r] = version[r] /\ version'[w] = version[w]
  BY <1>6, <1>7 DEF CodecOf
<1>8. CASE p = r /\ n # version[r]
  <2>1. version'[w] = version[w] /\ version'[r] = n /\ MayDeploy(r, n)
    BY <1>1, <1>4, <1>8 DEF Starts
  <2>2. version[w] <= n
    BY <1>1, <1>5, <1>6, <1>8, <2>1
  <2>3. /\ Codecs[n].encrypted /\ ~Codecs[n].readPlaintext => CodecOf(w).encrypted
        /\ Codecs[n].signed /\ ~Codecs[n].readUnsigned => CodecOf(w).signed
    BY <2>1 DEF MayDeploy
  <2> QED BY <2>1, <2>2, <2>3 DEF CodecOf
<1>9. CASE p = w /\ n # version[w]
  <2>1. version'[r] = version[r] /\ version'[w] = n /\ MayDeploy(w, n)
    BY <1>1, <1>4, <1>9 DEF Starts
  <2>2. n <= version[r]
    BY <1>5, <2>1 DEF MayDeploy
  <2>3. /\ CodecOf(w).encrypted => Codecs[n].encrypted
        /\ CodecOf(w).signed => Codecs[n].signed
    BY <1>1, <1>2, <1>4, <1>9, CodecsGrow DEF CodecOf
  <2> QED BY <1>6, <2>1, <2>2, <2>3 DEF CodecOf
<1> QED BY <1>1, <1>4, <1>7, <1>8, <1>9

\* A reader that starts reads what the file's keyring opens, and with a later
\* declaration what it read before.
LEMMA StartLegible ==
    ASSUME RotationInv, NEW p \in Process, NEW n, Starts(p, n), NEW c \in Config
    PROVE  Legible(topic[c], value[c])'
<1>1. /\ n \in DOMAIN Codecs /\ version[p] <= n
      /\ version'[p] = n /\ ring'[p] = file[Role(p)]
      /\ \A q \in Process \ {p} : version'[q] = version[q] /\ ring'[q] = ring[q]
      /\ file' = file /\ topic' = topic /\ value' = value
  BY StartFrame DEF Starts, RotationInv
<1>2. Legible(topic[c], value[c]) /\ topic[c] \in Plain \cup Sealed
  BY DEF RotationInv, Typed
<1>3. \A r \in Reader : r \in Process /\ Role(r) = "reader"
  BY DEF Process, Role
<1>4. \A r \in Reader : \/ ring'[r] = ring[r] /\ version'[r] = version[r]
                        \/ r = p /\ ring'[r] = file["reader"]
  BY <1>1, <1>3
<1>5. ASSUME NEW r \in Reader
      PROVE  /\ version[r] \in DOMAIN Codecs /\ version'[r] \in DOMAIN Codecs
             /\ version[r] <= version'[r]
             /\ version'[r] # version[r] => MayDeploy(r, version'[r])
  <2>1. version[r] \in DOMAIN Codecs
    BY <1>3 DEF RotationInv, Typed
  <2> QED BY <1>1, <1>3, <2>1, CodecFields DEF Starts
<1>6. CASE PlainSays(topic[c], value[c])
  <2>1. topic[c] \in Plain
    BY <1>6 DEF PlainSays, RotationInv, Typed
  <2>2. NoKid \in Scanned
    <3>1. ScanEntry(topic[c]) = NoKid
      BY <2>1 DEF ScanEntry, IsEncrypted
    <3> QED BY <3>1 DEF Scanned
  <2>3. ASSUME NEW r \in Reader PROVE ReadsPlain(CodecOf(r)')
    <3>1. CASE version'[r] = version[r]
      BY <1>6, <3>1 DEF PlainSays, CodecOf
    <3>2. CASE version'[r] # version[r]
      <4>1. MayDeploy(r, version'[r])
        BY <1>5, <3>2
      <4>2. Codecs[version'[r]].encrypted => Codecs[version'[r]].readPlaintext
        BY <2>2, <4>1 DEF MayDeploy
      <4>3. Codecs[version'[r]].signed => Codecs[version'[r]].readUnsigned
        BY <2>1, <4>1 DEF MayDeploy, IsEncrypted
      <4> QED BY <4>2, <4>3 DEF ReadsPlain, CodecOf
    <3> QED BY <3>1, <3>2
  <2> QED BY <1>1, <1>6, <2>3 DEF Legible, PlainSays, CodecOf
<1>7. CASE TokenSays(topic[c], value[c])
  <2> DEFINE token == topic[c]
  <2>1. token \in Sealed /\ IsEncrypted(token) /\ token.scope \in Scope \cup {NoScope}
    BY <1>7, TokensAssumption DEF TokenSays, Sealed, IsEncrypted
  <2>2. ASSUME NEW r \in Reader
        PROVE  /\ Opens(ring'[r], token)
               /\ CodecOf(r)'.encrypted /\ Ratchet(CodecOf(r)'.scope, token.scope)
    <3>1. /\ Opens(file["reader"], token) /\ Opens(ring[r], token)
          /\ CodecOf(r).encrypted /\ Ratchet(CodecOf(r).scope, token.scope)
      BY <1>7 DEF TokenSays, Fits
    <3> QED BY <1>4, <1>5, <2>1, <3>1, CodecsGrow DEF CodecOf
  <2>3. Fits(token)'
    BY <1>1, <1>7, <2>2 DEF TokenSays, Fits, Opens, CodecOf, SealingKeys, Covers
  <2>4. CASE SignedSays(token.payload, value[c])
    <3> DEFINE signature == token.payload
    <3>1. ASSUME NEW r \in Reader
          PROVE  /\ Verifies(ring'[r], signature)
                 /\ CodecOf(r)'.signed /\ CodecOf(r)'.scope = signature.scope
      <4>1. /\ Verifies(file["reader"], signature) /\ Verifies(ring[r], signature)
            /\ CodecOf(r).signed /\ CodecOf(r).scope = signature.scope
            /\ signature.scope \in Scope
        BY <2>4 DEF SignedSays, Signature
      <4> QED BY <1>4, <1>5, <4>1, CodecsGrow DEF CodecOf
    <3>2. SignedSays(token.payload, value[c])'
      BY <1>1, <2>4, <3>1 DEF SignedSays, Verifies, CodecOf
    <3> QED BY <1>1, <2>1, <2>3, <3>2 DEF TokenSays, Legible
  <2>5. CASE UnsignedSays(token.payload, value[c])
    <3>1. token.payload \in Plain
      BY <2>5 DEF UnsignedSays, RotationInv, Typed
    <3>2. ASSUME NEW r \in Reader, CodecOf(r)'.signed PROVE CodecOf(r)'.readUnsigned
      <4>1. CASE version'[r] = version[r]
        BY <2>5, <3>2, <4>1 DEF UnsignedSays, CodecOf
      <4>2. CASE version'[r] # version[r]
        BY <1>5, <2>1, <3>1, <3>2, <4>2 DEF MayDeploy, CodecOf
      <4> QED BY <4>1, <4>2
    <3>3. UnsignedSays(token.payload, value[c])'
      BY <1>1, <2>5, <3>2 DEF UnsignedSays, CodecOf
    <3> QED BY <1>1, <2>1, <2>3, <3>3 DEF TokenSays, Legible
  <2> QED BY <1>7, <2>4, <2>5 DEF TokenSays
<1> QED BY <1>2, <1>6, <1>7 DEF Legible

LEMMA StartStep ==
    ASSUME RotationInv, NEW p \in Process, NEW n, Starts(p, n)
    PROVE  RotationInv'
<1>1. Typed'
  BY StartFrame DEF RotationInv, Starts
<1>2. KeysInv' /\ RolloutInv'
  BY StartKeys, StartRollout DEF RotationInv
<1>3. \A c \in Config : Legible(topic[c], value[c])'
  BY StartLegible
<1> QED BY <1>1, <1>2, <1>3 DEF RotationInv

\* A restart and a deployment are such starts.
LEMMA StartsAny ==
    ASSUME Typed, NEW p \in Process, Deploy(p) \/ RestartAsIs(p)
    PROVE  \E n : Starts(p, n)
<1>1. version[p] \in DOMAIN Codecs /\ version[p] \in Nat
  BY CodecFields DEF Typed
<1>2. CASE Deploy(p)
  BY <1>1, <1>2 DEF Deploy, MayDeploy, Starts
<1>3. CASE RestartAsIs(p)
  BY <1>1, <1>3 DEF RestartAsIs, Starts
<1> QED BY <1>2, <1>3

-----------------------------------------------------------------------------
(* Values are written *)

\* There is a least number in a set of numbers: of all intervals from 1 to one of them, one is
\* minimal, since finite sets are well founded under inclusion.
LEMMA LeastExists ==
    ASSUME NEW S \in SUBSET Nat, S # {}
    PROVE  \E m \in S : \A n \in S : m <= n
<1> DEFINE F == {1..n : n \in S}
           U == UNION F
<1>1. F \subseteq FiniteSubsetsOf(U)
  <2>1. \A n \in S : IsFiniteSet(1..n)
    BY FS_Interval
  <2>2. \A T \in F : T \subseteq U /\ IsFiniteSet(T)
    BY <2>1
  <2> HIDE DEF F, U
  <2> QED BY <2>2 DEF FiniteSubsetsOf
<1>2. F # {}
  OBVIOUS
<1>3. PICK T \in F : \A V \in F : ~(<<V, T>> \in StrictSubsetOrdering(U))
  <2> HIDE DEF F, U
  <2> QED BY <1>1, <1>2, FS_StrictSubsetOrderingWellFounded, WFMin
<1>4. PICK m \in S : T = 1..m
  OBVIOUS
<1>5. ASSUME NEW n \in S, ~(m <= n) PROVE FALSE
  <2>1. n \in Nat /\ m \in Nat /\ n < m
    BY <1>5
  <2>2. 1..n \in F /\ 1..n \subseteq U /\ 1..m \subseteq U
    BY <1>4
  <2>3. 1..n \subseteq 1..m /\ 1..n # 1..m
    <3>1. m \in 1..m /\ m \notin 1..n
      BY <2>1
    <3> QED BY <2>1, <3>1
  <2> HIDE DEF F, U
  <2> QED BY <1>3, <1>4, <2>2, <2>3 DEF StrictSubsetOrdering
<1> QED BY <1>5

\* The sweep's declaration is one that every reader has reached.
LEMMA SweepCodecReached ==
    ASSUME Typed
    PROVE  \E n \in DOMAIN Codecs :
               SweepCodec = Codecs[n] /\ \A r \in Reader : n <= version[r]
<1> DEFINE V == {version[r] : r \in Reader}
           IsLeast(n) == \A r \in Reader : n <= version[r]
<1>1. \A r \in Reader : version[r] \in DOMAIN Codecs /\ version[r] \in Nat
  BY CodecFields DEF Typed, Process
<1>2. V \in SUBSET Nat /\ V # {}
  BY <1>1, RotationAssumption
<1>3. \E n \in V : IsLeast(n)
  <2>1. PICK n \in V : \A m \in V : n <= m
    <3> HIDE DEF V
    <3> QED BY <1>2, LeastExists
  <2> QED BY <2>1
<1>4. PICK n \in V : n = (CHOOSE m \in V : IsLeast(m)) /\ IsLeast(n)
  BY <1>3
<1>5. n \in DOMAIN Codecs
  BY <1>1
<1> QED BY <1>4, <1>5 DEF SweepCodec

\* A token that a writer or the sweep seals fits every reader.
LEMMA SealedFits ==
    ASSUME RotationInv, NEW X, NEW role \in Roles, Descends(X, role),
           NEW scope \in Scope \cup {NoScope}, NEW payload \in Plain \cup Signature,
           EncryptBytes(X, payload, scope) # Failed,
           NamesNew(X) => Loaded(New),
           SealingKid(X, scope) = Old => Old \in Held(file["reader"]),
           \A r \in Reader : CodecOf(r).encrypted /\ Ratchet(CodecOf(r).scope, scope)
    PROVE  /\ EncryptBytes(X, payload, scope) \in Sealed
           /\ EncryptBytes(X, payload, scope).payload = payload
           /\ EncryptBytes(X, payload, scope).scope = scope
           /\ Fits(EncryptBytes(X, payload, scope))
<1> DEFINE kid == SealingKid(X, scope)
           token == EncryptBytes(X, payload, scope)
<1>1. kid # NoKid /\ token = Token("flenc", kid, X.kind[kid], scope, payload)
  BY DEF EncryptBytes
<1>2. kid \in SealingKeys(X) /\ (kid = New => NamesNew(X))
  BY <1>1, SealingKidSeals DEF Descends
<1>3. token \in Sealed /\ token.payload = payload /\ token.scope = scope
  <2> HIDE DEF kid, token
  <2> QED BY <1>1, <1>2 DEF Token, Sealed, SealingKeys
<1>4. Descends(file["reader"], "reader") /\ \A r \in Reader : Descends(ring[r], "reader")
  BY DEF RotationInv, KeysInv, KeyringsDescend, Roles, Process, Role
<1>5. kid = New => New \in Held(file["reader"]) /\ \A r \in Reader : New \in Held(ring[r])
  BY <1>2, SealingIsHeld DEF Descends, Loaded
<1>6. kid = Old => \A r \in Reader : Old \in Held(ring[r])
  BY DEF RotationInv, KeysInv, OldIsSpent, Loaded
<1>7. Opens(file["reader"], token)
  BY <1>4, <1>5, SealOpens
<1>8. \A r \in Reader : Opens(ring[r], token)
  BY <1>4, <1>5, <1>6, SealOpens
<1> HIDE DEF token
<1> QED BY <1>3, <1>7, <1>8 DEF Fits, token

\* What a writer signs, every reader verifies.
LEMMA SignedVerifies ==
    ASSUME RotationInv, NEW w \in Writer, NEW v \in Plain, CodecOf(w).signed,
           SignBytes(ring[w], v, CodecOf(w).scope) # Failed
    PROVE  SignedSays(SignBytes(ring[w], v, CodecOf(w).scope), v)
<1> DEFINE scope == CodecOf(w).scope
           kid == ring[w].signing[scope]
           signature == SignBytes(ring[w], v, scope)
<1>1. w \in Process /\ Role(w) = "writer" /\ version[w] \in DOMAIN Codecs
  BY RotationAssumption DEF Process, Role, RotationInv, Typed
<1>2. scope \in Scope
  BY <1>1, CodecFields DEF CodecOf
<1>3. kid # NoKid /\ signature = Token("flsig", kid, "ed25519", scope, v)
  BY DEF SignBytes
<1>4. kid = InitialRing["writer"].signing[scope]
  BY <1>1 DEF RotationInv, KeysInv, KeyringsDescend, Descends
<1>5. kid \in Kid
  <2>1. ring[w] \in Keyring
    BY <1>1 DEF RotationInv, Typed
  <2>2. ring[w].signing \in [Scope -> Kid \cup {NoKid}]
    BY <2>1, KeyringFields
  <2> QED BY <1>2, <1>3, <2>2
<1> HIDE DEF kid
<1>6. InitialRing["reader"].kind[kid] = "ed25519" /\ scope \in InitialRing["reader"].bound[kid]
  <2> HIDE DEF scope
  <2> QED BY <1>2, <1>3, <1>4, Start
<1>7. kid \notin {Old, New}
  BY <1>5, <1>6, Start DEF SealingKeys, Held, Roles
<1>8. ASSUME NEW Y, Descends(Y, "reader") PROVE Verifies(Y, signature)
  <2>1. Same(Y, InitialRing["reader"], kid)
    BY <1>5, <1>7, <1>8 DEF Descends
  <2>2. signature.kid = kid /\ signature.scope = scope
    BY <1>3 DEF Token
  <2> HIDE DEF signature, scope
  <2> QED BY <1>6, <2>1, <2>2 DEF Verifies, Same
<1>9. signature \in Signature /\ signature.payload = v /\ signature.scope = scope
  <2> HIDE DEF signature, scope
  <2> QED BY <1>2, <1>3, <1>5 DEF Token, Signature
<1>10. Descends(file["reader"], "reader") /\ \A r \in Reader : Descends(ring[r], "reader")
  BY DEF RotationInv, KeysInv, KeyringsDescend, Roles, Process, Role
<1>11. ASSUME NEW r \in Reader PROVE CodecOf(r).signed /\ CodecOf(r).scope = scope
  <2>1. version[r] \in DOMAIN Codecs /\ version[w] <= version[r]
    BY DEF RotationInv, Typed, RolloutInv, ReadersFirst, Process
  <2> QED BY <1>1, <1>2, <2>1, CodecsGrow DEF CodecOf
<1> HIDE DEF signature
<1> QED BY <1>8, <1>9, <1>10, <1>11 DEF SignedSays, signature

\* A typed write of the writer says to every reader what was meant.
LEMMA EncodedLegible ==
    ASSUME RotationInv, NEW w \in Writer, NEW v \in Plain, Encode(CodecOf(w), ring[w], v) # Failed
    PROVE  LET x == Encode(CodecOf(w), ring[w], v) IN x \in Plain \cup Sealed /\ Legible(x, v)
<1> DEFINE codec == CodecOf(w)
           x == Encode(codec, ring[w], v)
           inner == IF codec.signed THEN SignBytes(ring[w], v, codec.scope) ELSE v
<1>1. w \in Process /\ Role(w) = "writer" /\ version[w] \in DOMAIN Codecs /\ "writer" \in Roles
  BY RotationAssumption DEF Process, Role, RotationInv, Typed, Roles
<1>2. codec.scope \in Scope \cup {NoScope} /\ (codec.signed => codec.encrypted)
  BY <1>1, CodecFields DEF CodecOf
<1>3. ASSUME NEW r \in Reader
      PROVE  /\ version[r] \in DOMAIN Codecs /\ version[w] <= version[r]
             /\ CodecOf(r).encrypted /\ ~CodecOf(r).readPlaintext => codec.encrypted
             /\ CodecOf(r).signed /\ ~CodecOf(r).readUnsigned => codec.signed
  BY DEF RotationInv, Typed, RolloutInv, ReadersFirst, ToleranceOutlived, Process
<1>4. CASE ~codec.encrypted
  <2>1. x = v
    BY <1>4 DEF Encode
  <2>2. \A r \in Reader : ReadsPlain(CodecOf(r))
    BY <1>2, <1>3, <1>4 DEF ReadsPlain
  <2> HIDE DEF x, codec
  <2> QED BY <2>1, <2>2 DEF Legible, PlainSays, x, codec
<1>5. CASE codec.encrypted
  <2>1. inner # Failed /\ x = EncryptBytes(ring[w], inner, codec.scope)
    BY <1>5 DEF Encode, SignedEncode
  <2>2. inner \in Plain \cup Signature /\ (SignedSays(inner, v) \/ UnsignedSays(inner, v))
    <3>1. CASE codec.signed
      <4>1. SignedSays(inner, v)
        BY <2>1, <3>1, SignedVerifies
      <4> QED BY <4>1 DEF SignedSays
    <3>2. CASE ~codec.signed
      <4>1. inner = v
        BY <3>2
      <4> QED BY <1>3, <3>2, <4>1 DEF UnsignedSays
    <3> QED BY <3>1, <3>2
  <2>3. Descends(ring[w], "writer") /\ (NamesNew(ring[w]) => Loaded(New))
    BY <1>1 DEF RotationInv, KeysInv, KeyringsDescend, NewIsLoaded
  <2>4. SealingKid(ring[w], codec.scope) = Old => Old \in Held(file["reader"])
    <3> SUFFICES ASSUME SealingKid(ring[w], codec.scope) = Old, Old \notin Held(file["reader"])
                 PROVE  FALSE
      OBVIOUS
    <3>1. version[w] >= version[w]
      BY <1>1, CodecFields
    <3>2. SealsUnder(Old)
      BY <1>1, <1>5, <3>1 DEF SealsUnder, CodecOf
    <3> QED BY <3>2 DEF RotationInv, KeysInv, OldIsSpent
  <2>5. ASSUME NEW r \in Reader
        PROVE  CodecOf(r).encrypted /\ Ratchet(CodecOf(r).scope, codec.scope)
    <3>1. Ratchet(codec.scope, codec.scope)
      BY DEF Ratchet
    <3> QED BY <1>1, <1>2, <1>3, <1>5, <3>1, CodecsGrow DEF CodecOf
  <2> HIDE DEF x, inner, codec
  <2>6. x \in Sealed /\ x.payload = inner /\ Fits(x)
    <3>1. EncryptBytes(ring[w], inner, codec.scope) # Failed
      BY <2>1 DEF x, codec
    <3> QED BY <1>1, <1>2, <2>1, <2>2, <2>3, <2>4, <2>5, <3>1, SealedFits
  <2> QED BY <2>2, <2>6 DEF Legible, TokenSays, x, codec
<1> QED BY <1>4, <1>5

\* What a sweep writes says the same, and keeps a token's scope: the payload is taken over, an
\* inner signature with it.
LEMMA SweptLegible ==
    ASSUME RotationInv, NEW c \in Config, NEW scope \in Scope \cup {NoScope}, Sweep(c, scope)
    PROVE  LET x == Resealed(topic[c], scope) IN
           /\ x \in Sealed /\ Legible(x, value[c])
           /\ IsEncrypted(topic[c]) /\ topic[c].scope \in Scope =>
                  IsEncrypted(x) /\ x.scope = topic[c].scope
<1> DEFINE x == Resealed(topic[c], scope)
           payload == IF IsEncrypted(topic[c]) THEN topic[c].payload ELSE topic[c]
<1>1. SweepCodec.encrypted /\ x # Failed /\ scope \in {SweepCodec.scope, NoScope}
  BY DEF Sweep, CanSweep
<1>2. PICK n \in DOMAIN Codecs : SweepCodec = Codecs[n] /\ \A r \in Reader : n <= version[r]
  BY SweepCodecReached DEF RotationInv
<1>3. ASSUME NEW r \in Reader
      PROVE  /\ version[r] \in DOMAIN Codecs
             /\ CodecOf(r).encrypted /\ Ratchet(CodecOf(r).scope, scope)
  <2>1. version[r] \in DOMAIN Codecs
    BY DEF RotationInv, Typed, Process
  <2>2. Ratchet(SweepCodec.scope, scope)
    BY <1>1 DEF Ratchet
  <2> QED BY <1>1, <1>2, <2>1, <2>2, CodecsGrow DEF CodecOf
<1>4. Legible(topic[c], value[c]) /\ topic[c] \in Plain \cup Sealed /\ value[c] \in Plain
  BY DEF RotationInv, Typed
<1>5. IsEncrypted(topic[c]) <=> topic[c] \in Sealed
  BY <1>4, TokensAssumption DEF IsEncrypted, Sealed
<1>6. /\ x = EncryptBytes(file["reader"], payload, scope)
      /\ IsEncrypted(topic[c]) => Ratchet(scope, topic[c].scope)
  <2>1. CASE IsEncrypted(topic[c])
    <3>1. DecryptBytes(file["reader"], topic[c], scope) # Failed
      BY <1>1, <2>1 DEF Resealed, Reencrypt
    <3>2. DecryptBytes(file["reader"], topic[c], scope) = payload /\ Ratchet(scope, topic[c].scope)
      BY <2>1, <3>1 DEF DecryptBytes
    <3> QED BY <2>1, <3>1, <3>2 DEF Resealed, Reencrypt
  <2>2. CASE ~IsEncrypted(topic[c])
    BY <2>2 DEF Resealed
  <2> QED BY <2>1, <2>2
<1>7. payload \in Plain \cup Signature
      /\ (SignedSays(payload, value[c]) \/ UnsignedSays(payload, value[c]))
  <2>1. CASE IsEncrypted(topic[c])
    <3>1. topic[c].payload \in Plain \cup Signature
      BY <1>5, <2>1 DEF Sealed
    <3>2. TokenSays(topic[c], value[c])
      BY <1>4, <1>5, <2>1, TokensAssumption DEF Legible, PlainSays
    <3> QED BY <2>1, <3>1, <3>2 DEF TokenSays
  <2>2. CASE ~IsEncrypted(topic[c])
    <3>1. topic[c] \in Plain /\ PlainSays(topic[c], value[c])
      BY <1>4, <1>5, <2>2 DEF Legible, TokenSays
    <3>2. UnsignedSays(payload, value[c])
      BY <1>3, <2>2, <3>1 DEF UnsignedSays, PlainSays, ReadsPlain
    <3> QED BY <2>2, <3>1, <3>2
  <2> QED BY <2>1, <2>2
<1>8. Descends(file["reader"], "reader") /\ (NamesNew(file["reader"]) => Loaded(New))
      /\ "reader" \in Roles
  BY DEF RotationInv, KeysInv, KeyringsDescend, NewIsLoaded, Roles
<1>9. SealingKid(file["reader"], scope) = Old => Old \in Held(file["reader"])
  BY <1>8, SealingKidSeals, SealingIsHeld, RotationAssumption, TokensAssumption DEF Descends
<1> HIDE DEF x, payload
<1>10. x \in Sealed /\ x.payload = payload /\ x.scope = scope /\ Fits(x)
  BY <1>1, <1>3, <1>6, <1>7, <1>8, <1>9, SealedFits
<1>11. IsEncrypted(x)
  BY <1>10, TokensAssumption DEF IsEncrypted, Sealed
<1>12. IsEncrypted(topic[c]) /\ topic[c].scope \in Scope => x.scope = topic[c].scope
  BY <1>6, <1>10, TokensAssumption DEF Ratchet
<1> QED BY <1>7, <1>10, <1>11, <1>12 DEF Legible, TokenSays, x

\* A record is produced with a value that says what was meant.
LEMMA ProduceStep ==
    ASSUME RotationInv, NEW c \in Config, NEW x \in Plain \cup Sealed, NEW v \in Plain,
           Legible(x, v), Produce(c, x), value' = [value EXCEPT ![c] = v],
           file' = file, ring' = ring, version' = version,
           quiesced' \in BOOLEAN, edits' \in 0..MaxEdits
    PROVE  RotationInv'
<1>1. /\ topic' = [topic EXCEPT ![c] = x]
      /\ stale' = stale \cup ({ScanEntry(topic[c])} \ {New})
      /\ topic[c] \in Plain \cup Sealed
  BY DEF Produce, RotationInv, Typed
<1>2. ScanEntry(topic[c]) \in Kid \cup {NoKid}
  BY <1>1 DEF ScanEntry, IsEncrypted, Sealed
<1>3. Typed'
  BY <1>1, <1>2 DEF RotationInv, Typed
<1>4. KeysInv' /\ RolloutInv'
  BY DEF RotationInv, KeysInv, KeyringsDescend, Descends, NewIsLoaded, OldIsSpent, Loaded,
     SealsUnder, RolloutInv, ReadersFirst, ToleranceOutlived, CodecOf
<1>5. \A y, u : Legible(y, u)' <=> Legible(y, u)
  BY DEF Legible, PlainSays, TokenSays, Fits, SignedSays, UnsignedSays, CodecOf
<1>6. ASSUME NEW d \in Config PROVE Legible(topic'[d], value'[d])
  <2>1. Legible(topic[d], value[d])
    BY DEF RotationInv
  <2>2. CASE d = c
    BY <1>1, <2>2 DEF RotationInv, Typed
  <2>3. CASE d # c
    BY <1>1, <2>1, <2>3 DEF RotationInv, Typed
  <2> QED BY <2>2, <2>3
<1> QED BY <1>3, <1>4, <1>5, <1>6 DEF RotationInv, Legible, PlainSays, TokenSays, Fits,
     SignedSays, UnsignedSays, CodecOf

-----------------------------------------------------------------------------
(* The theorems *)

LEMMA RotationInit == Init => RotationInv
<1> SUFFICES ASSUME Init PROVE RotationInv
  OBVIOUS
<1> USE DEF Init
<1>1. /\ \A p \in Process : Role(p) \in Roles
      /\ \A r \in Reader : r \in Process /\ Role(r) = "reader"
      /\ \A w \in Writer : w \in Process /\ Role(w) = "writer"
  BY RotationAssumption DEF Role, Roles, Process
<1>2. 1 \in DOMAIN Codecs
  <2>1. DOMAIN Codecs = 1..Len(Codecs) /\ Len(Codecs) \in Nat /\ Len(Codecs) > 0
    BY RolloutAssumption
  <2> QED BY <2>1
<1>3. Typed
  <2>1. file \in [Roles -> Keyring] /\ ring \in [Process -> Keyring]
    BY <1>1, Start
  <2>2. version \in [Process -> DOMAIN Codecs]
    BY <1>2
  <2>3. value \in [Config -> Plain] /\ topic \in [Config -> Plain \cup Sealed]
    OBVIOUS
  <2>4. stale \subseteq Kid \cup {NoKid} /\ quiesced \in BOOLEAN
    OBVIOUS
  <2>5. edits \in 0..MaxEdits
    BY RotationAssumption
  <2> QED BY <2>1, <2>2, <2>3, <2>4, <2>5 DEF Typed
<1>4. \A role \in Roles : /\ InitialRing[role] \in Keyring /\ Valid(InitialRing[role])
                          /\ New \notin Held(InitialRing[role])
  BY Start
<1>5. KeyringsDescend
  <2>1. ASSUME NEW role \in Roles PROVE Descends(InitialRing[role], role)
    BY <1>4, Start DEF Descends, Same
  <2> QED BY <1>1, <2>1 DEF KeyringsDescend
<1>6. NewIsLoaded
  <2>1. ASSUME NEW role \in Roles PROVE ~NamesNew(InitialRing[role])
    <3>1. New # NoKid
      BY RotationAssumption, TokensAssumption
    <3>2. New \notin SealingKeys(InitialRing[role])
      BY <1>4, SealingIsHeld
    <3> QED BY <1>4, <3>1, <3>2 DEF NamesNew, Valid
  <2> QED BY <1>1, <2>1 DEF NewIsLoaded
<1>7. OldIsSpent
  BY <1>1, Start, SealingIsHeld DEF OldIsSpent, Loaded
<1>8. \A r \in Reader : CodecOf(r) = Codecs[1]
  BY <1>1 DEF CodecOf
<1>9. RolloutInv
  <2>1. ASSUME NEW r \in Reader, NEW w \in Writer PROVE version[w] <= version[r]
    BY <1>1
  <2>2. Codecs[1].signed => Codecs[1].encrypted
    BY <1>2, CodecFields
  <2>3. ToleranceOutlived
    BY <1>8, <2>2, RolloutAssumption DEF ToleranceOutlived, ReadsPlain
  <2> QED BY <2>1, <2>3 DEF RolloutInv, ReadersFirst
<1>10. ASSUME NEW c \in Config PROVE Legible(topic[c], value[c])
  BY <1>8, RolloutAssumption DEF Legible, PlainSays
<1> QED BY <1>3, <1>5, <1>6, <1>7, <1>9, <1>10 DEF RotationInv, KeysInv

\* Steps that write no file, no value and start nothing.
LEMMA RotationRests ==
    ASSUME RotationInv, Typed',
           UNCHANGED <<file, ring, version, topic, value>>
    PROVE  RotationInv'
<1>1. KeysInv' /\ RolloutInv'
  BY DEF RotationInv, KeysInv, KeyringsDescend, Descends, NewIsLoaded, OldIsSpent, Loaded,
     SealsUnder, RolloutInv, ReadersFirst, ToleranceOutlived, CodecOf
<1>2. ASSUME NEW c \in Config PROVE Legible(topic[c], value[c])'
  <2>1. Legible(topic[c], value[c])
    BY DEF RotationInv
  <2> QED BY <2>1 DEF Legible, PlainSays, TokenSays, Fits, SignedSays, UnsignedSays, CodecOf
<1> QED BY <1>1, <1>2 DEF RotationInv

LEMMA RotationStep ==
    ASSUME RotationInv, [Next]_vars
    PROVE  RotationInv'
<1>1. Typed
  BY DEF RotationInv
<1>2. CASE UNCHANGED vars
  BY <1>1, <1>2, RotationRests DEF vars, procVars, topicVars, Typed
<1>3. ASSUME NEW w \in Writer, NEW c \in Config, NEW v \in Plain, Edit(w, c, v)
      PROVE  RotationInv'
  <2> DEFINE x == Encode(CodecOf(w), ring[w], v)
  <2>1. x # Failed /\ Produce(c, x) /\ value' = [value EXCEPT ![c] = v]
    BY <1>3 DEF Edit
  <2>2. file' = file /\ ring' = ring /\ version' = version /\ quiesced' \in BOOLEAN
    BY <1>1, <1>3 DEF Edit, procVars, Typed
  <2>3. edits' \in 0..MaxEdits
    BY <1>1, <1>3, RotationAssumption DEF Edit, Typed
  <2>4. x \in Plain \cup Sealed /\ Legible(x, v)
    BY <2>1, EncodedLegible
  <2> HIDE DEF x
  <2> QED BY <2>1, <2>2, <2>3, <2>4, ProduceStep
<1>4. ASSUME NEW p \in Process, Deploy(p) \/ RestartAsIs(p) PROVE RotationInv'
  BY <1>1, <1>4, StartsAny, StartStep
<1>5. ASSUME NEW kid \in stale, Compact(kid) PROVE RotationInv'
  BY <1>1, <1>5, RotationRests DEF Compact, procVars, Typed
<1>6. ASSUME NEW key \in Successors, Add(key) PROVE RotationInv'
  BY <1>6, AddEdits, SaveStep DEF RotationInv, Roles
<1>7. CASE Import
  BY <1>7, ImportEdits, SaveStep DEF RotationInv, Roles
<1>8. ASSUME NEW role \in DOMAIN file, NEW scope \in Scope \cup {NoScope}, Promote(role, scope)
      PROVE  RotationInv'
  <2>1. role \in Roles
    BY <1>1 DEF Typed
  <2> QED BY <1>8, <2>1, PromoteEdits, SaveStep DEF RotationInv
<1>9. ASSUME NEW role \in DOMAIN file, Retire(role) PROVE RotationInv'
  <2>1. role \in Roles
    BY <1>1 DEF Typed
  <2> QED BY <1>9, <2>1, RetireEdits, SaveStep DEF RotationInv
<1>10. CASE BeginSweep \/ EndSweep
  BY <1>1, <1>10, RotationRests DEF BeginSweep, EndSweep, procVars, topicVars, Typed
<1>11. ASSUME NEW c \in Config, NEW scope \in Scope \cup {NoScope}, Sweep(c, scope)
       PROVE  RotationInv'
  <2> DEFINE x == Resealed(topic[c], scope)
  <2>1. Produce(c, x) /\ value' = value /\ value[c] \in Plain /\ value' = [value EXCEPT ![c] = value[c]]
    BY <1>1, <1>11 DEF Sweep, Typed
  <2>2. /\ file' = file /\ ring' = ring /\ version' = version /\ quiesced' \in BOOLEAN
        /\ edits' \in 0..MaxEdits
    BY <1>1, <1>11 DEF Sweep, procVars, Typed
  <2>3. x \in Sealed /\ Legible(x, value[c])
    BY <1>11, SweptLegible
  <2> HIDE DEF x
  <2> QED BY <2>1, <2>2, <2>3, ProduceStep
<1> QED
  BY <1>2, <1>3, <1>4, <1>5, <1>6, <1>7, <1>8, <1>9, <1>10, <1>11 DEF Next, Operate

\* The inductive invariant: types, where keyrings come from, what a rollout and a
\* rotation wait for, and what every surviving value says.
THEOREM RotationInvariance == Spec => []RotationInv
<1> QED BY RotationInit, RotationStep, PTL DEF Spec

\* Types, and the keyring's validation (TypeOK): whatever edits led to a keyring, in a file or
\* in a process, its roles name keys it holds and public-key material is bound.
THEOREM TypeCorrect == Spec => []TypeOK
<1>1. RotationInv => TypeOK
  <2> SUFFICES ASSUME RotationInv PROVE TypeOK
    OBVIOUS
  <2>1. ASSUME NEW X, NEW role, Descends(X, role) PROVE WellFormed(X)
    <3>1. X \in Keyring /\ Valid(X) /\ SealingKeys(X) \subseteq Held(X)
      BY <2>1, SealingIsHeld DEF Descends
    <3>2. X.kind \in [Kid -> {"oct", "x25519", "ed25519", "none"}]
          /\ X.signing \in [Scope -> Kid \cup {NoKid}]
      BY <3>1, KeyringFields
    <3>3. \A kid \in Held(X) : X.kind[kid] = "oct" \/ X.bound[kid] # {}
      BY <3>1, <3>2 DEF Valid, Held
    <3>4. \A scope \in Scope : {X.primaries[scope], X.signing[scope]} \subseteq Held(X) \cup {NoKid}
      BY <3>1, <3>2 DEF Valid, Held
    <3> QED BY <3>1, <3>3, <3>4 DEF WellFormed, Valid
  <2> QED BY <2>1 DEF RotationInv, KeysInv, KeyringsDescend, Roles, Typed, TypeOK
<1> QED BY <1>1, RotationInvariance, PTL

\* In the middle of a rotation, of the rollout of a scope or a signature, of a sweep, or of all
\* of them, every reader reads every surviving value as it was meant (ReadsWhatWasMeant).
THEOREM ReadsAsMeant == Spec => []ReadsWhatWasMeant
<1>1. RotationInv => ReadsWhatWasMeant
  <2> SUFFICES ASSUME RotationInv, NEW r \in Reader, NEW c \in Config
               PROVE  Decode(CodecOf(r), ring[r], topic[c]) = value[c]
    BY DEF ReadsWhatWasMeant
  <2> DEFINE codec == CodecOf(r)
             X == ring[r]
             x == topic[c]
             v == value[c]
  <2>1. Legible(x, v) /\ v \in Plain /\ version[r] \in DOMAIN Codecs
    BY DEF RotationInv, Typed, Process
  <2>2. codec.signed => codec.encrypted
    BY <2>1, CodecFields DEF CodecOf
  <2>3. CASE PlainSays(x, v)
    <3>1. x = v /\ ~IsEncrypted(x) /\ ~IsSigned(x) /\ ReadsPlain(codec)
      BY <2>1, <2>3 DEF PlainSays, IsEncrypted, IsSigned
    <3> HIDE DEF codec, X, x, v
    <3>2. codec.encrypted => SignedDecode(codec, X, x) = v /\ codec.readPlaintext
      BY <3>1 DEF ReadsPlain, SignedDecode
    <3> QED BY <3>1, <3>2 DEF Decode, codec, X, x, v
  <2>4. CASE TokenSays(x, v)
    <3>1. /\ x \in Sealed /\ Opens(X, x) /\ codec.encrypted /\ Ratchet(codec.scope, x.scope)
      BY <2>4 DEF TokenSays, Fits
    <3>2. IsEncrypted(x) /\ x.payload \in Plain \cup Signature /\ x.payload # Failed
      BY <3>1, TokensAssumption DEF IsEncrypted, Sealed
    <3>3. DecryptBytes(X, x, codec.scope) = x.payload
      BY <3>1 DEF DecryptBytes, Opens
    <3>4. SignedDecode(codec, X, x.payload) = v
      <4>1. CASE SignedSays(x.payload, v)
        <5>1. /\ x.payload \in Signature /\ x.payload.payload = v /\ Verifies(X, x.payload)
              /\ codec.signed /\ codec.scope = x.payload.scope
          BY <4>1 DEF SignedSays
        <5>2. IsSigned(x.payload)
          BY <5>1, TokensAssumption DEF IsSigned, Signature
        <5>3. VerifyBytes(X, x.payload, codec.scope) = v
          BY <5>1 DEF VerifyBytes, Verifies
        <5> HIDE DEF codec, X, x, v
        <5> QED BY <5>1, <5>2, <5>3 DEF SignedDecode
      <4>2. CASE UnsignedSays(x.payload, v)
        <5>1. x.payload = v /\ (codec.signed => codec.readUnsigned) /\ ~IsSigned(x.payload)
          BY <2>1, <4>2 DEF UnsignedSays, IsSigned
        <5> HIDE DEF codec, X, x, v
        <5> QED BY <5>1 DEF SignedDecode
      <4> QED BY <2>4, <4>1, <4>2 DEF TokenSays
    <3> HIDE DEF codec, X, x, v
    <3>5. Decode(codec, X, x) = v
      BY <3>1, <3>2, <3>3, <3>4 DEF Decode
    <3> QED BY <3>5 DEF codec, X, x, v
  <2> QED BY <2>1, <2>3, <2>4 DEF Legible
<1> QED BY <1>1, RotationInvariance, PTL

\* No sweep, whatever scope it is run with, makes a scoped token an unscoped one
\* (ScopeNeverDropped); only an edit can.
THEOREM ScopeKept == Spec => ScopeNeverDropped
<1> DEFINE Kept ==
        \A c \in Config :
            edits' = edits /\ IsEncrypted(topic[c]) /\ topic[c].scope \in Scope =>
                IsEncrypted(topic'[c]) /\ topic'[c].scope = topic[c].scope
<1>1. RotationInv /\ [Next]_vars => [Kept]_vars
  <2> SUFFICES ASSUME RotationInv, Next, edits' = edits PROVE Kept
    BY DEF vars
  <2>1. CASE topic' = topic
    BY <2>1
  <2>2. ASSUME NEW w \in Writer, NEW c \in Config, NEW v \in Plain, Edit(w, c, v) PROVE FALSE
    BY <2>2 DEF Edit, RotationInv, Typed
  <2>3. ASSUME NEW c \in Config, NEW scope \in Scope \cup {NoScope}, Sweep(c, scope)
        PROVE  Kept
    <3>1. topic' = [topic EXCEPT ![c] = Resealed(topic[c], scope)] /\ DOMAIN topic = Config
      BY <2>3 DEF Sweep, Produce, RotationInv, Typed
    <3>2. IsEncrypted(topic[c]) /\ topic[c].scope \in Scope =>
              IsEncrypted(topic'[c]) /\ topic'[c].scope = topic[c].scope
      BY <2>3, <3>1, SweptLegible
    <3>3. \A d \in Config \ {c} : topic'[d] = topic[d]
      BY <3>1
    <3> QED BY <3>2, <3>3
  <2>4. \/ topic' = topic
        \/ \E w \in Writer, c \in Config, v \in Plain : Edit(w, c, v)
        \/ \E c \in Config, scope \in Scope \cup {NoScope} : Sweep(c, scope)
    BY DEF Next, Operate, Deploy, RestartAsIs, Restart, Compact, Add, Import, Promote, Retire,
       Save, BeginSweep, EndSweep, topicVars
  <2> QED BY <2>1, <2>2, <2>3, <2>4
<1> QED BY <1>1, RotationInvariance, PTL DEF Spec, ScopeNeverDropped
====

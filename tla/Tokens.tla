---- MODULE Tokens ----
(***************************************************************************)
(* Keyrings and tokens: flechtctl's keyring.py, tokens.py and the edits of *)
(* cli.py, and the codecs of flechtwerk/secrets.py.  Cryptography is       *)
(* perfect: a token opens under the key it was sealed under, and what it   *)
(* is stamped with cannot be changed.                                      *)
(***************************************************************************)
CONSTANTS Kid, Scope,
          Plain,        \* values as the inner codec encodes them, none in the form of a token
          NoKid, NoScope,
          Failed        \* an exception was raised

\* What signing and sealing make of a value.
Signature == [scheme : {"flsig"}, kid : Kid, kind : {"ed25519"}, scope : Scope,
              payload : Plain]
Sealed == [scheme : {"flenc"}, kid : Kid, kind : {"oct", "x25519"},
           scope : Scope \cup {NoScope}, payload : Plain \cup Signature]

ASSUME TokensAssumption ==
    /\ NoKid \notin Kid /\ NoScope \notin Scope
    /\ Failed \notin Plain
    /\ (Plain \cup {Failed}) \cap (Signature \cup Sealed) = {}

-----------------------------------------------------------------------------
(* The keyring *)

\* What is held under a kid, and whether its private half is (of an oct key, it is).
Jwk == [kid : Kid, kind : {"oct", "x25519", "ed25519"}, private : BOOLEAN, bound : SUBSET Scope]

Keyring == [kind : [Kid -> {"oct", "x25519", "ed25519", "none"}],
            private : SUBSET Kid,
            bound : [Kid -> SUBSET Scope],
            primary : Kid,
            primaries : [Scope -> Kid \cup {NoKid}],
            signing : [Scope -> Kid \cup {NoKid}]]

Held(ring) == {kid \in Kid : ring.kind[kid] # "none"}
SealingKeys(ring) == {kid \in Kid : ring.kind[kid] \in {"oct", "x25519"}}
Covers(ring, kid, scope) == ring.bound[kid] = {} \/ scope \in ring.bound[kid]

\* Mutant: public-key material without a binding is let through.
ValidUnbound(ring) == ring.primary \in SealingKeys(ring)

\* Keyring.__post_init__: what a keyring that fails it raises is never written.
Valid(ring) ==
    /\ ring.primary \in SealingKeys(ring)
    /\ \A kid \in Kid :
           /\ ring.bound[kid] # {} => kid \in Held(ring)
           /\ ring.kind[kid] \in {"x25519", "ed25519"} => ring.bound[kid] # {}
    /\ \A scope \in Scope :
           /\ ring.primaries[scope] # NoKid =>
                  /\ ring.primaries[scope] \in SealingKeys(ring)
                  /\ Covers(ring, ring.primaries[scope], scope)
           /\ ring.signing[scope] # NoKid =>
                  /\ ring.kind[ring.signing[scope]] = "ed25519"
                  /\ ring.signing[scope] \in ring.private
                  /\ Covers(ring, ring.signing[scope], scope)

WithJwk(ring, jwk) ==
    [ring EXCEPT !.kind[jwk.kid] = jwk.kind,
                 !.private = IF jwk.private THEN @ \cup {jwk.kid} ELSE @,
                 !.bound[jwk.kid] = jwk.bound]

\* keyring_from_jwk(), and `keyring new' of a key just generated.
KeyringFromJwk(jwk) ==
    WithJwk([kind |-> [kid \in Kid |-> "none"], private |-> {},
             bound |-> [kid \in Kid |-> {}], primary |-> jwk.kid,
             primaries |-> [scope \in Scope |-> NoKid],
             signing |-> [scope \in Scope |-> NoKid]], jwk)

\* `keyring export': an oct key has no public half.
PublicJwk(ring, kid) ==
    [kid |-> kid, kind |-> ring.kind[kid], private |-> FALSE, bound |-> ring.bound[kid]]

\* `keyring primary', with and without --scope, and `keyring signing'.
SetPrimary(ring, scope, kid) ==
    IF scope = NoScope THEN [ring EXCEPT !.primary = kid]
                       ELSE [ring EXCEPT !.primaries[scope] = kid]

SetSigning(ring, scope, kid) == [ring EXCEPT !.signing[scope] = kid]

\* `keyring remove', of a key that is not the primary: its roles go with it.
Remove(ring, kid) ==
    [ring EXCEPT !.kind[kid] = "none",
                 !.private = @ \ {kid},
                 !.bound[kid] = {},
                 !.primaries = [s \in Scope |-> IF @[s] = kid THEN NoKid ELSE @[s]],
                 !.signing = [s \in Scope |-> IF @[s] = kid THEN NoKid ELSE @[s]]]

\* NoKid: it raises, an unscoped value is outside every binding.
SealingKid(ring, scope) ==
    LET named == scope \in Scope /\ ring.primaries[scope] # NoKid
        kid == IF named THEN ring.primaries[scope] ELSE ring.primary
    IN  IF Covers(ring, kid, scope) THEN kid ELSE NoKid

-----------------------------------------------------------------------------
(* Tokens *)

Token(scheme, kid, kind, scope, payload) ==
    [scheme |-> scheme, kid |-> kid, kind |-> kind, scope |-> scope, payload |-> payload]

IsEncrypted(value) == value \notin Plain /\ value.scheme = "flenc"
IsSigned(value) == value \notin Plain /\ value.scheme = "flsig"

EncryptBytes(ring, payload, scope) ==
    LET kid == SealingKid(ring, scope) IN
    IF kid = NoKid THEN Failed ELSE Token("flenc", kid, ring.kind[kid], scope, payload)

\* Mutant: a scoped codec wants its scope, from the first day.
RatchetStrict(scope, stamped) == stamped = scope

\* Mutant: an unscoped codec reads a token of any scope.
RatchetOpen(scope, stamped) == scope = NoScope \/ stamped \in {scope, NoScope}

\* A scoped codec reads unscoped tokens too; an unscoped one reads no scoped token.
Ratchet(scope, stamped) == stamped \in {scope, NoScope}

DecryptBytes(ring, token, scope) ==
    LET kid == token.kid
        opens == /\ kid \in SealingKeys(ring) \cap ring.private
                 /\ ring.kind[kid] = token.kind
    IN  IF opens /\ Ratchet(scope, token.scope) /\ Covers(ring, kid, token.scope)
        THEN token.payload ELSE Failed

SignBytes(ring, payload, scope) ==
    IF ring.signing[scope] = NoKid THEN Failed
    ELSE Token("flsig", ring.signing[scope], "ed25519", scope, payload)

\* There is no ratchet: a signature's scope is the reader's.
VerifyBytes(ring, token, scope) ==
    IF /\ ring.kind[token.kid] = "ed25519"
       /\ token.scope = scope
       /\ scope \in ring.bound[token.kid]
    THEN token.payload ELSE Failed

\* Mutant: re-sealed as it was stamped, not as the attribute has it.
ReencryptAsStamped(ring, token, scope) ==
    LET payload == DecryptBytes(ring, token, scope) IN
    IF payload = Failed THEN Failed ELSE EncryptBytes(ring, payload, token.scope)

\* The payload as it is, an inner signature included.
Reencrypt(ring, token, scope) ==
    LET payload == DecryptBytes(ring, token, scope) IN
    IF payload = Failed THEN Failed ELSE EncryptBytes(ring, payload, scope)

-----------------------------------------------------------------------------
(* The attribute's codec: none, ENCRYPTED(inner), or ENCRYPTED(SIGNED(inner)) *)

Codec == [encrypted : BOOLEAN, readPlaintext : BOOLEAN, scope : Scope \cup {NoScope},
          signed : BOOLEAN, readUnsigned : BOOLEAN]

SignedDecode(codec, ring, value) ==
    CASE ~codec.signed -> value
      [] codec.signed /\ IsSigned(value) -> VerifyBytes(ring, value, codec.scope)
      [] codec.signed /\ ~IsSigned(value) /\ codec.readUnsigned -> value
      [] OTHER -> Failed

Decode(codec, ring, value) ==
    CASE ~codec.encrypted -> value
      [] codec.encrypted /\ IsEncrypted(value) ->
             LET payload == DecryptBytes(ring, value, codec.scope) IN
             IF payload = Failed THEN Failed ELSE SignedDecode(codec, ring, payload)
      [] codec.encrypted /\ ~IsEncrypted(value) /\ codec.readPlaintext ->
             SignedDecode(codec, ring, value)
      [] OTHER -> Failed

SignedEncode(codec, ring, value) ==
    IF codec.signed THEN SignBytes(ring, value, codec.scope) ELSE value

Encode(codec, ring, value) ==
    LET inner == SignedEncode(codec, ring, value) IN
    CASE ~codec.encrypted -> value
      [] codec.encrypted /\ inner = Failed -> Failed
      [] OTHER -> EncryptBytes(ring, inner, codec.scope)
====

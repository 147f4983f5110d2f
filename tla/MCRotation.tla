---- MODULE MCRotation ----
(***************************************************************************)
(* An instance of Rotation for TLC: one attribute's way from plaintext to  *)
(* ENCRYPTED(SIGNED(STR, scope=s), scope=s), and the keyrings at its start.*)
(***************************************************************************)
EXTENDS Rotation

CONSTANTS k1, k2, signer, s

Tolerant == [encrypted |-> TRUE, readPlaintext |-> TRUE, scope |-> NoScope,
             signed |-> FALSE, readUnsigned |-> FALSE]

MCCodecs == <<[Tolerant EXCEPT !.encrypted = FALSE],
              Tolerant,
              [Tolerant EXCEPT !.readPlaintext = FALSE, !.scope = s],
              [Tolerant EXCEPT !.readPlaintext = FALSE, !.scope = s, !.signed = TRUE,
                               !.readUnsigned = TRUE],
              [Tolerant EXCEPT !.readPlaintext = FALSE, !.scope = s, !.signed = TRUE]>>

\* A second oct key, a recipient key bound to the attribute's scope, and one that
\* nobody bound, which flechtctl refuses.
MCSuccessors == {[kind |-> "oct", bound |-> {}], [kind |-> "x25519", bound |-> {s}],
                 [kind |-> "x25519", bound |-> {}]}

First == KeyringFromJwk([kid |-> k1, kind |-> "oct", private |-> TRUE, bound |-> {}])

Signer(private) == [kid |-> signer, kind |-> "ed25519", private |-> private, bound |-> {s}]

MCInitialRing == [role \in {"reader", "writer"} |->
    IF role = "reader" THEN WithJwk(First, Signer(FALSE))
    ELSE SetSigning(WithJwk(First, Signer(TRUE)), s, signer)]
====

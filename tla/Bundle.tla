-------------------------------- MODULE Bundle -------------------------------
(***************************************************************************)
(* Signature bundles (pkg/signature/bundle.go) and the signatures of image *)
(* manifests (pkg/signature/image/manifest.go).  A text is a sequence of   *)
(* letters, letters are numbers.  A manifest is [body, annotations]: the   *)
(* text of its versions, digests and sizes, and a function from keys to    *)
(* texts.  A signature is what an ideal scheme makes of it: who signed,    *)
(* whether a digest was signed or the text itself, and the text.  SHA-256  *)
(* of a payload stands for the payload.                                    *)
(***************************************************************************)
EXTENDS Certificates

(* The three keys of a bundle's annotations, which share a long prefix. *)
SIGNATURE  == <<9, 3>>
CERT       == <<9, 1>>
CHAIN      == <<9, 2>>
BundleKeys == {SIGNATURE, CERT, CHAIN}

(* Bundle.ToMap; a nil chain comes out as "". *)
ToMap(b) == [k \in BundleKeys |-> CASE k = SIGNATURE -> b.signature
                                    [] k = CERT      -> b.cert
                                    [] OTHER         -> b.chain]

ErrNoSignature == "no signature"
ErrNoCert      == "no cert"

(* NewBundleFromMap, UnmarshalJSON: the chain may be missing. *)
MapError(m) == IF SIGNATURE \notin DOMAIN m THEN ErrNoSignature
               ELSE IF CERT \notin DOMAIN m THEN ErrNoCert ELSE ""

NewBundleFromMap(m) ==
  [signature |-> m[SIGNATURE], cert |-> m[CERT],
   chain |-> IF CHAIN \in DOMAIN m THEN m[CHAIN] ELSE <<>>]

-----------------------------------------------------------------------------
(* slices.Sort's order of keys. *)
Precedes(j, k) ==
  \/ Len(j) < Len(k) /\ IsPrefix(j, k)
  \/ \E i \in DOMAIN j \cap DOMAIN k :
       j[i] < k[i] /\ SubSeq(j, 1, i - 1) = SubSeq(k, 1, i - 1)

MutOrders(keys) == SetToSeqs(keys)     \* not sorted: as the map yields them

(* The orders in which annotations are written: maps yield any, it is       *)
(* sorted.                                                                  *)
Orders(keys) == {SetToSortSeq(keys, Precedes)}

(* The annotations that are part of the payload: all but the bundle's. *)
SignedNotes(m) ==
  [k \in DOMAIN m.annotations \ BundleKeys |-> m.annotations[k]]

(* getManifestPayloadHash: everything one after the other, without a        *)
(* separator.                                                               *)
Payloads(m) ==
  LET notes == SignedNotes(m)
  IN  {m.body \o FlattenSeq([i \in DOMAIN order |-> order[i] \o notes[order[i]]])
         : order \in Orders(DOMAIN notes)}

-----------------------------------------------------------------------------
MutVerifySignature(signature, key, ed25519, text) ==   \* of any text
  signature # <<>> /\ signature[1].by = key

(* NewVerifierFromCert and VerifySignature: LoadVerifier takes the scheme   *)
(* from the certificate's key; Ed25519 signs the text itself.               *)
VerifySignature(signature, key, ed25519, text) ==
  signature = <<[by |-> key, digest |-> ~ed25519, text |-> text]>>

MutAnyRoot(bundle, roots, now) ==      \* the first root decides
  /\ Len(roots) > 0
  /\ VerifyChain(bundle.cert, ConcatChain(bundle.chain, roots[1]), now)

(* verifyChainWithAnyRoot: the roots in turn, until one verifies the chain; *)
(* one that cannot be read ends the search.                                 *)
AnyRoot(bundle, roots, now) ==
  \E i \in DOMAIN roots :
    /\ \A j \in 1 .. i : ConcatChain(bundle.chain, roots[j]) # Unreadable
    /\ VerifyChain(bundle.cert, ConcatChain(bundle.chain, roots[i]), now)

(* VerifyBundle *)
VerifyBundle(bundle, ed25519, text, roots, now) ==
  /\ AnyRoot(bundle, roots, now)
  /\ VerifySignature(bundle.signature, bundle.cert[1].key, ed25519, text)

(* VerifyImageManifestSignature, with the payload computed as text. *)
VerifyManifest(m, ed25519, text, roots, now) ==
  /\ MapError(m.annotations) = ""
  /\ VerifyBundle(NewBundleFromMap(m.annotations), ed25519, text, roots, now)
=============================================================================

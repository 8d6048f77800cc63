-------------------------------- MODULE Signer -------------------------------
(***************************************************************************)
(* The life of a SignerVerifier (pkg/signver/signerverifier.go,            *)
(* key_loader.go, and the loading half of hashivault/signer.go) and of the *)
(* manifest it signs.  NewSignerVerifier chooses an authenticator, fetches *)
(* the public key, compares it with a certificate and checks the chain; in *)
(* between and afterwards the key may be rotated in Vault, certificates    *)
(* expire, and the owner of the manifest edits it, has it signed again by  *)
(* a signer that is loaded anew, or has it verified.                       *)
(*                                                                         *)
(* A key is a version of the transit key, or FileKey.  The cache of the    *)
(* public key is VaultKey's subject: here it may be expired or not.        *)
(***************************************************************************)
EXTENDS Bundle, AuthSelect

CONSTANTS
  MaxVersion,  \* bound on the versions rotation creates
  MaxTime,     \* bound on the clock
  FileKey,     \* the key in the key file
  Requests,    \* [keyRef, envMode, auth, env, address]: what a signer is loaded with
  CertRefs,    \* what certRef reads as
  ChainRefs,   \* what certChainRef reads as
  RootLists,   \* the lists of root references given to verifications
  Bodies,      \* texts of the unannotated part of manifests
  Notes        \* annotations of manifests, other than a bundle's

ASSUME SignerAssumption ==
  /\ MaxVersion \in Nat \ {0}
  /\ MaxTime \in Nat
  /\ FileKey \notin Nat
  /\ CertRefs \subseteq Refs /\ ChainRefs \subseteq Refs
  /\ <<>> \in CertRefs /\ <<>> \in ChainRefs
  /\ RootLists \subseteq Seq(Refs)
  /\ \A n \in Notes : DOMAIN n \cap BundleKeys = {}
  /\ \A r \in Requests : IsEnvironment(r.env)

Versions == 1 .. MaxVersion
NoRequest == [keyRef |-> "none", envMode |-> TRUE, auth |-> <<>>, env |-> <<>>,
              address |-> FALSE]
NoAuth == Failed("none")

VARIABLES
  now,        \* the clock
  latest,     \* Vault: latest_version of the key
  ed25519,    \* the type of the key: Ed25519, or one that signs digests
  req,        \* what NewSignerVerifier was called with, until it has been used
  pc,         \* "new", "key", "cert", then "ready" or "failed"
  source,     \* where the key is: "vault" or "file"; "none" before it is opened
  auth,       \* the authenticator
  pk,         \* the public key the signer has fetched
  sv,         \* SignerVerifier.Cert and Chain
  manifest,   \* the manifest
  fresh,      \* it is unchanged since its bundle was attached
  signedAt,   \* when that bundle was made
  signed,     \* all signatures made: by which key, over which text
  verdict     \* of the verification just made

signer == <<pc, source, auth, pk, sv>>
image  == <<manifest, fresh, signedAt>>
vars   == <<now, latest, ed25519, req, signer, image, signed, verdict>>

NoVerdict == [roots |-> <<>>, ok |-> FALSE]
NoCert    == [cert |-> <<>>, chain |-> <<>>]

Init ==
  /\ now = 0
  /\ latest = 1
  /\ ed25519 \in BOOLEAN
  /\ req \in Requests
  /\ pc = "new" /\ source = "none" /\ auth = NoAuth /\ pk = 0 /\ sv = NoCert
  /\ \E b \in Bodies, n \in Notes : manifest = [body |-> b, annotations |-> n]
  /\ fresh = FALSE /\ signedAt = 0
  /\ signed = {}
  /\ verdict = NoVerdict

-----------------------------------------------------------------------------
(* signerVerifierFromKeyRef: the scheme of the reference decides.           *)

(* hashivault://: newAuthenticator, then an address from the options or     *)
(* VAULT_ADDR.  The name of the key or the address may be one that nothing  *)
(* can be made of.                                                          *)
OpenVault ==
  /\ pc = "new"
  /\ req.keyRef = "hashivault"
  /\ auth' = NewAuthenticator(req.envMode, req.auth, req.env)
  /\ \/ /\ auth'.ok
        /\ req.address \/ Getenv(req.env, "VAULT_ADDR") # ""
        /\ pc' = "key" /\ source' = "vault"
     \/ pc' = "failed" /\ UNCHANGED source
  /\ req' = NoRequest
  /\ verdict' = NoVerdict
  /\ UNCHANGED <<now, latest, ed25519, pk, sv, image, signed>>

(* A URL, base64 or a file: loadKey.  Anything wrong with the key or its    *)
(* passphrase is an error.                                                  *)
LoadKey ==
  /\ pc = "new"
  /\ req.keyRef = "file"
  /\ \/ pc' = "key" /\ source' = "file"
     \/ pc' = "failed" /\ UNCHANGED source
  /\ req' = NoRequest
  /\ verdict' = NoVerdict
  /\ UNCHANGED <<now, latest, ed25519, auth, pk, sv, image, signed>>

(* No reference, or the schemes pkcs11:, k8s:// and gitlab://. *)
RejectKeyRef ==
  /\ pc = "new"
  /\ req.keyRef \in {"", "unsupported"}
  /\ pc' = "failed"
  /\ req' = NoRequest
  /\ verdict' = NoVerdict
  /\ UNCHANGED <<now, latest, ed25519, source, auth, pk, sv, image, signed>>

(* The key is there; without it the caller stops, and so does the model. *)
Opened == source # "none"

MutSigningKey == IF source = "file" THEN FileKey ELSE pk   \* what was fetched

(* The key that signs now. *)
SigningKey == IF source = "file" THEN FileKey ELSE latest

(* loadSignerVerifier's PublicKey, which also tells whether the key is      *)
(* Ed25519; the key in a file is known.                                     *)
FetchKey ==
  /\ pc = "key"
  /\ pk' = SigningKey
  /\ pc' = "cert"
  /\ verdict' = NoVerdict
  /\ UNCHANGED <<now, latest, ed25519, req, source, auth, sv, image, signed>>

(* NewSignerVerifier's own PublicKey, some time later, finds the cache      *)
(* expired.                                                                 *)
RefetchKey ==
  /\ pc = "cert"
  /\ pk' = SigningKey
  /\ verdict' = NoVerdict
  /\ UNCHANGED <<now, latest, ed25519, req, pc, source, auth, sv, image, signed>>

(* Login or the request fails, or the key does not exist. *)
FailFetch ==
  /\ pc \in {"key", "cert"}
  /\ source = "vault"
  /\ pc' = "failed" /\ pk' = 0
  /\ verdict' = NoVerdict
  /\ UNCHANGED <<now, latest, ed25519, req, source, auth, sv, image, signed>>

(* A chain wants a certificate; each has to pass its check. *)
Loads(cert, chain) ==
  /\ cert = <<>> => chain = <<>>
  /\ cert # <<>> => VerifyCert(pk, cert)
  /\ chain # <<>> => VerifyChain(cert, chain, now)

(* The rest of NewSignerVerifier. *)
LoadCert ==
  /\ pc = "cert"
  /\ \E cert \in CertRefs, chain \in ChainRefs :
       IF Loads(cert, chain)
       THEN pc' = "ready" /\ sv' = [cert |-> cert, chain |-> chain]
       ELSE pc' = "failed" /\ UNCHANGED sv
  /\ pk' = 0
  /\ verdict' = NoVerdict
  /\ UNCHANGED <<now, latest, ed25519, req, source, auth, image, signed>>

(* The owner loads the signer anew, with the same settings. *)
Reload ==
  /\ pc \in {"ready", "failed"}
  /\ Opened
  /\ pc' = "key" /\ sv' = NoCert
  /\ verdict' = NoVerdict
  /\ UNCHANGED <<now, latest, ed25519, req, source, auth, pk, image, signed>>

-----------------------------------------------------------------------------
MutDigests == TRUE           \* the hash function stays what the caller named

(* SignMessage signs a digest unless the key was found to be Ed25519. *)
Digests == ~ed25519

(* GetSignatureAnnotationsForImageManifest and signature.Sign, whose result *)
(* the owner puts into the manifest.  The signature is made before it is    *)
(* known that there is a certificate to go with it.                         *)
Sign ==
  /\ pc = "ready"
  /\ \E text \in Payloads(manifest) :
       LET signature == <<[by |-> SigningKey, digest |-> Digests, text |-> text]>>
           bundle == [signature |-> signature, cert |-> sv.cert, chain |-> sv.chain]
       IN /\ signed' = signed \cup {[by |-> SigningKey, text |-> text]}
          /\ IF sv.cert = <<>>
             THEN UNCHANGED image      \* ErrCertRequired
             ELSE /\ manifest' = [body |-> manifest.body, annotations |->
                       [k \in DOMAIN manifest.annotations \cup BundleKeys |->
                          IF k \in BundleKeys THEN ToMap(bundle)[k]
                                              ELSE manifest.annotations[k]]]
                  /\ fresh' = TRUE
                  /\ signedAt' = now
  /\ verdict' = NoVerdict
  /\ UNCHANGED <<now, latest, ed25519, req, signer>>

(* VerifyImageManifestSignature *)
Verify ==
  /\ Opened
  /\ verdict = NoVerdict
  /\ \E roots \in RootLists, text \in Payloads(manifest) :
       verdict' = [roots |-> roots,
                   ok |-> VerifyManifest(manifest, ed25519, text, roots, now)]
  /\ UNCHANGED <<now, latest, ed25519, req, signer, image, signed>>

(* The owner edits the manifest; annotations it does not know stay. *)
Edit ==
  /\ Opened
  /\ \E b \in Bodies, n \in Notes :
       manifest' = [body |-> b, annotations |->
         [k \in DOMAIN n \cup (DOMAIN manifest.annotations \cap BundleKeys) |->
            IF k \in DOMAIN n THEN n[k] ELSE manifest.annotations[k]]]
  /\ fresh' = (fresh /\ manifest' = manifest)
  /\ verdict' = NoVerdict
  /\ UNCHANGED <<now, latest, ed25519, req, signer, signedAt, signed>>

-----------------------------------------------------------------------------
Rotate ==
  /\ Opened
  /\ latest < MaxVersion
  /\ latest' = latest + 1
  /\ verdict' = NoVerdict
  /\ UNCHANGED <<now, ed25519, req, signer, image, signed>>

Tick ==
  /\ Opened
  /\ now < MaxTime
  /\ now' = now + 1
  /\ verdict' = NoVerdict
  /\ UNCHANGED <<latest, ed25519, req, signer, image, signed>>

Next ==
  \/ OpenVault \/ LoadKey \/ RejectKeyRef
  \/ FetchKey \/ RefetchKey \/ FailFetch \/ LoadCert \/ Reload
  \/ Sign \/ Verify \/ Edit
  \/ Rotate \/ Tick

Spec == Init /\ [][Next]_vars

-----------------------------------------------------------------------------
Keys == Versions \cup {FileKey}

(* Types, and what the constructor's steps leave in the signer: a key while *)
(* the certificate is looked at, a chain only with a certificate, and       *)
(* nothing loaded from a key that could not be opened.                      *)
TypeOK ==
  /\ now \in 0 .. MaxTime /\ signedAt \in 0 .. now
  /\ latest \in Versions /\ ed25519 \in BOOLEAN /\ fresh \in BOOLEAN
  /\ IF pc = "new" THEN req \in Requests ELSE req = NoRequest
  /\ pc \in {"new", "key", "cert", "ready", "failed"}
  /\ source \in {"none", "vault", "file"}
  /\ pk \in Keys \cup {0} /\ (pk # 0 <=> pc = "cert")
  /\ sv.cert \in CertRefs /\ sv.chain \in ChainRefs
  /\ Unreadable \notin {sv.cert, sv.chain}
  /\ sv.chain # <<>> => sv.cert # <<>>
  /\ sv # NoCert => pc = "ready"
  /\ pc \in {"key", "cert", "ready"} => Opened
  /\ \A s \in signed : s.by \in Keys
  /\ verdict.roots \in RootLists \cup {<<>>} /\ verdict.ok \in BOOLEAN

(* The bundle of a manifest that has one. *)
HasBundle == MapError(manifest.annotations) = ""
TheBundle == NewBundleFromMap(manifest.annotations)
TheCert   == TheBundle.cert[1]
TheSignature == TheBundle.signature[1]

(* The key of the certificate is the one that signed. *)
Matches == TheCert.key = TheSignature.by

(* A root reference that ends in the certificate c. *)
EndsIn(ref, c) == ref # Unreadable /\ ref # <<>> /\ Last(ref) = c

(* What was signed verifies, then and at any later time: if the manifest    *)
(* was not edited, no rotation came between certificate and signature, a    *)
(* chain is attached, and its root is asked for by a reference before which *)
(* all others can be read.  It does not matter what expired meanwhile, in   *)
(* which order a map yields the annotations, or how often the bundle was    *)
(* replaced by a new one (bundle.go:107-149, manifest.go:55-79,             *)
(* certificate.go:136-153).                                                 *)
SignedVerifies ==
  (verdict # NoVerdict /\ fresh /\ Matches /\ TheBundle.chain # <<>>) =>
    ((\E i \in DOMAIN verdict.roots :
        /\ \A j \in 1 .. i : verdict.roots[j] # Unreadable
        /\ EndsIn(verdict.roots[i], Last(TheBundle.chain)))
     => verdict.ok)

(* What is accepted was signed: a signature over just this payload was made *)
(* by the key of the attached certificate.  Editing cannot carry a bundle   *)
(* over to another payload; it can to other annotations that read the same  *)
(* when joined (manifest.go:74-78).                                         *)
AcceptedWasSigned ==
  verdict.ok => \E s \in signed : s.by = TheCert.key /\ s.text \in Payloads(manifest)

(* The certificates that lead from c upwards in a set of certificates. *)
Above(c, certs) ==
  {r \in certs : \A S \in SUBSET certs :
     (\A d \in certs : (\E e \in S \cup {c} : e.issuer = d.name) => d \in S)
       => r \in S}

(* What is accepted leads to a root the caller asked for, or is itself what *)
(* the caller asked for, and does not lead merely to one that came along in *)
(* the bundle -- unless the caller asked with an empty reference, which     *)
(* ConcatChain passes over and which so makes the bundle's own last         *)
(* certificate the root (certificate.go:51-75, bundle.go:128-149).          *)
Rooted ==
  verdict.ok =>
    \/ <<>> \in ToSet(verdict.roots)
    \/ \E ref \in ToSet(verdict.roots) \ {Unreadable} :
         \E r \in {TheCert} \cup Above(TheCert, ToSet(TheBundle.chain) \cup ToSet(ref)) :
           EndsIn(ref, r)

(* Readable root references: their order does not matter, nor what the      *)
(* others are (bundle.go:128-149).                                          *)
RootOrderIrrelevant ==
  (verdict # NoVerdict /\ Unreadable \notin ToSet(verdict.roots)) =>
    (verdict.ok <=> \E ref \in ToSet(verdict.roots), text \in Payloads(manifest) :
                      VerifyManifest(manifest, ed25519, text, <<ref>>, now))

(* The certificate is compared with the key once, when the signer is        *)
(* loaded.  All that can go wrong with it later, however the key is         *)
(* rotated, is that it is behind: it never names a key that did not exist,  *)
(* nor one of the other kind (signerverifier.go:55-58).                     *)
Behindness(key, by) ==
  \/ key = FileKey /\ by = FileKey
  \/ key # FileKey /\ by # FileKey /\ key =< by
RotationOnlyOutdates ==
  /\ (pc = "ready" /\ sv.cert # <<>>) => Behindness(sv.cert[1].key, SigningKey)
  /\ HasBundle => Behindness(TheCert.key, TheSignature.by)

(* A certificate is trusted for what was signed while it was valid: the     *)
(* comment in trustedCert, "WE CHECK THAT THE SIGNATURES WERE CREATED       *)
(* DURING THIS WINDOW" (certificate.go:140).                            *)
SignedInWindow ==
  (verdict.ok /\ fresh) => (TheCert.from =< signedAt /\ signedAt =< TheCert.to)

-----------------------------------------------------------------------------
Chosen == pc = "new" /\ pc' # "new" /\ req.keyRef = "hashivault"

(* Explicit options are never mixed with the environment, nor given up for  *)
(* it when they are ambiguous or incomplete: the signer would act under     *)
(* another identity.  Only what the GitHub runner sets is read from it      *)
(* (auth_factory.go:47-113).                                                *)
OptsIgnoreEnv ==
  [][(Chosen /\ ~req.envMode) =>
       /\ auth'.creds \cap (AuthVars \ RequestVars) = {}
       /\ auth'.path \notin AuthVars
       /\ ~Valid(req.auth) => ~auth'.ok]_vars

(* In env-mode a variable left over from another job never changes quietly  *)
(* who the signer is.  Whatever else is set, a variable makes no            *)
(* difference; or the signer acts on what it says, or fails over it, by a   *)
(* method no further down than without it; or it is set to nothing, and     *)
(* masks the fallback that would have been used (auth_factory.go:14-46,     *)
(* config_auth.go:7-13).                                                    *)
EnvPriority ==
  [][(Chosen /\ req.envMode) =>
       \A x \in DOMAIN req.env :
         LET without == FromEnv(Without(req.env, x))
             value == req.env[x]
         IN \/ auth' = without
            \/ /\ value # ""
               /\ Rank[auth'.method] =< Rank[without.method]
               /\ value \in auth'.creds \cup {auth'.path} \/ ~auth'.ok
            \/ /\ value = ""
               /\ x \in DOMAIN Fallback
               /\ Fallback[x] \in without.creds]_vars
=============================================================================

------------------------------ MODULE VaultKey -------------------------------
(***************************************************************************)
(* The transit key as pkg/signver/hashivault/client.go uses it: goroutines *)
(* that share a loaded SignerVerifier call PublicKey, CreateKey,           *)
(* SignMessage and VerifySignature while an operator rotates the key in    *)
(* Vault.  The public key is cached for the TTL of the Vault token         *)
(* (ttlcache with WithDisableTouchOnHit and a loader that runs outside the *)
(* cache's lock); signatures are made by Vault and never cached.           *)
(*                                                                         *)
(* A key is its version.  Ages replace a clock: they grow with Tick and    *)
(* stop at AgeCap, which is beyond every age that matters.  Login is       *)
(* VaultAuth's subject; here it is one of the ways a call fails.           *)
(***************************************************************************)
EXTENDS Integers

CONSTANTS
  Procs,        \* goroutines sharing the SignerVerifier
  MaxVersion,   \* bound on the versions rotation creates
  Asks,         \* the key versions callers ask for
  NoAsk,        \* no key-version option
  BadAsk,       \* an option that is no number, KeyVersionUsed's "vault:v3:" say
  EnvPrefix,    \* the version in VAULT_KEY_PREFIX, 0 when it is not set
  TTLs,         \* what auth.TokenTTL() may return
  FetchBound,   \* longest time from Vault's reading of the key to c.Set
  AgeCap        \* bound on ages

ASSUME BoundsAssumption ==
  /\ MaxVersion \in Nat \ {0}
  /\ Asks \subseteq 0 .. MaxVersion \cup {NoAsk, BadAsk}
  /\ EnvPrefix \in 0 .. MaxVersion
  /\ NoAsk # BadAsk /\ {NoAsk, BadAsk} \cap Nat = {}
  /\ TTLs \subseteq Nat
  /\ FetchBound \in Nat
  /\ AgeCap \in Nat
  /\ \A l \in TTLs : l + FetchBound < AgeCap

Versions == 1 .. MaxVersion

VARIABLES
  latest,       \* Vault: latest_version of the key
  oldFor,       \* oldFor[v], time since v ceased to be the latest version
  item,         \* the cache's item: version, TTL and time since c.Set
  pc,           \* pc[p], where p is in its call
  got,          \* got[p], the version p's fetch has read, 0 before
  gotFor,       \* time since it was read
  ret,          \* ret[p], the version p's last PublicKey returned, 0 before
  sig,          \* sig[p], the version that made p's last signature, 0 before
  wanted,       \* wanted[p], the version p asked for when it signed, 0 being none
  asked,        \* asked[p], the version p's VerifySignature was given
  accepted      \* accepted[p], and its outcome

vault  == <<latest, oldFor>>
verification == <<asked, accepted>>
locals == <<pc, got, gotFor, ret, sig, wanted, verification>>
vars   == <<vault, item, locals>>

(* loadSignerVerifier ends with a successful PublicKey: the key exists and  *)
(* its item is in the cache when the SignerVerifier is handed out.          *)
Init ==
  /\ latest = 1
  /\ oldFor = [v \in Versions |-> 0]
  /\ item \in [ver : {1}, ttl : TTLs, age : {0}]
  /\ pc = [p \in Procs |-> "idle"]
  /\ got = [p \in Procs |-> 0]
  /\ gotFor = [p \in Procs |-> 0]
  /\ ret = [p \in Procs |-> 0]
  /\ sig = [p \in Procs |-> 0]
  /\ wanted = [p \in Procs |-> NoAsk]
  /\ asked = [p \in Procs |-> NoAsk]
  /\ accepted = [p \in Procs |-> FALSE]

Goto(p, label) == pc' = [pc EXCEPT ![p] = label]

-----------------------------------------------------------------------------
(* public(): keyCache.Get with the loader.                                  *)

(* ttlcache serves an item up to and including its expiry; TTL 0 is no TTL. *)
Expired == item.ttl > 0 /\ item.age > item.ttl

MutHit(p) ==                 \* an item served is an item touched
  /\ pc[p] \in {"idle", "created"}
  /\ ~Expired
  /\ item' = [item EXCEPT !.age = 0]
  /\ ret' = [ret EXCEPT ![p] = item.ver]
  /\ Goto(p, "public")
  /\ UNCHANGED <<vault, got, gotFor, sig, wanted, verification>>

Hit(p) ==
  /\ pc[p] \in {"idle", "created"}
  /\ ~Expired
  /\ ret' = [ret EXCEPT ![p] = item.ver]
  /\ Goto(p, "public")
  /\ UNCHANGED <<vault, item, got, gotFor, sig, wanted, verification>>

Miss(p) ==
  /\ pc[p] \in {"idle", "created"}
  /\ Expired
  /\ Goto(p, "fetch")
  /\ UNCHANGED <<vault, item, got, gotFor, ret, sig, wanted, verification>>

(* fetchPublicKey: Vault reads the key's latest version. *)
ReadKey(p) ==
  /\ pc[p] = "fetch"
  /\ got' = [got EXCEPT ![p] = latest]
  /\ gotFor' = [gotFor EXCEPT ![p] = 0]
  /\ Goto(p, "fetched")
  /\ UNCHANGED <<vault, item, ret, sig, wanted, verification>>

MutFailFetch(p) ==           \* the loader swallows the error
  /\ pc[p] \in {"fetch", "fetched"}
  /\ got' = [got EXCEPT ![p] = 0]
  /\ gotFor' = [gotFor EXCEPT ![p] = 0]
  /\ item' = [ver |-> got[p], ttl |-> 0, age |-> 0]
  /\ Goto(p, "idle")
  /\ UNCHANGED <<vault, ret, sig, wanted, verification>>

(* fetchPublicKey fails: Login, the request, or an answer it cannot use.    *)
(* public() returns lerr, and nothing is cached.                            *)
FailFetch(p) ==
  /\ pc[p] \in {"fetch", "fetched"}
  /\ got' = [got EXCEPT ![p] = 0]
  /\ gotFor' = [gotFor EXCEPT ![p] = 0]
  /\ Goto(p, "idle")
  /\ UNCHANGED <<vault, item, ret, sig, wanted, verification>>

(* The loader: c.Set(key, pubkey, h.auth.TokenTTL()), whatever another      *)
(* goroutine has set in the meantime.                                       *)
StoreKey(p) ==
  /\ pc[p] = "fetched"
  /\ \E l \in TTLs : item' = [ver |-> got[p], ttl |-> l, age |-> 0]
  /\ ret' = [ret EXCEPT ![p] = got[p]]
  /\ got' = [got EXCEPT ![p] = 0]
  /\ gotFor' = [gotFor EXCEPT ![p] = 0]
  /\ Goto(p, "public")
  /\ UNCHANGED <<vault, sig, wanted, verification>>

(* createKey: the key exists already, so Vault changes nothing; then        *)
(* public().  A failure leaves p idle.                                      *)
CreateKey(p) ==
  /\ pc[p] = "idle"
  /\ Goto(p, "created")
  /\ UNCHANGED <<vault, item, got, gotFor, ret, sig, wanted, verification>>

-----------------------------------------------------------------------------
(* The version Vault signs with: the signer's own keyVersion is 0, which    *)
(* Vault takes for the latest, as it does a 0 the caller asks for.          *)
SigningVersion(ask) == IF ask \in {NoAsk, 0} THEN latest ELSE ask

(* sign(): an option that is no number is an error before the request, and  *)
(* Vault refuses a version the key does not have; either leaves p idle.     *)
Sign(p) ==
  /\ pc[p] = "idle"
  /\ \E ask \in Asks \ {BadAsk} :
       /\ SigningVersion(ask) =< latest
       /\ sig' = [sig EXCEPT ![p] = SigningVersion(ask)]
       /\ wanted' = [wanted EXCEPT ![p] = IF ask = 0 THEN NoAsk ELSE ask]
  /\ Goto(p, "signed")
  /\ UNCHANGED <<vault, item, got, gotFor, ret, verification>>

MutPrefixVersion(ask) ==     \* VAULT_KEY_PREFIX goes before the option
  CASE EnvPrefix # 0 -> EnvPrefix
    [] ask = NoAsk   -> 1
    [] OTHER         -> ask

(* determineVaultDataPrefix(keyVersion, 0): VAULT_KEY_PREFIX, then version  *)
(* 1, stand in for a missing option; 0 and what is no number are errors.    *)
PrefixVersion(ask) ==
  CASE ask = NoAsk /\ EnvPrefix = 0 -> 1
    [] ask = NoAsk                  -> EnvPrefix
    [] OTHER                        -> ask

Verifiable(ask) == ask \notin {0, BadAsk}

(* verify(): Vault checks the signature, the caller's own last one, against *)
(* the version in the prefix.                                               *)
Verify(p) ==
  /\ pc[p] = "idle"
  /\ sig[p] # 0
  /\ \E ask \in Asks :
       /\ asked' = [asked EXCEPT ![p] = ask]
       /\ accepted' = [accepted EXCEPT ![p] =
                         Verifiable(ask) /\ PrefixVersion(ask) = sig[p]]
  /\ Goto(p, "verified")
  /\ UNCHANGED <<vault, item, got, gotFor, ret, sig, wanted>>

(* A call returns its result. *)
Return(p) ==
  /\ pc[p] \in {"public", "signed", "verified"}
  /\ asked' = [asked EXCEPT ![p] = NoAsk]
  /\ accepted' = [accepted EXCEPT ![p] = FALSE]
  /\ ret' = [ret EXCEPT ![p] = 0]
  /\ Goto(p, "idle")
  /\ UNCHANGED <<vault, item, got, gotFor, sig, wanted>>

-----------------------------------------------------------------------------
(* An operator rotates the key. *)
Rotate ==
  /\ latest < MaxVersion
  /\ latest' = latest + 1
  /\ UNCHANGED <<oldFor, item, locals>>

Older(a) == IF a < AgeCap THEN a + 1 ELSE a

Tick ==
  /\ \A p \in Procs : pc[p] = "fetched" => gotFor[p] < FetchBound
  /\ oldFor' = [v \in Versions |-> IF v < latest THEN Older(oldFor[v]) ELSE 0]
  /\ item' = [item EXCEPT !.age = Older(item.age)]
  /\ gotFor' = [p \in Procs |-> IF pc[p] = "fetched" THEN gotFor[p] + 1 ELSE 0]
  /\ UNCHANGED <<latest, pc, got, ret, sig, wanted, verification>>

Step(p) ==
  \/ Hit(p) \/ Miss(p) \/ ReadKey(p) \/ FailFetch(p) \/ StoreKey(p)
  \/ CreateKey(p) \/ Sign(p) \/ Verify(p) \/ Return(p)

Next == Rotate \/ Tick \/ \E p \in Procs : Step(p)

Spec == Init /\ [][Next]_vars

(* Time passes, and a fetch Vault has answered ends.  Nothing else is       *)
(* promised: goroutines may stop calling, or call for ever.                 *)
EndFetch(p) == pc[p] = "fetched" /\ (StoreKey(p) \/ FailFetch(p))

FairSpec ==
  /\ Spec
  /\ WF_vars(Tick)
  /\ \A p \in Procs : WF_vars(EndFetch(p))
-----------------------------------------------------------------------------
TypeOK ==
  /\ latest \in Versions
  /\ oldFor \in [Versions -> Nat]
  /\ item \in [ver : Versions, ttl : TTLs, age : Nat]
  /\ pc \in [Procs -> {"idle", "created", "fetch", "fetched", "public",
                       "signed", "verified"}]
  /\ got \in [Procs -> Versions \cup {0}]
  /\ gotFor \in [Procs -> 0 .. FetchBound]
  /\ ret \in [Procs -> Versions \cup {0}]
  /\ sig \in [Procs -> Versions \cup {0}]
  /\ wanted \in [Procs -> Asks \cup {NoAsk}]
  /\ asked \in [Procs -> Asks \cup {NoAsk}]
  /\ accepted \in [Procs -> BOOLEAN]

Finishes(p, label) == pc[p] # label /\ pc'[p] = label

(* A public key PublicKey returns is the latest version, or ceased to be no *)
(* longer ago than a token's TTL and a fetch, whichever goroutine cached it *)
(* and however often it has been served; or it was cached under a token     *)
(* without expiry, whose TTL of 0 ttlcache takes for none.                  *)
StalenessBounded ==
  [][\A p \in Procs : Finishes(p, "public") =>
       \/ ret'[p] = latest
       \/ oldFor[ret'[p]] =< item'.ttl + FetchBound
       \/ item'.ttl = 0]_vars

(* After the last rotation the cache comes to serve the latest version or   *)
(* nothing, though it is never told of the rotation; only a key cached      *)
(* under a TTL of 0 may stay.                                               *)
CacheCatchesUp == <>[](Expired \/ item.ver = latest \/ item.ttl = 0)

(* A caller that keeps to one version is not hurt by rotations: what was     *)
(* signed with a version that was asked for is accepted when that version is *)
(* named again, by the option, which goes before VAULT_KEY_PREFIX, or, when  *)
(* there is none, by VAULT_KEY_PREFIX.                                       *)
NamedVersionVerifies ==
  \A p \in Procs :
    (pc[p] = "verified" /\ wanted[p] \in Versions
       /\ wanted[p] = (IF asked[p] = NoAsk THEN EnvPrefix ELSE asked[p]))
      => accepted[p]

(* "PublicKey returns the public key that can be used to verify signatures  *)
(* created by this signer" (signer.go:139): a caller that has signed, with  *)
(* no rotation since, gets the key of its signature.                        *)
PublicKeyMatchesSignature ==
  \A p \in Procs : pc[p] = "public" /\ sig[p] = latest => ret[p] = sig[p]

(* "It also can verify signatures (via a remote vall to the Vault           *)
(* instance)" (signer.go:69): VerifySignature accepts what SignMessage      *)
(* returned, no key version being asked for.                                *)
OwnSignatureVerifies ==
  \A p \in Procs : pc[p] = "verified" => accepted[p]
=============================================================================

-------------------------- MODULE SignerChainProofs --------------------------
(***************************************************************************)
(* Proofs about Signer: what is signed verifies, what is accepted leads to *)
(* a root that was asked for, and the order of the roots does not matter.  *)
(* The lemmas are about chains of certificates; of a payload it matters    *)
(* only that it is a function of the manifest without its bundle.          *)
(***************************************************************************)
EXTENDS SignerProofs

(* The certificates of a sequence but the last, as VerifyChain takes them.  *)
Inner(chain) == ToSet(SubSeq(chain, 1, Len(chain) - 1))

LEMMA InnerElements ==
  ASSUME NEW s \in Seq(Certs), s # <<>>
  PROVE  /\ Len(s) \in Nat /\ Len(s) > 0
         /\ Inner(s) = {s[i] : i \in 1 .. (Len(s) - 1)}
         /\ ToSet(s) = {s[i] : i \in 1 .. Len(s)}
  <1>1. Len(s) \in Nat /\ Len(s) > 0 /\ DOMAIN s = 1 .. Len(s)
    BY EmptySeq, LenProperties
  <1> DEFINE n == Len(s) - 1
             t == SubSeq(s, 1, n)
  <1>2. n \in Nat /\ \A i \in 1 .. n : s[i] \in Certs
    BY <1>1, ElementOfSeq
  <1>3. Len(t) = n /\ t \in Seq(Certs) /\ \A i \in 1 .. n : t[i] = s[i]
    <2>1. 1 \in Int /\ n \in Int /\ n - 1 + 1 = n /\ \A i \in 1 .. n : 1 + i - 1 = i
      BY <1>2
    <2>2. /\ t \in Seq(Certs) /\ Len(t) = IF 1 <= n THEN n - 1 + 1 ELSE 0
          /\ \A i \in 1 .. (n - 1 + 1) : t[i] = s[1 + i - 1]
      BY ONLY <1>2, <2>1, SubSeqProperties
    <2>3. QED
      BY <1>2, <2>1, <2>2
  <1>4. DOMAIN t = 1 .. n
    BY <1>3, LenProperties
  <1>5. Inner(s) = {s[i] : i \in 1 .. n}
    BY <1>3, <1>4 DEF Inner, ToSet
  <1>6. QED
    BY <1>1, <1>5 DEF ToSet

(* A chain with a root reference behind it.                                 *)
LEMMA ConcatParts ==
  ASSUME NEW chain \in Seq(Certs), NEW ref \in Seq(Certs), ref # <<>>
  PROVE  /\ chain \o ref \in Seq(Certs) /\ chain \o ref # <<>>
         /\ (chain \o ref)[Len(chain \o ref)] = Last(ref)
         /\ ToSet(chain \o ref) = ToSet(chain) \cup ToSet(ref)
         /\ ToSet(chain) \subseteq Inner(chain \o ref)
         /\ Inner(chain \o ref) \subseteq ToSet(chain) \cup ToSet(ref)
         /\ Last(ref) \in ToSet(ref)
  <1> DEFINE s == chain \o ref
             m == Len(chain)
             n == Len(ref)
  <1>1. m \in Nat /\ n \in Nat /\ n > 0 /\ DOMAIN chain = 1 .. m /\ DOMAIN ref = 1 .. n
    BY EmptySeq, LenProperties
  <1>2. /\ s \in Seq(Certs) /\ Len(s) = m + n
        /\ \A i \in 1 .. (m + n) : s[i] = IF i =< m THEN chain[i] ELSE ref[i - m]
    BY ConcatProperties
  <1>3. DOMAIN s = 1 .. (m + n) /\ m + n \in Nat /\ m + n > 0
    BY <1>1, <1>2, LenProperties
  <1>4. s # <<>>
    BY <1>2, <1>3, EmptySeq
  <1>5. m + n \in 1 .. (m + n) /\ ~(m + n =< m) /\ (m + n) - m = n
    BY <1>1
  <1>6. s[Len(s)] = Last(ref)
    BY <1>2, <1>5 DEF Last
  <1>7. Last(ref) \in ToSet(ref)
    BY <1>1 DEF Last, ToSet
  <1>8. \A i \in 1 .. m : i \in 1 .. (m + n - 1) /\ s[i] = chain[i]
    BY <1>1, <1>2
  <1>9. \A i \in 1 .. n : m + i \in 1 .. (m + n) /\ s[m + i] = ref[i]
    BY <1>1, <1>2
  <1>10. \A i \in 1 .. (m + n) : i \in 1 .. m \/ (i - m \in 1 .. n /\ s[i] = ref[i - m])
    BY <1>1, <1>2
  <1>11. ToSet(s) = ToSet(chain) \cup ToSet(ref)
    <2>1. ToSet(s) \subseteq ToSet(chain) \cup ToSet(ref)
      BY <1>1, <1>3, <1>8, <1>10 DEF ToSet
    <2>2. ToSet(chain) \subseteq ToSet(s)
      BY <1>1, <1>2, <1>3 DEF ToSet
    <2>3. ToSet(ref) \subseteq ToSet(s)
      BY <1>1, <1>3, <1>9 DEF ToSet
    <2>4. QED
      BY <2>1, <2>2, <2>3
  <1>12. Inner(s) = {s[i] : i \in 1 .. (m + n - 1)} /\ ToSet(s) = {s[i] : i \in 1 .. (m + n)}
    <2>1. Inner(s) = {s[i] : i \in 1 .. (Len(s) - 1)} /\ ToSet(s) = {s[i] : i \in 1 .. Len(s)}
      BY <1>2, <1>4, InnerElements
    <2>2. QED
      BY <1>2, <2>1
  <1>13. 1 .. (m + n - 1) \subseteq 1 .. (m + n)
    BY <1>1
  <1>14. Inner(s) \subseteq ToSet(s)
    BY <1>12, <1>13
  <1>15. ToSet(chain) \subseteq Inner(s)
    BY <1>1, <1>8, <1>12 DEF ToSet
  <1>16. QED
    BY <1>2, <1>4, <1>6, <1>7, <1>11, <1>14, <1>15

-----------------------------------------------------------------------------
(* More intermediates never hurt.                                           *)
LEMMA LeadsMonotonic ==
  ASSUME NEW leaf, NEW root, NEW I, NEW J, NEW t, I \subseteq J,
         LeadsToRoot(leaf, root, I, t)
  PROVE  LeadsToRoot(leaf, root, J, t)
  <1> DEFINE usable(K) == {c \in K \cup {root} : c.from =< t /\ t =< c.to}
             Closed(K, S) == \A c \in usable(K) :
                               (\E d \in S \cup {leaf} : d.issuer = c.name) => c \in S
  <1>1. /\ leaf.from =< t /\ t =< leaf.to
        /\ root \in usable(I)
        /\ root = leaf \/ \A S \in SUBSET usable(I) : Closed(I, S) => root \in S
    BY DEF LeadsToRoot
  <1>2. usable(I) \subseteq usable(J)
    OBVIOUS
  <1>3. ASSUME root # leaf, NEW S \in SUBSET usable(J), Closed(J, S)
        PROVE  root \in S
    <2> DEFINE T == S \cap usable(I)
    <2>1. Closed(I, T)
      BY <1>2, <1>3
    <2>2. QED
      BY <1>1, <1>3, <2>1
  <1>4. QED
    BY <1>1, <1>2, <1>3 DEF LeadsToRoot

(* The root a path leads to is above the leaf in every set of certificates  *)
(* that holds the path.                                                     *)
LEMMA LeadsAbove ==
  ASSUME NEW leaf, NEW root, NEW I, NEW certs, NEW t,
         I \subseteq certs, root \in certs, root # leaf,
         LeadsToRoot(leaf, root, I, t)
  PROVE  root \in Above(leaf, certs)
  <1> DEFINE usable == {c \in I \cup {root} : c.from =< t /\ t =< c.to}
             Closed(S) == \A c \in usable :
                            (\E d \in S \cup {leaf} : d.issuer = c.name) => c \in S
  <1>1. \A S \in SUBSET usable : Closed(S) => root \in S
    BY DEF LeadsToRoot
  <1>2. usable \subseteq certs
    OBVIOUS
  <1>3. ASSUME NEW S \in SUBSET certs,
               \A d \in certs : (\E e \in S \cup {leaf} : e.issuer = d.name) => d \in S
        PROVE  root \in S
    <2> DEFINE T == S \cap usable
    <2>1. Closed(T)
      BY <1>2, <1>3
    <2>2. QED
      BY <1>1, <2>1
  <1>4. QED
    BY <1>3 DEF Above

-----------------------------------------------------------------------------
(* What is known of the bundle and of the signer: the chain in the manifest *)
(* can be read, a loaded chain has been verified, and a manifest that was   *)
(* not edited carries a signature over its payload and a verified chain.    *)
ChainReadable ==
  CHAIN \in DOMAIN manifest.annotations => manifest.annotations[CHAIN] \in Seq(Certs)

LoadedChain ==
  (pc = "ready" /\ sv.chain # <<>>) => VerifyChain(sv.cert, sv.chain, now)

FreshBundle ==
  LET notes == manifest.annotations
  IN  fresh =>
        /\ BundleKeys \subseteq DOMAIN notes
        /\ notes[CHAIN] # <<>> => VerifyChain(notes[CERT], notes[CHAIN], now)
        /\ \E by \in Keys, text \in Payloads(manifest) :
             notes[SIGNATURE] = <<[by |-> by, digest |-> ~ed25519, text |-> text]>>

BundleInv == TypeOK /\ ChainReadable /\ LoadedChain /\ FreshBundle

LEMMA RootsReadable ==
  ASSUME NEW roots \in RootLists
  PROVE  /\ Len(roots) \in Nat /\ DOMAIN roots = 1 .. Len(roots)
         /\ \A i \in DOMAIN roots : roots[i] \in Refs
  <1>1. roots \in Seq(Refs)
    BY SignerAssumption
  <1>2. QED
    BY <1>1, LenProperties, ElementOfSeq

LEMMA ConcatReadable ==
  ASSUME NEW chain \in Seq(Certs), NEW ref \in Refs
  PROVE  /\ ref # Unreadable => /\ ref \in Seq(Certs)
                                /\ ConcatChain(chain, ref) = chain \o ref
                                /\ ConcatChain(chain, ref) # Unreadable
         /\ ref = Unreadable => ConcatChain(chain, ref) = Unreadable
  <1>1. chain # Unreadable
    BY UnreadableAssumption
  <1>2. ASSUME ref # Unreadable
        PROVE  ref \in Seq(Certs) /\ chain \o ref # Unreadable
    <2>1. ref \in Seq(Certs)
      BY <1>2 DEF Refs
    <2>2. QED
      BY <2>1, ConcatProperties, UnreadableAssumption
  <1>3. QED
    BY <1>1, <1>2 DEF ConcatChain

(* The time of the verification makes no difference.                        *)
LEMMA ChainTimeless ==
  ASSUME NEW cert, NEW chain, NEW t, NEW u, VerifyChain(cert, chain, t)
  PROVE  VerifyChain(cert, chain, u)
  BY DEF VerifyChain, CurrentTime

LEMMA TheChainReadable ==
  ASSUME ChainReadable PROVE TheBundle.chain \in Seq(Certs)
  BY EmptySeq DEF ChainReadable, TheBundle, NewBundleFromMap

(* A payload is a function of the manifest without its bundle.              *)
LEMMA PayloadUnique ==
  ASSUME NEW m, NEW t \in Payloads(m), NEW u \in Payloads(m) PROVE t = u
  BY DEF Payloads, Orders

LEMMA PayloadSame ==
  ASSUME NEW m, NEW n, m.body = n.body, SignedNotes(m) = SignedNotes(n)
  PROVE  Payloads(m) = Payloads(n)
  BY DEF Payloads

-----------------------------------------------------------------------------
(* One root that is found.                                                  *)
LEMMA AnyRootFound ==
  ASSUME NEW b, b.chain \in Seq(Certs), NEW roots \in RootLists, NEW t
  PROVE  AnyRoot(b, roots, t) <=>
           \E i \in DOMAIN roots :
             /\ \A j \in 1 .. i : roots[j] # Unreadable
             /\ VerifyChain(b.cert, b.chain \o roots[i], t)
  <1>1. \A i \in DOMAIN roots : i \in 1 .. i /\ \A j \in 1 .. i : j \in DOMAIN roots
    BY RootsReadable
  <1>2. \A j \in DOMAIN roots :
          /\ ConcatChain(b.chain, roots[j]) # Unreadable <=> roots[j] # Unreadable
          /\ roots[j] # Unreadable => ConcatChain(b.chain, roots[j]) = b.chain \o roots[j]
    BY RootsReadable, ConcatReadable
  <1>3. QED
    BY <1>1, <1>2 DEF AnyRoot

(* An accepted chain leads to a root that was named, unless an empty one    *)
(* was.                                                                     *)
LEMMA VerifiedIsRooted ==
  ASSUME ChainReadable, NEW roots \in RootLists, AnyRoot(TheBundle, roots, now)
  PROVE  \/ <<>> \in ToSet(roots)
         \/ \E ref \in ToSet(roots) \ {Unreadable} :
              \E r \in {TheCert} \cup Above(TheCert, ToSet(TheBundle.chain) \cup ToSet(ref)) :
                EndsIn(ref, r)
  <1> DEFINE chain == TheBundle.chain
  <1>1. chain \in Seq(Certs)
    BY TheChainReadable
  <1>2. PICK i \in DOMAIN roots :
          /\ \A j \in 1 .. i : roots[j] # Unreadable
          /\ VerifyChain(TheBundle.cert, chain \o roots[i], now)
    BY <1>1, AnyRootFound
  <1> DEFINE ref == roots[i]
             certs == ToSet(chain) \cup ToSet(ref)
             s == chain \o ref
  <1>3. i \in 1 .. i /\ ref \in Refs /\ ref \in ToSet(roots)
    BY RootsReadable DEF ToSet
  <1>4. ref # Unreadable /\ ref \in Seq(Certs)
    BY <1>1, <1>2, <1>3, ConcatReadable
  <1>5. CASE ref = <<>>
    BY <1>3, <1>5
  <1>6. CASE ref # <<>>
    <2>1. /\ s[Len(s)] = Last(ref) /\ Inner(s) \subseteq certs /\ Last(ref) \in certs
      BY <1>1, <1>4, <1>6, ConcatParts
    <2>2. PICK t : LeadsToRoot(TheCert, Last(ref), Inner(s), t)
      BY <1>2, <2>1 DEF VerifyChain, TheCert, Inner
    <2>3. Last(ref) \in {TheCert} \cup Above(TheCert, certs)
      BY <2>1, <2>2, LeadsAbove
    <2>4. QED
      BY <1>3, <1>4, <1>6, <2>3 DEF EndsIn
  <1>7. QED
    BY <1>5, <1>6

(* With readable roots, a list is as good as its best member.               *)
LEMMA OrderIrrelevant ==
  ASSUME ChainReadable, NEW roots \in RootLists, Unreadable \notin ToSet(roots),
         NEW text \in Payloads(manifest)
  PROVE  VerifyManifest(manifest, ed25519, text, roots, now) <=>
           \E ref \in ToSet(roots), t \in Payloads(manifest) :
             VerifyManifest(manifest, ed25519, t, <<ref>>, now)
  <1> DEFINE b == TheBundle
             Holds(ref) == VerifyChain(b.cert, b.chain \o ref, now)
  <1>1. b.chain \in Seq(Certs)
    BY TheChainReadable
  <1>2. \A j \in DOMAIN roots : roots[j] # Unreadable /\ roots[j] \in Refs
    BY RootsReadable DEF ToSet
  <1>3. \A i \in DOMAIN roots : \A j \in 1 .. i : j \in DOMAIN roots
    BY RootsReadable
  <1>4. AnyRoot(b, roots, now) <=> \E ref \in ToSet(roots) : Holds(ref)
    <2>1. AnyRoot(b, roots, now) <=> \E i \in DOMAIN roots : Holds(roots[i])
      BY <1>1, <1>2, <1>3, AnyRootFound
    <2>2. QED
      BY <2>1 DEF ToSet
  <1>5. ASSUME NEW ref \in ToSet(roots) PROVE AnyRoot(b, <<ref>>, now) <=> Holds(ref)
    <2>1. ref \in Refs /\ ref # Unreadable
      BY <1>2 DEF ToSet
    <2>2. ConcatChain(b.chain, ref) = b.chain \o ref /\ b.chain \o ref # Unreadable
      BY <1>1, <2>1, ConcatReadable
    <2>3. DOMAIN <<ref>> = {1} /\ <<ref>>[1] = ref /\ 1 .. 1 = {1}
      OBVIOUS
    <2>4. QED
      BY <2>2, <2>3 DEF AnyRoot
  <1>6. \A t \in Payloads(manifest) : t = text
    BY PayloadUnique
  <1>7. ASSUME NEW rs
        PROVE  VerifyManifest(manifest, ed25519, text, rs, now) <=>
                 /\ MapError(manifest.annotations) = ""
                 /\ AnyRoot(b, rs, now)
                 /\ VerifySignature(b.signature, b.cert[1].key, ed25519, text)
    BY DEF VerifyManifest, VerifyBundle, TheBundle
  <1>8. QED
    BY <1>4, <1>5, <1>6, <1>7

(* What was signed and not edited verifies with the root of its chain.      *)
LEMMA FreshVerifies ==
  ASSUME ChainReadable, FreshBundle, fresh, Matches, TheBundle.chain # <<>>,
         NEW roots \in RootLists, NEW text \in Payloads(manifest),
         NEW i \in DOMAIN roots, \A j \in 1 .. i : roots[j] # Unreadable,
         EndsIn(roots[i], Last(TheBundle.chain))
  PROVE  VerifyManifest(manifest, ed25519, text, roots, now)
  <1> DEFINE b == TheBundle
             notes == manifest.annotations
             ref == roots[i]
             s == b.chain \o ref
             root == Last(b.chain)
  <1>1. /\ SIGNATURE \in DOMAIN notes /\ CERT \in DOMAIN notes /\ CHAIN \in DOMAIN notes
        /\ VerifyChain(b.cert, b.chain, now)
        /\ b.signature = notes[SIGNATURE] /\ b.cert = notes[CERT]
    BY DEF FreshBundle, BundleKeys, TheBundle, NewBundleFromMap
  <1>2. PICK by \in Keys, t \in Payloads(manifest) :
          notes[SIGNATURE] = <<[by |-> by, digest |-> ~ed25519, text |-> t]>>
    BY DEF FreshBundle
  <1>3. t = text
    BY PayloadUnique
  <1>4. by = TheCert.key
    <2>1. TheSignature = [by |-> by, digest |-> ~ed25519, text |-> t]
      BY <1>1, <1>2 DEF TheSignature
    <2>2. QED
      BY <2>1 DEF Matches
  <1>5. VerifySignature(b.signature, b.cert[1].key, ed25519, text)
    BY <1>1, <1>2, <1>3, <1>4 DEF VerifySignature, TheCert
  <1>6. MapError(notes) = ""
    BY <1>1 DEF MapError
  <1>7. /\ b.chain \in Seq(Certs) /\ b.chain # <<>>
        /\ ref \in Seq(Certs) /\ ref # <<>> /\ Last(ref) = root
    <2>1. b.chain \in Seq(Certs) /\ ref \in Refs /\ ref # Unreadable
      BY TheChainReadable, RootsReadable DEF EndsIn
    <2>2. QED
      BY <2>1, ConcatReadable DEF EndsIn
  <1>8. VerifyChain(b.cert, s, now)
    <2>1. /\ s \in Seq(Certs) /\ s # <<>> /\ s[Len(s)] = root
          /\ ToSet(b.chain) \subseteq Inner(s)
      BY <1>7, ConcatParts
    <2>2. Inner(b.chain) \subseteq ToSet(b.chain)
      <3> DEFINE n == Len(b.chain)
      <3>1. /\ n \in Nat /\ n > 0
            /\ Inner(b.chain) = {b.chain[k] : k \in 1 .. (n - 1)}
            /\ ToSet(b.chain) = {b.chain[k] : k \in 1 .. n}
        BY <1>7, InnerElements
      <3>2. 1 .. (n - 1) \subseteq 1 .. n
        BY <3>1
      <3>3. QED
        BY <3>1, <3>2
    <2>3. PICK u : u = CurrentTime(b.cert[1], now)
      OBVIOUS
    <2>4. LeadsToRoot(b.cert[1], root, Inner(b.chain), u)
      BY <1>1, <2>3 DEF VerifyChain, Inner, Last
    <2>5. LeadsToRoot(b.cert[1], root, Inner(s), u)
      BY <2>1, <2>2, <2>4, LeadsMonotonic
    <2>6. s # Unreadable
      BY <2>1, UnreadableAssumption
    <2>7. QED
      BY <1>1, <2>1, <2>3, <2>5, <2>6 DEF VerifyChain, Inner
  <1>9. AnyRoot(b, roots, now)
    BY <1>7, <1>8, AnyRootFound
  <1>10. QED
    BY <1>5, <1>6, <1>9 DEF VerifyManifest, VerifyBundle, TheBundle

-----------------------------------------------------------------------------
LEMMA BundleInit == Init => BundleInv
  <1> SUFFICES ASSUME Init PROVE BundleInv
    OBVIOUS
  <1>1. CHAIN \notin DOMAIN manifest.annotations
    <2>1. PICK b \in Bodies, n \in Notes : manifest = [body |-> b, annotations |-> n]
      BY DEF Init
    <2>2. DOMAIN n \cap BundleKeys = {}
      BY SignerAssumption
    <2>3. QED
      BY <2>1, <2>2 DEF BundleKeys
  <1>2. pc = "new" /\ fresh = FALSE
    BY DEF Init
  <1>3. QED
    BY <1>1, <1>2, TypeInit DEF BundleInv, ChainReadable, LoadedChain, FreshBundle

(* Signing puts the loaded chain and a signature over the payload into the  *)
(* manifest; the payload stays what it was.                                 *)
LEMMA BundleSign ==
  ASSUME BundleInv, Sign, sv.cert # <<>>
  PROVE  ChainReadable' /\ FreshBundle'
  <1>1. PICK text \in Payloads(manifest) :
          LET signature == <<[by |-> SigningKey, digest |-> Digests, text |-> text]>>
              bundle == [signature |-> signature, cert |-> sv.cert, chain |-> sv.chain]
          IN manifest' = [body |-> manifest.body, annotations |->
               [k \in DOMAIN manifest.annotations \cup BundleKeys |->
                  IF k \in BundleKeys THEN ToMap(bundle)[k]
                                      ELSE manifest.annotations[k]]]
    BY DEF Sign
  <1> DEFINE signature == <<[by |-> SigningKey, digest |-> Digests, text |-> text]>>
             bundle == [signature |-> signature, cert |-> sv.cert, chain |-> sv.chain]
             old == manifest.annotations
             new == [k \in DOMAIN old \cup BundleKeys |->
                       IF k \in BundleKeys THEN ToMap(bundle)[k] ELSE old[k]]
  <1>2. manifest'.body = manifest.body /\ manifest'.annotations = new
    BY <1>1
  <1>3. BundleKeys \subseteq DOMAIN new
    OBVIOUS
  <1>4. new[SIGNATURE] = signature /\ new[CERT] = sv.cert /\ new[CHAIN] = sv.chain
    <2>1. SIGNATURE \in BundleKeys /\ CERT \in BundleKeys /\ CHAIN \in BundleKeys
      BY DEF BundleKeys
    <2>2. /\ ToMap(bundle)[SIGNATURE] = signature
          /\ ToMap(bundle)[CERT] = sv.cert
          /\ ToMap(bundle)[CHAIN] = sv.chain
      BY <2>1, KeysDiffer DEF ToMap
    <2>3. QED
      BY <2>1, <2>2
  <1>5. Payloads(manifest') = Payloads(manifest)
    <2>1. SignedNotes(manifest') = SignedNotes(manifest)
      <3>1. DOMAIN new \ BundleKeys = DOMAIN old \ BundleKeys
        OBVIOUS
      <3>2. \A k \in DOMAIN old \ BundleKeys : new[k] = old[k]
        OBVIOUS
      <3>3. [k \in DOMAIN new \ BundleKeys |-> new[k]] = [k \in DOMAIN old \ BundleKeys |-> old[k]]
        BY <3>1, <3>2
      <3>4. QED
        BY <1>2, <3>3 DEF SignedNotes
    <2>2. QED
      BY <1>2, <2>1, PayloadSame
  <1>6. sv.chain \in Seq(Certs)
    BY SignerAssumption DEF BundleInv, TypeOK, Refs
  <1>7. ChainReadable'
    BY <1>2, <1>4, <1>6 DEF ChainReadable
  <1>8. sv.chain # <<>> => VerifyChain(sv.cert, sv.chain, now)
    BY DEF BundleInv, LoadedChain, Sign
  <1>9. now' = now /\ ed25519' = ed25519 /\ Digests = ~ed25519
    BY DEF Sign, Digests
  <1>10. SigningKey \in Keys
    BY SigningKeyType DEF BundleInv
  <1>11. \E by \in Keys, t \in Payloads(manifest') :
           new[SIGNATURE] = <<[by |-> by, digest |-> ~ed25519', text |-> t]>>
    BY <1>4, <1>5, <1>9, <1>10
  <1>12. QED
    BY <1>2, <1>3, <1>4, <1>7, <1>8, <1>9, <1>11 DEF FreshBundle

(* Editing keeps the bundle, and freshness only if nothing changed.         *)
LEMMA BundleEdit ==
  ASSUME BundleInv, Edit PROVE ChainReadable' /\ FreshBundle'
  <1>1. PICK b \in Bodies, n \in Notes :
          manifest' = [body |-> b, annotations |->
            [k \in DOMAIN n \cup (DOMAIN manifest.annotations \cap BundleKeys) |->
               IF k \in DOMAIN n THEN n[k] ELSE manifest.annotations[k]]]
    BY DEF Edit
  <1>2. CHAIN \notin DOMAIN n
    BY SignerAssumption DEF BundleKeys
  <1>3. CHAIN \in DOMAIN manifest'.annotations
          => /\ CHAIN \in DOMAIN manifest.annotations
             /\ manifest'.annotations[CHAIN] = manifest.annotations[CHAIN]
    BY <1>1, <1>2
  <1>4. ChainReadable'
    BY <1>3 DEF BundleInv, ChainReadable
  <1>5. fresh' => fresh /\ manifest' = manifest
    BY DEF Edit
  <1>6. UNCHANGED <<now, ed25519>>
    BY DEF Edit
  <1>7. FreshBundle'
    BY <1>5, <1>6 DEF BundleInv, FreshBundle
  <1>8. QED
    BY <1>4, <1>7

LEMMA BundleNext == BundleInv /\ [Next]_vars => BundleInv'
  <1> SUFFICES ASSUME BundleInv, [Next]_vars PROVE BundleInv'
    OBVIOUS
  <1>1. TypeOK'
    BY TypeNext DEF BundleInv
  <1>2. ASSUME UNCHANGED <<ed25519, manifest, fresh>> PROVE ChainReadable' /\ FreshBundle'
    BY <1>2, ChainTimeless DEF BundleInv, ChainReadable, FreshBundle
  <1>3. ASSUME UNCHANGED <<pc, sv>> PROVE LoadedChain'
    BY <1>3, ChainTimeless DEF BundleInv, LoadedChain
  <1>4. CASE OpenVault \/ LoadKey \/ RejectKeyRef \/ FetchKey \/ RefetchKey \/ FailFetch \/ Reload
    <2>1. UNCHANGED <<ed25519, manifest, fresh>>
      BY <1>4 DEF OpenVault, LoadKey, RejectKeyRef, FetchKey, RefetchKey, FailFetch, Reload, image
    <2>2. pc' # "ready"
      BY <1>4 DEF OpenVault, LoadKey, RejectKeyRef, FetchKey, RefetchKey, FailFetch, Reload
    <2>3. QED
      BY <1>1, <1>2, <2>1, <2>2 DEF BundleInv, LoadedChain
  <1>5. CASE LoadCert
    <2>1. UNCHANGED <<now, ed25519, manifest, fresh>> /\ pc # "ready"
      BY <1>5 DEF LoadCert, image
    <2>2. PICK cert \in CertRefs, chain \in ChainRefs :
            IF Loads(cert, chain)
            THEN pc' = "ready" /\ sv' = [cert |-> cert, chain |-> chain]
            ELSE pc' = "failed" /\ UNCHANGED sv
      BY <1>5 DEF LoadCert
    <2>3. LoadedChain'
      BY <2>1, <2>2 DEF Loads, LoadedChain
    <2>4. QED
      BY <1>1, <1>2, <2>1, <2>3 DEF BundleInv
  <1>6. CASE Sign
    <2>1. UNCHANGED <<pc, sv, ed25519>>
      BY <1>6 DEF Sign, signer
    <2>2. CASE sv.cert = <<>>
      <3>1. UNCHANGED <<manifest, fresh>>
        BY <1>6, <2>2 DEF Sign, image
      <3>2. QED
        BY <1>1, <1>2, <1>3, <2>1, <3>1 DEF BundleInv
    <2>3. CASE sv.cert # <<>>
      BY <1>1, <1>3, <1>6, <2>1, <2>3, BundleSign DEF BundleInv
    <2>4. QED
      BY <2>2, <2>3
  <1>7. CASE Edit
    <2>1. UNCHANGED <<pc, sv>>
      BY <1>7 DEF Edit, signer
    <2>2. QED
      BY <1>1, <1>3, <1>7, <2>1, BundleEdit DEF BundleInv
  <1>8. CASE Verify \/ Rotate \/ Tick \/ UNCHANGED vars
    <2>1. UNCHANGED <<pc, sv, ed25519, manifest, fresh>>
      BY <1>8 DEF Verify, Rotate, Tick, vars, signer, image
    <2>2. QED
      BY <1>1, <1>2, <1>3, <2>1 DEF BundleInv
  <1>9. QED
    BY <1>4, <1>5, <1>6, <1>7, <1>8 DEF Next

-----------------------------------------------------------------------------
(* A verdict says what VerifyManifest says of the manifest as it is.        *)
VerdictOf ==
  verdict # NoVerdict =>
    /\ verdict.roots \in RootLists
    /\ \E text \in Payloads(manifest) :
         verdict.ok <=> VerifyManifest(manifest, ed25519, text, verdict.roots, now)

VerdictInv == BundleInv /\ VerdictOf

LEMMA VerdictInit == Init => VerdictInv
  BY BundleInit DEF Init, VerdictInv, VerdictOf

LEMMA VerdictNext == VerdictInv /\ [Next]_vars => VerdictInv'
  <1> SUFFICES ASSUME VerdictInv, [Next]_vars PROVE VerdictInv'
    OBVIOUS
  <1>1. BundleInv'
    BY BundleNext DEF VerdictInv
  <1>2. CASE Verify
    <2>1. PICK roots \in RootLists, text \in Payloads(manifest) :
            verdict' = [roots |-> roots,
                        ok |-> VerifyManifest(manifest, ed25519, text, roots, now)]
      BY <1>2 DEF Verify
    <2>2. UNCHANGED <<now, ed25519, manifest>>
      BY <1>2 DEF Verify, image
    <2>3. VerdictOf'
      BY <2>1, <2>2 DEF VerdictOf
    <2>4. QED
      BY <1>1, <2>3 DEF VerdictInv
  <1>3. CASE Next /\ ~Verify
    <2>1. verdict' = NoVerdict
      BY <1>3 DEF Next, OpenVault, LoadKey, RejectKeyRef, FetchKey, RefetchKey,
         FailFetch, LoadCert, Reload, Sign, Edit, Rotate, Tick
    <2>2. QED
      BY <1>1, <2>1 DEF VerdictInv, VerdictOf
  <1>4. CASE UNCHANGED vars
    <2>1. UNCHANGED <<now, ed25519, manifest, verdict>>
      BY <1>4 DEF vars, image
    <2>2. QED
      BY <1>1, <2>1 DEF VerdictInv, VerdictOf
  <1>5. QED
    BY <1>2, <1>3, <1>4

(* What was signed and not edited since verifies, at any later time, by     *)
(* every list of roots that reaches the root of its chain, whatever the     *)
(* certificates and however often it was signed before (bundle.go:90-149,   *)
(* manifest.go:18-79).                                                      *)
THEOREM SignedTheorem == Spec => []SignedVerifies
  <1>1. VerdictInv => SignedVerifies
    BY FreshVerifies DEF VerdictInv, VerdictOf, BundleInv, SignedVerifies
  <1>2. QED
    BY <1>1, VerdictInit, VerdictNext, PTL DEF Spec

(* What is accepted leads to a root that was asked for, for all chains and  *)
(* roots, unless an empty root was among them (certificate.go:51-109,       *)
(* bundle.go:128-149).                                                      *)
THEOREM RootedTheorem == Spec => []Rooted
  <1>1. VerdictInv => Rooted
    <2> SUFFICES ASSUME VerdictInv, verdict.ok PROVE Rooted
      BY DEF Rooted
    <2>1. verdict # NoVerdict
      BY DEF NoVerdict
    <2>2. verdict.roots \in RootLists /\ AnyRoot(TheBundle, verdict.roots, now)
      BY <2>1 DEF VerdictInv, VerdictOf, VerifyManifest, VerifyBundle, TheBundle
    <2>3. QED
      BY <2>2, VerifiedIsRooted DEF VerdictInv, BundleInv, Rooted
  <1>2. QED
    BY <1>1, VerdictInit, VerdictNext, PTL DEF Spec

(* Lists of readable roots are sets: a list accepts a manifest if and only  *)
(* if one of its members alone does (bundle.go:128-149).                    *)
THEOREM OrderTheorem == Spec => []RootOrderIrrelevant
  <1>1. VerdictInv => RootOrderIrrelevant
    BY OrderIrrelevant DEF VerdictInv, VerdictOf, BundleInv, RootOrderIrrelevant
  <1>2. QED
    BY <1>1, VerdictInit, VerdictNext, PTL DEF Spec
=============================================================================

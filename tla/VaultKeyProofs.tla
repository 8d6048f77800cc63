--------------------------- MODULE VaultKeyProofs ----------------------------
(***************************************************************************)
(* Proofs about VaultKey, for any number of goroutines, rotations and TTLs *)
(* and any bound on the time a fetch takes.                                *)
(***************************************************************************)
EXTENDS VaultKey, TLAPS

(* How old a version can be that a fetch has read, or that the cache holds *)
(* (a version still the latest is 0 old).                                  *)
AgeInv ==
  /\ \A v \in Versions : v >= latest => oldFor[v] = 0
  /\ \A v \in Versions : oldFor[v] =< AgeCap
  /\ \A p \in Procs : pc[p] = "fetched" =>
       got[p] \in Versions /\ oldFor[got[p]] =< gotFor[p]
  /\ oldFor[item.ver] =< item.age + FetchBound

IInv == TypeOK /\ AgeInv

USE BoundsAssumption DEF Versions

LEMMA InitIInv == Init => IInv
<1> SUFFICES ASSUME Init PROVE IInv
  OBVIOUS
<1> USE DEF Init
<1>1. /\ latest \in Versions /\ oldFor \in [Versions -> Nat]
      /\ item \in [ver : Versions, ttl : TTLs, age : Nat]
  OBVIOUS
<1>2. /\ pc \in [Procs -> {"idle", "created", "fetch", "fetched", "public",
                           "signed", "verified"}]
      /\ got \in [Procs -> Versions \cup {0}]
      /\ gotFor \in [Procs -> 0 .. FetchBound]
  OBVIOUS
<1>3. /\ ret \in [Procs -> Versions \cup {0}]
      /\ sig \in [Procs -> Versions \cup {0}]
      /\ accepted \in [Procs -> BOOLEAN]
      /\ wanted \in [Procs -> Asks \cup {NoAsk}]
      /\ asked \in [Procs -> Asks \cup {NoAsk}]
  OBVIOUS
<1>4. AgeInv
  BY <1>1 DEF AgeInv
<1> QED  BY <1>1, <1>2, <1>3, <1>4 DEF IInv, TypeOK

LEMMA StepIInv == IInv /\ [Next]_vars => IInv'
<1> SUFFICES ASSUME IInv, [Next]_vars PROVE IInv'
  OBVIOUS
<1> USE DEF IInv, TypeOK, Goto, vault, locals, verification
<1>1. CASE Rotate
  <2>1. TypeOK'
    BY <1>1 DEF Rotate
  <2>2. AgeInv'
    BY <1>1 DEF Rotate, AgeInv
  <2> QED  BY <2>1, <2>2
<1>2. CASE Tick
  <2>1. TypeOK'
    <3>1. oldFor' \in [Versions -> Nat]
      BY <1>2 DEF Tick, Older
    <3>2. item' \in [ver : Versions, ttl : TTLs, age : Nat]
      <4>1. Older(item.age) \in Nat
        BY DEF Older
      <4> QED  BY <1>2, <4>1 DEF Tick
    <3>3. gotFor' \in [Procs -> 0 .. FetchBound]
      BY <1>2 DEF Tick
    <3> QED  BY <1>2, <3>1, <3>2, <3>3 DEF Tick
  <2>2. AgeInv'
    BY <1>2 DEF Tick, Older, AgeInv
  <2> QED  BY <2>1, <2>2
<1>3. ASSUME NEW p \in Procs, Step(p) PROVE IInv'
  <2>1. CASE Hit(p)
    <3>1. TypeOK'
      BY <2>1 DEF Hit
    <3>2. AgeInv'
      BY <2>1 DEF Hit, AgeInv
    <3> QED  BY <3>1, <3>2
  <2>2. CASE Miss(p)
    <3>1. TypeOK'
      BY <2>2 DEF Miss
    <3>2. AgeInv'
      BY <2>2 DEF Miss, AgeInv
    <3> QED  BY <3>1, <3>2
  <2>3. CASE ReadKey(p)
    <3>1. TypeOK'
      BY <2>3 DEF ReadKey
    <3>2. AgeInv'
      BY <2>3 DEF ReadKey, AgeInv
    <3> QED  BY <3>1, <3>2
  <2>4. CASE FailFetch(p)
    <3>1. TypeOK'
      BY <2>4 DEF FailFetch
    <3>2. AgeInv'
      BY <2>4 DEF FailFetch, AgeInv
    <3> QED  BY <3>1, <3>2
  <2>5. CASE StoreKey(p)
    <3>1. TypeOK'
      BY <2>5 DEF StoreKey, AgeInv
    <3>2. AgeInv'
      BY <2>5 DEF StoreKey, AgeInv
    <3> QED  BY <3>1, <3>2
  <2>6. CASE CreateKey(p)
    <3>1. TypeOK'
      BY <2>6 DEF CreateKey
    <3>2. AgeInv'
      BY <2>6 DEF CreateKey, AgeInv
    <3> QED  BY <3>1, <3>2
  <2>7. CASE Sign(p)
    <3>1. TypeOK'
      BY <2>7 DEF Sign, SigningVersion
    <3>2. AgeInv'
      BY <2>7 DEF Sign, AgeInv
    <3> QED  BY <3>1, <3>2
  <2>8. CASE Verify(p)
    <3>1. TypeOK'
      BY <2>8 DEF Verify, PrefixVersion
    <3>2. AgeInv'
      BY <2>8 DEF Verify, AgeInv
    <3> QED  BY <3>1, <3>2
  <2>9. CASE Return(p)
    <3>1. TypeOK'
      BY <2>9 DEF Return
    <3>2. AgeInv'
      BY <2>9 DEF Return, AgeInv
    <3> QED  BY <3>1, <3>2
  <2> QED  BY <1>3, <2>1, <2>2, <2>3, <2>4, <2>5, <2>6, <2>7, <2>8, <2>9 DEF Step
<1>4. CASE UNCHANGED vars
  BY <1>4 DEF vars, AgeInv
<1> QED  BY <1>1, <1>2, <1>3, <1>4 DEF Next

(* Every variable stays in its range: the cache never holds a key that is  *)
(* not a version of the transit key, however fetches fail.                 *)
THEOREM TypeCorrect == Spec => []TypeOK
<1>1. IInv => TypeOK
  BY DEF IInv
<1> QED  BY InitIInv, StepIInv, <1>1, PTL DEF Spec

(* PublicKey returns no key that ceased to be the latest longer ago than a *)
(* token's TTL and the time of a fetch, unless the TTL was 0               *)
(* (client.go:238-262).                                                    *)
THEOREM StalenessTheorem == Spec => StalenessBounded
<1> DEFINE Fresh == \A p \in Procs : Finishes(p, "public") =>
                      \/ ret'[p] = latest
                      \/ oldFor[ret'[p]] =< item'.ttl + FetchBound
                      \/ item'.ttl = 0
<1>1. IInv /\ [Next]_vars => [Fresh]_vars
  <2> SUFFICES ASSUME IInv, Next, NEW p \in Procs, Finishes(p, "public"),
                      item'.ttl # 0
               PROVE  oldFor[ret'[p]] =< item'.ttl + FetchBound
    OBVIOUS
  <2> USE DEF IInv, TypeOK, AgeInv
  <2>1. Hit(p) \/ StoreKey(p)
    BY DEF Next, Rotate, Tick, Step, Hit, Miss, ReadKey, FailFetch, StoreKey,
           CreateKey, Sign, Verify, Return, Finishes, Goto, locals, verification
  <2>2. CASE Hit(p)
    <3>1. ret'[p] = item.ver /\ item' = item
      BY <2>2 DEF Hit
    <3>2. item.ttl \in Nat /\ item.age \in Nat
      OBVIOUS
    <3>3. item.age =< item.ttl
      BY <2>2, <3>1, <3>2 DEF Hit, Expired
    <3>4. oldFor[item.ver] \in Nat /\ oldFor[item.ver] =< item.age + FetchBound
      OBVIOUS
    <3>5. oldFor[item.ver] =< item.ttl + FetchBound
      BY <3>2, <3>3, <3>4
    <3> QED  BY <3>1, <3>5
  <2>3. CASE StoreKey(p)
    <3>1. ret'[p] = got[p] /\ pc[p] = "fetched"
      BY <2>3 DEF StoreKey
    <3>2. oldFor[got[p]] \in Nat /\ gotFor[p] \in Nat /\ gotFor[p] =< FetchBound
      BY <3>1
    <3>3. oldFor[got[p]] =< gotFor[p]
      BY <3>1
    <3>4. item'.ttl \in Nat
      BY <2>3 DEF StoreKey
    <3>5. oldFor[got[p]] =< item'.ttl + FetchBound
      BY <3>2, <3>3, <3>4
    <3> QED  BY <3>1, <3>5
  <2> QED  BY <2>1, <2>2, <2>3
<1> QED  BY InitIInv, StepIInv, <1>1, PTL DEF Spec, StalenessBounded

LEMMA NoVersion ==
  /\ NoAsk \notin Versions /\ BadAsk \notin Versions /\ 0 \notin Versions
  /\ NoAsk # 0 /\ NoAsk # BadAsk
<1>1. NoAsk \notin Nat /\ BadAsk \notin Nat
  OBVIOUS
<1> QED  BY <1>1

(* The signature of a caller that named a version is of that version, and  *)
(* the outcome of a verification stands until it is returned.              *)
VersionInv ==
  \A p \in Procs :
    /\ wanted[p] \in Versions => sig[p] = wanted[p]
    /\ pc[p] = "verified" =>
         accepted[p] = (Verifiable(asked[p]) /\ PrefixVersion(asked[p]) = sig[p])

LEMMA StepVersionInv == TypeOK /\ VersionInv /\ [Next]_vars => VersionInv'
<1> SUFFICES ASSUME TypeOK, VersionInv, [Next]_vars PROVE VersionInv'
  OBVIOUS
<1> USE DEF VersionInv, TypeOK, Goto, vault, locals, verification
<1>1. CASE Rotate \/ Tick \/ UNCHANGED vars
  BY <1>1 DEF Rotate, Tick, vars
<1>2. ASSUME NEW p \in Procs, Step(p) PROVE VersionInv'
  <2>1. CASE Hit(p) \/ Miss(p) \/ ReadKey(p) \/ FailFetch(p) \/ StoreKey(p) \/ CreateKey(p)
    BY <2>1 DEF Hit, Miss, ReadKey, FailFetch, StoreKey, CreateKey
  <2>2. CASE Sign(p)
    <3>1. PICK ask \in Asks :
            /\ sig' = [sig EXCEPT ![p] = SigningVersion(ask)]
            /\ wanted' = [wanted EXCEPT ![p] = IF ask = 0 THEN NoAsk ELSE ask]
      BY <2>2 DEF Sign
    <3>2. wanted'[p] \in Versions => sig'[p] = wanted'[p]
      <4>1. wanted'[p] = (IF ask = 0 THEN NoAsk ELSE ask) /\ sig'[p] = SigningVersion(ask)
        BY <3>1
      <4> QED  BY ONLY <4>1, NoVersion DEF SigningVersion
    <3>3. \A q \in Procs : pc'[q] = "verified" => q # p /\ pc[q] = "verified"
      BY <2>2 DEF Sign
    <3>4. \A q \in Procs : q # p => wanted'[q] = wanted[q] /\ sig'[q] = sig[q]
      BY <3>1
    <3>5. UNCHANGED <<asked, accepted>>
      BY <2>2 DEF Sign
    <3> QED  BY <3>2, <3>3, <3>4, <3>5
  <2>3. CASE Verify(p)
    BY <2>3 DEF Verify
  <2>4. CASE Return(p)
    BY <2>4 DEF Return
  <2> QED  BY <1>2, <2>1, <2>2, <2>3, <2>4 DEF Step
<1> QED  BY <1>1, <1>2 DEF Next

(* What was signed with a version that was named is accepted when the same *)
(* version is named again, however the key is rotated in between           *)
(* (client.go:264-272, util.go:29-54).                                     *)
THEOREM NamedVersionTheorem == Spec => []NamedVersionVerifies
<1>1. Init => VersionInv
  BY NoVersion DEF Init, VersionInv
<1>2. VersionInv => NamedVersionVerifies
  <2> SUFFICES ASSUME VersionInv, NEW p \in Procs, pc[p] = "verified",
                      wanted[p] \in Versions,
                      wanted[p] = (IF asked[p] = NoAsk THEN EnvPrefix ELSE asked[p])
               PROVE  accepted[p]
    BY DEF NamedVersionVerifies
  <2>1. /\ sig[p] = wanted[p]
        /\ accepted[p] = (Verifiable(asked[p]) /\ PrefixVersion(asked[p]) = sig[p])
    BY DEF VersionInv
  <2>2. CASE asked[p] = NoAsk
    <3>1. EnvPrefix # 0 /\ EnvPrefix = sig[p]
      BY <2>1, <2>2, NoVersion
    <3>2. PrefixVersion(asked[p]) = sig[p] /\ Verifiable(asked[p])
      BY ONLY <2>2, <3>1, NoVersion DEF PrefixVersion, Verifiable
    <3> QED  BY <2>1, <3>2
  <2>3. CASE asked[p] # NoAsk
    <3>1. asked[p] = sig[p] /\ asked[p] \in Versions
      BY <2>1, <2>3
    <3>2. asked[p] \notin {0, BadAsk}
      BY ONLY <3>1, NoVersion
    <3>3. PrefixVersion(asked[p]) = sig[p] /\ Verifiable(asked[p])
      BY ONLY <2>3, <3>1, <3>2 DEF PrefixVersion, Verifiable
    <3> QED  BY <2>1, <3>3
  <2> QED  BY <2>2, <2>3
<1> QED  BY TypeCorrect, StepVersionInv, <1>1, <1>2, PTL DEF Spec
=============================================================================

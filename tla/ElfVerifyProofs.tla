--------------------------- MODULE ElfVerifyProofs ----------------------------
(***************************************************************************)
(* Proofs about the loop of Sign and about the images it writes, for every *)
(* number of rounds and of sections, and every order of them.  What Sign   *)
(* reports as signed Verify accepts, when the first image is well formed;  *)
(* it is stable, keeps its content and its links, and is laid out soundly, *)
(* when that image is regular.                                             *)
(***************************************************************************)
EXTENDS ElfSign, ElfImageProofs

(* The loop, for every image and every number of rounds.  What an image     *)
(* parses to and what it is rewritten to does not matter here.              *)

(* Before a round is counted the caller's image is the one it passed, until *)
(* a signature is embedded in it; rounds in progress are not the last.      *)
Untouched ==
  /\ pc \in {"parse", "sign", "save"} /\ attempt = 0 => image = given
  /\ pc = "done" /\ attempt = 0 /\ result \in {"rejected", "refused", "not signed"}
       => image = given

Counted ==
  /\ pc = "parse" => attempt = 0
  /\ pc \in {"parse", "sign", "save", "check"} => attempt < MaxAttempts

LoopInv == TypeOK /\ Untouched /\ Counted

(* Counting up to a bound; the bounds are positive. *)
LEMMA OneMore ==
  ASSUME NEW lo \in Nat, NEW hi \in Nat, NEW n \in lo .. hi, n < hi
  PROVE  n + 1 \in lo .. hi /\ n + 1 > lo
  OBVIOUS

LEMMA Bounds ==
  /\ MaxAttempts \in Nat /\ 0 \in 0 .. MaxAttempts /\ 0 < MaxAttempts
  /\ MaxSigns \in Nat /\ 1 \in 1 .. MaxSigns
  BY SignAssumption

LEMMA LoopInit == Init => LoopInv
  <1> SUFFICES ASSUME Init PROVE LoopInv
    OBVIOUS
  <1>1. TypeOK
    BY Bounds DEF Init, TypeOK
  <1>2. Untouched /\ Counted
    BY Bounds DEF Init, Untouched, Counted
  <1>3. QED
    BY <1>1, <1>2 DEF LoopInv

LEMMA LoopNext == LoopInv /\ [Next]_vars => LoopInv'
  <1> SUFFICES ASSUME LoopInv, [Next]_vars PROVE LoopInv'
    OBVIOUS
  <1> USE DEF LoopInv, Untouched, Counted
  <1>1. CASE ParseInput
    BY <1>1 DEF ParseInput, TypeOK
  <1>2. CASE RejectInput
    BY <1>2 DEF RejectInput, Finish, TypeOK
  <1>3. CASE SignHash
    <2>1. PICK n \in BundleLens : bundle' = [hash |-> HashOf(Parsed), len |-> n]
      BY <1>3 DEF SignHash
    <2>2. bundle'.len \in BundleLens
      BY <2>1
    <2>3. QED
      BY <1>3, <2>2 DEF SignHash, TypeOK
  <1>4. CASE FailSignHash
    BY <1>4 DEF FailSignHash, Finish, TypeOK
  <1>5. CASE Embed
    BY <1>5 DEF Embed, TypeOK
  <1>6. CASE RefuseEmbed
    BY <1>6 DEF RefuseEmbed, Finish, TypeOK
  <1>7. CASE AbandonEmbed
    <2>1. /\ pc' = "done" /\ result' = "abandoned" /\ bundle' = NoBundle
          /\ UNCHANGED <<given, attempt, signs>>
      BY <1>7 DEF AbandonEmbed, Finish
    <2>2. QED
      BY <2>1 DEF TypeOK
  <1>8. CASE RejectEmbedded
    BY <1>8 DEF RejectEmbedded, Finish, TypeOK
  <1>9. CASE CheckEmbedded
    <2>1. attempt' = attempt + 1 /\ pc = "check" /\ signs' = signs
      BY <1>9 DEF CheckEmbedded
    <2>2. attempt \in 0 .. MaxAttempts /\ attempt < MaxAttempts
      BY <2>1 DEF TypeOK
    <2>3. attempt' \in 0 .. MaxAttempts /\ attempt' # 0
      BY <2>1, <2>2, Bounds, OneMore
    <2>4. \/ pc' = "done" /\ result' \in {"ok", "not stable"} /\ bundle' = NoBundle
          \/ pc' = "sign" /\ attempt + 1 < MaxAttempts /\ bundle' = bundle /\ result' = result
      <3>1. CASE HashOf(Parse(image)) = bundle.hash
        BY <1>9, <3>1 DEF CheckEmbedded, Finish
      <3>2. CASE HashOf(Parse(image)) # bundle.hash
        BY <1>9, <3>2 DEF CheckEmbedded, Finish
      <3>3. QED
        BY <3>1, <3>2
    <2>5. CASE pc' = "done" /\ result' \in {"ok", "not stable"} /\ bundle' = NoBundle
      <3>1. TypeOK'
        BY <2>1, <2>3, <2>5 DEF TypeOK
      <3>2. QED
        BY <2>3, <2>5, <3>1
    <2>6. CASE pc' = "sign" /\ attempt + 1 < MaxAttempts /\ bundle' = bundle /\ result' = result
      <3>1. TypeOK'
        BY <2>1, <2>3, <2>6 DEF TypeOK
      <3>2. QED
        BY <2>1, <2>3, <2>6, <3>1
    <2>7. QED
      BY <2>4, <2>5, <2>6
  <1>10. CASE SignAgain
    <2>1. /\ pc' = "parse" /\ attempt' = 0 /\ signs' = signs + 1 /\ signs < MaxSigns
          /\ result' = "" /\ bundle' = bundle /\ image' = given'
      BY <1>10 DEF SignAgain
    <2>2. 0 \in 0 .. MaxAttempts /\ 0 < MaxAttempts
      BY Bounds
    <2>3. signs' \in 1 .. MaxSigns
      <3>1. signs \in 1 .. MaxSigns
        BY DEF TypeOK
      <3>2. QED
        BY <2>1, <3>1, Bounds, OneMore
    <2>4. TypeOK'
      BY <2>1, <2>2, <2>3 DEF TypeOK
    <2>5. QED
      BY <2>1, <2>2, <2>4
  <1>11. CASE UNCHANGED vars
    BY <1>11 DEF vars, TypeOK
  <1>12. QED
    BY <1>1, <1>2, <1>3, <1>4, <1>5, <1>6, <1>7, <1>8, <1>9, <1>10, <1>11 DEF Next

(* Types; in particular there are never more than MaxAttempts rounds        *)
(* (sign.go:13, 26).                                                        *)
THEOREM TypeCorrect == Spec => []TypeOK
  <1>1. LoopInv => TypeOK
    BY DEF LoopInv
  <1>2. QED
    BY <1>1, LoopInit, LoopNext, PTL DEF Spec

(* Whatever the image, a refusal, or a signer that fails in the first       *)
(* round, leaves the caller the image it passed (sign.go:17-38).            *)
THEOREM FailureTheorem == Spec => []FailureKeepsInput
  <1>1. LoopInv => FailureKeepsInput
    BY DEF LoopInv, Untouched, FailureKeepsInput
  <1>2. QED
    BY <1>1, LoopInit, LoopNext, PTL DEF Spec

-----------------------------------------------------------------------------
(* The image, until a call abandons it, and the file the loop works on stay *)
(* as linkers write them; a saved image is what saveELFSignature wrote for  *)
(* that file.                                                               *)
ImageGood ==
  /\ result = "abandoned" => pc = "done"
  /\ result # "abandoned" => Typed(image) /\ WellFormed(image)
  /\ pc \in {"sign", "save", "check"} => Accepts(file) /\ WellFormed(file)
  /\ pc \in {"save", "check"} => bundle.len \in BundleLens
  /\ pc = "check" => Saving(file, Parsed, bundle) /\ image = Save(Parsed, bundle)
  /\ SignedVerifies

ImageInv == Typed(original) /\ WellFormed(original) => ImageGood

LEMMA InputNow ==
  ASSUME NEW data, Accepts(data), WellFormed(data), NEW f, f = Parse(data),
         ~Refuses(f), NEW b, b.len \in BundleLens
  PROVE  Input(data, f, b)
  <1>1. b.len \in Nat /\ b.len > 0
    <2>1. b.len \in Nat \ {0}
      BY SignAssumption
    <2>2. \A n \in Nat \ {0} : n \in Nat /\ n > 0
      OBVIOUS
    <2>3. QED
      BY <2>1, <2>2
  <1>2. Shstrtab(f) \in {0, Shstrndx(data) + 1}
    BY DEF Accepts, WellFormed
  <1>3. Shstrtab(f) # 0
    BY DEF Refuses
  <1>4. QED
    BY <1>1, <1>2, <1>3 DEF Input

LEMMA SavingNow ==
  ASSUME NEW data, Accepts(data), WellFormed(data), NEW f, f = Parse(data),
         ~Refuses(f), NEW b, b.len \in BundleLens
  PROVE  Saving(data, f, b)
  <1>1. Cardinality(Kept(f)) + 2 >= XIndex => NullFirst(f)
    BY DEF Accepts, WellFormed
  <1>2. QED
    BY <1>1, InputNow, Encodable DEF Saving

LEMMA SavedImage ==
  ASSUME NEW data, NEW f, NEW b, Saving(data, f, b), NEW g, g = Save(f, b)
  PROVE  Typed(g) /\ WellFormed(g)
  <1>1. Typed(g)
    BY TypedBack
  <1>2. /\ Shstrtab(Parse(g)) = Shstrndx(g) + 1
        /\ Cardinality(Kept(Parse(g))) + 2 >= XIndex => NullFirst(Parse(g))
    BY WellFormedBack
  <1>3. QED
    BY <1>1, <1>2 DEF WellFormed

(* What Sign returns for a saved image whose hash is the one signed. *)
LEMMA SavedVerifies ==
  ASSUME NEW data, NEW f, NEW b, Saving(data, f, b), NEW g, g = Save(f, b),
         ParseError(g) = "", ~HashFails(Parse(g)), HashOf(Parse(g)) = b.hash
  PROVE  /\ Verifies(g)
         /\ Cardinality({i \in 1 .. Len(Parse(g).names) : Parse(g).names[i] = SIG}) = 1
  <1> DEFINE h == Parse(g)
             I == {i \in 1 .. Len(h.names) : h.names[i] = SIG}
  <1>1. GetSignature(h) = b /\ I = {Len(Before(f)) + 1}
    BY FindingBack DEF NoteBack
  <1>2. b # NoBundle
    <2>1. b.len \in Nat /\ b.len > 0
      BY DEF Saving, Input
    <2>2. b.len # 0
      BY ONLY <2>1
    <2>3. NoBundle.len = 0
      BY DEF NoBundle
    <2>4. QED
      BY ONLY <2>2, <2>3
  <1>3. Cardinality(I) = 1
    BY <1>1, FS_Singleton
  <1>4. QED
    BY <1>1, <1>2, <1>3 DEF Verifies

LEMMA ImageInit == Init => ImageInv
  BY DEF Init, ImageInv, ImageGood, SignedVerifies, Signed

(* Sign changes nothing of the first image but its copies; signing again    *)
(* what a call has abandoned starts anew.                                   *)
Restart ==
  /\ SignAgain /\ result = "abandoned"
  /\ original' = image /\ image' = image /\ given' = image
  /\ pc' = "parse" /\ attempt' = 0 /\ result' = ""

LEMMA OriginalStays ==
  ASSUME [Next]_vars
  PROVE  Restart \/ (original' = original /\ (SignAgain => result # "abandoned"))
  <1>1. CASE SignAgain
    <2>1. CASE result = "abandoned"
      BY <1>1, <2>1 DEF SignAgain, Restart
    <2>2. CASE result # "abandoned"
      BY <1>1, <2>2 DEF SignAgain
    <2>3. QED
      BY <2>1, <2>2
  <1>2. CASE ~SignAgain
    BY <1>2 DEF Next, vars, ParseInput, RejectInput, SignHash, FailSignHash, Embed,
                RefuseEmbed, AbandonEmbed, RejectEmbedded, CheckEmbedded
  <1>3. QED
    BY <1>1, <1>2

LEMMA ImageNext == ImageInv /\ [Next]_vars => ImageInv'
  <1>a. SUFFICES ASSUME ImageInv, [Next]_vars, Typed(original'), WellFormed(original')
                 PROVE  ImageGood'
    BY DEF ImageInv
  <1>b. CASE Restart
    BY <1>a, <1>b DEF Restart, ImageGood, SignedVerifies, Signed
  <1> SUFFICES ASSUME ImageGood, SignAgain => result # "abandoned"
                 PROVE  ImageGood'
    BY <1>a, <1>b, OriginalStays DEF ImageInv
  <1> USE DEF ImageGood, SignedVerifies, Signed, Parsed
  <1>1. CASE ParseInput
    BY <1>1 DEF ParseInput, Acceptable, Accepts
  <1>2. CASE RejectInput
    BY <1>2 DEF RejectInput, Finish
  <1>3. CASE SignHash
    <2>1. PICK n \in BundleLens : bundle' = [hash |-> HashOf(Parsed), len |-> n]
      BY <1>3 DEF SignHash
    <2>2. bundle'.len \in BundleLens
      BY <2>1
    <2>3. QED
      BY <1>3, <2>2 DEF SignHash
  <1>4. CASE FailSignHash
    BY <1>4 DEF FailSignHash, Finish
  <1>5. CASE Embed
    <2>1. Saving(file, Parsed, bundle) /\ image' = Save(Parsed, bundle)
      BY <1>5, SavingNow DEF Embed
    <2>2. Typed(image') /\ WellFormed(image')
      BY <2>1, SavedImage
    <2>3. QED
      BY <1>5, <2>1, <2>2 DEF Embed
  <1>6. CASE RefuseEmbed
    BY <1>6 DEF RefuseEmbed, Finish
  <1>7. CASE AbandonEmbed
    <2>1. pc' = "done" /\ result' = "abandoned"
      BY <1>7 DEF AbandonEmbed, Finish
    <2>2. QED
      BY <2>1
  <1>8. CASE RejectEmbedded
    BY <1>8 DEF RejectEmbedded, Finish
  <1>9. CASE CheckEmbedded
    <2>1. /\ ParseError(image) = "" /\ ~HashFails(Parse(image)) /\ image' = image
          /\ Saving(file, Parsed, bundle) /\ image = Save(Parsed, bundle)
          /\ Typed(image) /\ WellFormed(image)
      BY <1>9 DEF CheckEmbedded
    <2>2. CASE HashOf(Parse(image)) = bundle.hash
      <3>1. pc' = "done" /\ result' = "ok"
        BY <1>9, <2>2 DEF CheckEmbedded, Finish
      <3>2. /\ Verifies(image)
            /\ Cardinality({i \in 1 .. Len(Parse(image).names) :
                              Parse(image).names[i] = SIG}) = 1
        BY <2>1, <2>2, SavedVerifies
      <3>3. QED
        BY <2>1, <3>1, <3>2
    <2>3. CASE HashOf(Parse(image)) # bundle.hash
      <3>1. \/ pc' = "done" /\ result' = "not stable"
            \/ pc' = "sign" /\ file' = image
        BY <1>9, <2>3 DEF CheckEmbedded, Finish
      <3>2. CASE pc' = "done" /\ result' = "not stable"
        BY <2>1, <3>2
      <3>3. CASE pc' = "sign" /\ file' = image
        <4>1. result' = result /\ bundle' = bundle /\ result # "abandoned"
          BY <1>9, <3>3 DEF CheckEmbedded, Finish
        <4>2. QED
          BY <2>1, <3>3, <4>1 DEF Accepts
      <3>4. QED
        BY <3>1, <3>2, <3>3
    <2>4. QED
      BY <2>2, <2>3
  <1>10. CASE SignAgain
    BY <1>10 DEF SignAgain
  <1>11. CASE UNCHANGED vars
    BY <1>11 DEF vars
  <1>12. QED
    BY <1>a, <1>1, <1>2, <1>3, <1>4, <1>5, <1>6, <1>7, <1>8, <1>9, <1>10, <1>11 DEF Next

(* An image Sign reports as signed is one Verify accepts, with one          *)
(* signature section (sign.go:26-61, 64-93).                                *)
THEOREM VerifiesTheorem ==
  Spec => [](Typed(original) /\ WellFormed(original) => SignedVerifies)
  <1>1. ImageInv => (Typed(original) /\ WellFormed(original) => SignedVerifies)
    BY DEF ImageInv, ImageGood
  <1>2. QED
    BY <1>1, ImageInit, ImageNext, PTL DEF Spec

-----------------------------------------------------------------------------
(* The parts of an image, by what they are. *)
Cover(off, n) == off .. (off + n - 1)

SectionCover(h, i) ==
  IF HasData(h.shdrs[i]) /\ h.shdrs[i].type # "NULL"
  THEN Cover(h.shdrs[i].off, h.shdrs[i].size) ELSE {}

PartsApart(h) ==
  LET n     == Len(h.shdrs)
      first == Cover(0, 1)
      phdrs == Cover(h.ehdr.phoff, Len(h.phdrs))
      shdrs == Cover(h.ehdr.shoff, n)
  IN  /\ first \cap phdrs = {} /\ first \cap shdrs = {} /\ phdrs \cap shdrs = {}
      /\ \A i \in 1 .. n : /\ first \cap SectionCover(h, i) = {}
                           /\ phdrs \cap SectionCover(h, i) = {}
                           /\ shdrs \cap SectionCover(h, i) = {}
      /\ \A i, j \in 1 .. n : i < j => SectionCover(h, i) \cap SectionCover(h, j) = {}

Headed(t, p, q, r, s, n) ==
  /\ Len(t) = n + 3 /\ t[1] = p /\ t[2] = q /\ t[3] = r
  /\ \A i \in 1 .. n : t[3 + i] = s[i]

LEMMA Heading ==
  ASSUME NEW p, NEW q, NEW r, NEW n \in Nat, NEW s, s = [i \in 1 .. n |-> s[i]]
  PROVE  Headed(<<p, q, r>> \o s, p, q, r, s, n)
  <1> DEFINE a == <<p, q, r>>
  <1>1. /\ Len(a) = 3 /\ a[1] = p /\ a[2] = q /\ a[3] = r
        /\ Sequence(a)
    <2>1. a \in Seq({p, q, r}) /\ Len(a) = 3 /\ a[1] = p /\ a[2] = q /\ a[3] = r
      OBVIOUS
    <2>2. QED
      BY <2>1, InSeq
  <1>2. Sequence(s) /\ Len(s) = n
    BY FcnSeq
  <1> HIDE DEF a
  <1>3. /\ Len(a \o s) = Len(a) + Len(s)
        /\ \A i \in 1 .. Len(a) : (a \o s)[i] = a[i]
        /\ \A i \in 1 .. Len(s) : (a \o s)[Len(a) + i] = s[i]
    <2>1. Sequence(a) /\ Sequence(s)
      BY <1>1, <1>2
    <2>2. QED
      BY ONLY <2>1, Concat
  <1>4. QED
    BY <1>1, <1>2, <1>3 DEF Headed, a

LEMMA PartsAre ==
  ASSUME NEW h, Len(h.shdrs) \in Nat
  PROVE  /\ Len(Parts(h)) = Len(h.shdrs) + 3
         /\ Parts(h)[1] = Cover(0, 1)
         /\ Parts(h)[2] = Cover(h.ehdr.phoff, Len(h.phdrs))
         /\ Parts(h)[3] = Cover(h.ehdr.shoff, Len(h.shdrs))
         /\ \A i \in 1 .. Len(h.shdrs) : Parts(h)[3 + i] = SectionCover(h, i)
  <1> DEFINE n == Len(h.shdrs)
             s == [i \in 1 .. n |-> SectionCover(h, i)]
             p == Cover(0, 1)
             q == Cover(h.ehdr.phoff, Len(h.phdrs))
             r == Cover(h.ehdr.shoff, n)
  <1>1. Parts(h) = <<p, q, r>> \o s
    BY DEF Parts, SectionCover, Cover
  <1>2. s = [i \in 1 .. n |-> s[i]] /\ \A i \in 1 .. n : s[i] = SectionCover(h, i)
    OBVIOUS
  <1> HIDE DEF s, p, q, r
  <1>3. Headed(<<p, q, r>> \o s, p, q, r, s, n)
    BY <1>2, Heading
  <1>4. Headed(Parts(h), p, q, r, s, n)
    BY <1>1, <1>3
  <1>5. QED
    BY <1>2, <1>4 DEF Headed, p, q, r

LEMMA NotOverlapping ==
  ASSUME NEW h, Len(h.shdrs) \in Nat
  PROVE  ~Overlapping(h) <=> PartsApart(h)
  <1> DEFINE n == Len(h.shdrs)
             P == Parts(h)
  <1>1. /\ Len(P) = n + 3
        /\ P[1] = Cover(0, 1)
        /\ P[2] = Cover(h.ehdr.phoff, Len(h.phdrs))
        /\ P[3] = Cover(h.ehdr.shoff, n)
        /\ \A i \in 1 .. n : P[3 + i] = SectionCover(h, i)
    BY PartsAre
  <1>2. ~Overlapping(h) <=> \A i, j \in 1 .. n + 3 : i < j => P[i] \cap P[j] = {}
    BY <1>1 DEF Overlapping
  <1> HIDE DEF n, P
  <1>3. n \in Nat
    BY DEF n
  <1>4. ASSUME \A i, j \in 1 .. n + 3 : i < j => P[i] \cap P[j] = {} PROVE PartsApart(h)
    <2>1. P[1] \cap P[2] = {} /\ P[1] \cap P[3] = {} /\ P[2] \cap P[3] = {}
      <3>1. 1 \in 1 .. n + 3 /\ 2 \in 1 .. n + 3 /\ 3 \in 1 .. n + 3 /\ 1 < 2 /\ 1 < 3 /\ 2 < 3
        BY <1>3
      <3>2. QED
        BY <1>4, <3>1
    <2>2. ASSUME NEW i \in 1 .. n
          PROVE  P[1] \cap P[3 + i] = {} /\ P[2] \cap P[3 + i] = {} /\ P[3] \cap P[3 + i] = {}
      <3>1. /\ 3 + i \in 1 .. n + 3 /\ 1 < 3 + i /\ 2 < 3 + i /\ 3 < 3 + i
            /\ 1 \in 1 .. n + 3 /\ 2 \in 1 .. n + 3 /\ 3 \in 1 .. n + 3
        BY <1>3
      <3>2. QED
        BY <1>4, <3>1
    <2>3. ASSUME NEW i \in 1 .. n, NEW j \in 1 .. n, i < j PROVE P[3 + i] \cap P[3 + j] = {}
      <3>1. 3 + i \in 1 .. n + 3 /\ 3 + j \in 1 .. n + 3 /\ 3 + i < 3 + j
        BY <1>3, <2>3
      <3>2. QED
        BY <1>4, <3>1
    <2>4. \A i, j \in 1 .. n : i < j => SectionCover(h, i) \cap SectionCover(h, j) = {}
      BY <1>1, <2>3
    <2>5. \A i \in 1 .. n : /\ P[1] \cap SectionCover(h, i) = {}
                            /\ P[2] \cap SectionCover(h, i) = {}
                            /\ P[3] \cap SectionCover(h, i) = {}
      BY <1>1, <2>2
    <2>6. QED
      BY <1>1, <2>1, <2>4, <2>5 DEF PartsApart, n
  <1>5. ASSUME PartsApart(h), NEW i \in 1 .. n + 3, NEW j \in 1 .. n + 3, i < j
        PROVE  P[i] \cap P[j] = {}
    <2>1. /\ P[1] \cap P[2] = {} /\ P[1] \cap P[3] = {} /\ P[2] \cap P[3] = {}
          /\ \A k \in 1 .. n : /\ P[1] \cap SectionCover(h, k) = {}
                               /\ P[2] \cap SectionCover(h, k) = {}
                               /\ P[3] \cap SectionCover(h, k) = {}
          /\ \A k, l \in 1 .. n : k < l => SectionCover(h, k) \cap SectionCover(h, l) = {}
      BY <1>1, <1>5 DEF PartsApart, n
    <2>2. i \in {1, 2, 3} \/ (i - 3 \in 1 .. n /\ 3 + (i - 3) = i)
      BY <1>3
    <2>3. j \in {2, 3} \/ (j - 3 \in 1 .. n /\ 3 + (j - 3) = j)
      BY <1>3, <1>5
    <2>4. CASE i \in {1, 2, 3} /\ j \in {2, 3}
      BY <1>5, <2>1, <2>4
    <2>5. CASE i \in {1, 2, 3} /\ j - 3 \in 1 .. n /\ 3 + (j - 3) = j
      <3>1. PICK l \in 1 .. n : j = 3 + l
        BY <2>5
      <3>2. P[j] = SectionCover(h, l)
        BY <1>1, <3>1
      <3>3. QED
        BY <2>1, <2>5, <3>2
    <2>6. CASE i - 3 \in 1 .. n /\ 3 + (i - 3) = i
      <3>1. PICK k \in 1 .. n : i = 3 + k
        BY <2>6
      <3>2. PICK l \in 1 .. n : j = 3 + l
        <4>1. j - 3 \in 1 .. n /\ 3 + (j - 3) = j
          BY <1>3, <1>5, <2>3, <3>1
        <4>2. QED
          BY <4>1
      <3>3. k < l /\ P[i] = SectionCover(h, k) /\ P[j] = SectionCover(h, l)
        BY <1>1, <1>3, <1>5, <3>1, <3>2
      <3>4. QED
        BY <2>1, <3>3
    <2>7. QED
      BY <2>2, <2>3, <2>4, <2>5, <2>6
  <1>6. QED
    BY <1>2, <1>4, <1>5

LEMMA Covers ==
  ASSUME NEW a \in Nat, NEW m \in Nat, NEW b \in Nat, NEW n \in Nat, m > 0, n > 0
  PROVE  Cover(a, m) \cap Cover(b, n) = {} <=> a + m =< b \/ b + n =< a
  <1>1. ASSUME Cover(a, m) \cap Cover(b, n) = {} PROVE a + m =< b \/ b + n =< a
    <2>1. SUFFICES ASSUME b < a + m, a < b + n PROVE FALSE
      OBVIOUS
    <2>2. CASE a =< b
      <3>1. b \in Cover(a, m) /\ b \in Cover(b, n)
        BY <2>1, <2>2 DEF Cover
      <3>2. QED
        BY <1>1, <3>1
    <2>3. CASE b < a
      <3>1. a \in Cover(a, m) /\ a \in Cover(b, n)
        BY <2>1, <2>3 DEF Cover
      <3>2. QED
        BY <1>1, <3>1
    <2>4. QED
      BY <2>2, <2>3
  <1>2. ASSUME a + m =< b \/ b + n =< a, NEW x \in Cover(a, m), x \in Cover(b, n) PROVE FALSE
    BY <1>2 DEF Cover
  <1>3. QED
    BY <1>1, <1>2

LEMMA NoCover ==
  ASSUME NEW a \in Nat
  PROVE  Cover(a, 0) = {}
  BY DEF Cover

(* What holds of a regular image: the parts that stay end where the content *)
(* does.                                                                    *)
Stays(data, f) ==
  LET c == ContentEnd(f)
  IN  /\ f.shdrs[1].type = "NULL" /\ Len(Before(f)) >= 1 /\ Before(f)[1] = 1
      /\ \A i \in 2 .. Len(f.shdrs) : DataReadable(f, i)
      /\ \A i \in 2 .. Len(f.shdrs) : HasData(f.shdrs[i]) =>
           /\ f.shdrs[i].type # "NULL" /\ f.shdrs[i].off >= 1
           /\ f.shdrs[i].off + f.shdrs[i].size =< Len(data)
      /\ \A i \in 2 .. Len(Before(f)) : HasData(f.shdrs[Before(f)[i]]) =>
           f.shdrs[Before(f)[i]].off + f.shdrs[Before(f)[i]].size =< c
      /\ \A i \in 1 .. Len(f.phdrs) : f.phdrs[i].filesz # 0 =>
           f.phdrs[i].off + f.phdrs[i].filesz =< c
      /\ Len(f.phdrs) > 0 => f.ehdr.phoff >= 1 /\ f.ehdr.phoff + Len(f.phdrs) =< c
      /\ PartsApart(f)

LEMMA RegularStays ==
  ASSUME NEW data, NEW f, Accepts(data), Regular(data), f = Parse(data)
  PROVE  Stays(data, f)
  <1> DEFINE c  == ContentEnd(f)
             n  == Len(f.shdrs)
             np == Len(f.phdrs)
             sh == f.shdrs
             so == f.ehdr.shoff
             po == f.ehdr.phoff
             l  == Len(data)
  <1>1. /\ NullFirst(f) /\ ~Overlapping(f)
        /\ \A i \in 2 .. n : DataReadable(f, i) /\ (sh[i].type = "NULL" => ~HasData(sh[i]))
        /\ \A ph \in ToSet(f.phdrs) : ph.filesz # 0 =>
             /\ ph.off + ph.filesz =< l
             /\ so + n = l => ph.off + ph.filesz =< so
    BY DEF Accepts, Regular
  <1>2. /\ f.data = data /\ n \in Nat /\ n > 0 /\ np \in Nat /\ l \in Nat
        /\ so \in Nat /\ po \in Nat
        /\ \A i \in 1 .. n : sh[i] \in Shdrs
        /\ \A i \in 1 .. np : f.phdrs[i] \in Phdrs
        /\ np > 0 => po + np =< l
        /\ Sequence(f.names) /\ Len(f.names) = n /\ Sequence(f.phdrs)
        /\ so + n =< l
    <2>1. /\ Shnum(data) \in Nat /\ Shnum(data) > 0 /\ Phnum(data) \in Nat
          /\ Len(data) \in Nat /\ Ehdr(data) \in Ehdrs
          /\ Ehdr(data).shoff + Shnum(data) =< Len(data)
          /\ Phnum(data) > 0 => Ehdr(data).phoff + Phnum(data) =< Len(data)
      BY Accepted
    <2>2. /\ f.data = data /\ n = Shnum(data) /\ np = Phnum(data)
          /\ \A i \in 1 .. n : sh[i] \in Shdrs
          /\ \A i \in 1 .. np : f.phdrs[i] \in Phdrs
          /\ so = Ehdr(data).shoff /\ po = Ehdr(data).phoff
          /\ Sequence(f.names) /\ Len(f.names) = n /\ Sequence(f.phdrs)
      BY ParsedHeaders
    <2>3. Ehdr(data).shoff \in Nat /\ Ehdr(data).phoff \in Nat
      BY <2>1 DEF Ehdrs
    <2>4. QED
      BY <2>1, <2>2, <2>3
  <1>3. PartsApart(f)
    BY <1>1, <1>2, NotOverlapping
  <1>4. EndSound(f)
    BY ContentEnds
  <1>5. Sorted(f)
    BY <1>2, Order
  <1>6. Len(Before(f)) >= 1 /\ Before(f)[1] = 1 /\ sh[1].type = "NULL"
    BY <1>1, <1>2, <1>5, NullStays DEF NullFirst
  <1>7. ASSUME NEW i \in 2 .. n, HasData(sh[i])
        PROVE  /\ sh[i].type # "NULL" /\ sh[i].off \in Nat /\ sh[i].size \in Nat /\ sh[i].size > 0
               /\ sh[i].off >= 1 /\ sh[i].off + sh[i].size =< l
               /\ so + n = l => sh[i].off + sh[i].size =< so
    <2> DEFINE o == sh[i].off
               s == sh[i].size
    <2>1. i \in 1 .. n
      BY <1>2
    <2>2. o \in Nat /\ s \in Nat
      BY <1>2, <2>1 DEF Shdrs
    <2>3. s # 0 /\ sh[i].type # "NULL"
      BY <1>1, <1>7 DEF HasData
    <2>4. SectionCover(f, i) = Cover(o, s)
      BY <1>7, <2>3 DEF SectionCover
    <2>5. /\ Cover(0, 1) \cap SectionCover(f, i) = {}
          /\ Cover(so, n) \cap SectionCover(f, i) = {}
      BY <1>3, <2>1 DEF PartsApart
    <2>6. RangeWithinFile(o, s, data)
      BY <1>1, <1>2, <1>7 DEF DataReadable
    <2> HIDE DEF o, s, n, so, l
    <2>7. o + s =< l
      BY <1>2, <2>2, <2>6 DEF RangeWithinFile, l
    <2>8. s > 0
      BY <2>2, <2>3
    <2>9. 0 + 1 =< o \/ o + s =< 0
      BY <2>2, <2>4, <2>5, <2>8, Covers
    <2>10. so + n =< o \/ o + s =< so
      BY <1>2, <2>2, <2>4, <2>5, <2>8, Covers
    <2>11. o >= 1
      BY <2>2, <2>8, <2>9
    <2>12. so + n = l => o + s =< so
      BY <1>2, <2>2, <2>7, <2>8, <2>10
    <2>13. QED
      BY <2>2, <2>3, <2>7, <2>8, <2>11, <2>12 DEF o, s
  <1>8. ASSUME np > 0
        PROVE  po >= 1 /\ (so + n = l => po + np =< so) /\ po + np =< l
    <2>1. Cover(0, 1) \cap Cover(po, np) = {} /\ Cover(po, np) \cap Cover(so, n) = {}
      BY <1>3 DEF PartsApart
    <2> HIDE DEF po, np, so, n, l
    <2>a. /\ po \in Nat /\ np \in Nat /\ np > 0 /\ so \in Nat /\ n \in Nat /\ n > 0
          /\ 0 \in Nat /\ 1 \in Nat /\ 1 > 0
      BY <1>2, <1>8
    <2>2. 0 + 1 =< po \/ po + np =< 0
      BY ONLY <2>a, <2>1, Covers
    <2>3. po + np =< so \/ so + n =< po
      BY ONLY <2>a, <2>1, Covers
    <2>4. QED
      BY <1>2, <1>8, <2>2, <2>3
  <1>9. \A i \in 1 .. np : f.phdrs[i].filesz # 0 =>
          /\ f.phdrs[i].off + f.phdrs[i].filesz =< l
          /\ so + n = l => f.phdrs[i].off + f.phdrs[i].filesz =< so
    <2>1. \A i \in 1 .. np : f.phdrs[i] \in ToSet(f.phdrs)
      BY <1>2, SeqLen
    <2>2. QED
      BY <1>1, <2>1
  <1>10. \A i \in 2 .. Len(Before(f)) : Before(f)[i] \in 2 .. n /\ i \in 1 .. Len(Before(f))
    <2>1. /\ Len(Before(f)) \in Nat /\ \A i \in 1 .. Len(Before(f)) : Before(f)[i] \in 1 .. n
          /\ \A i, j \in 1 .. Len(Before(f)) : i < j => Before(f)[i] < Before(f)[j]
      BY <1>2, <1>5 DEF Sorted, Collected
    <2>2. ASSUME NEW i \in 2 .. Len(Before(f)) PROVE Before(f)[i] \in 2 .. n
      <3>1. i \in 1 .. Len(Before(f)) /\ 1 \in 1 .. Len(Before(f)) /\ 1 < i
        BY <2>1
      <3>2. Before(f)[1] < Before(f)[i] /\ Before(f)[i] \in 1 .. n
        BY <2>1, <3>1
      <3> HIDE DEF n
      <3>3. QED
        BY <1>2, <1>6, <3>2
    <2>3. QED
      BY <2>1, <2>2
  <1> HIDE DEF c, n, np, sh, so, po, l
  <1>11. /\ \A i \in 2 .. Len(Before(f)) : HasData(sh[Before(f)[i]]) =>
              sh[Before(f)[i]].off + sh[Before(f)[i]].size =< c
         /\ \A i \in 1 .. np : f.phdrs[i].filesz # 0 =>
              f.phdrs[i].off + f.phdrs[i].filesz =< c
         /\ np > 0 => po + np =< c
    <2>1. CASE c = l
      BY <1>7, <1>8, <1>9, <1>10, <2>1
    <2>2. CASE c = so /\ so + n = l
      BY <1>7, <1>8, <1>9, <1>10, <2>2
    <2>3. CASE ~(c = l) /\ ~(c = so /\ so + n = l)
      <3>1. /\ \A i \in 1 .. Len(Before(f)) : HasData(sh[Before(f)[i]]) =>
                 sh[Before(f)[i]].off + sh[Before(f)[i]].size =< c
            /\ \A i \in 1 .. np : f.phdrs[i].filesz # 0 =>
                 f.phdrs[i].off + f.phdrs[i].filesz =< c
            /\ po > 0 => po + np =< c
        BY <1>2, <1>4, <2>3 DEF EndSound, c, sh, so, po, np, n, l
      <3>2. po >= 1 => po > 0
        BY <1>2
      <3>3. QED
        BY <1>8, <1>10, <3>1, <3>2
    <2>4. QED
      BY <2>1, <2>2, <2>3
  <1>12. QED
    BY <1>1, <1>3, <1>6, <1>7, <1>8, <1>11 DEF Stays, c, n, np, sh, so, po, l

-----------------------------------------------------------------------------
(* The kept sections of a regular image keep their data.                    *)
DataKept(f, b, g, i) ==
  LET h == Parse(g)
      x == f.shdrs[Old(f, i)]
      y == h.shdrs[i]
  IN  /\ DataReadable(h, i)
      /\ SectionData(h, i) = SectionData(f, Old(f, i))
      /\ HasData(y) <=> HasData(x)
      /\ y.size = x.size
      /\ HasData(y) => /\ y.type # "NULL" /\ y.off \in Nat /\ y.size \in Nat /\ y.size > 0
                       /\ y.off >= 1 /\ y.off + y.size =< Len(Layout(f, b).out)
                       /\ i =< Len(Before(f)) =>
                            y.off + y.size =< ContentEnd(f) /\ y.off = x.off

LEMMA StayingData ==
  ASSUME NEW data, NEW f, NEW b, Saving(data, f, b), NEW g, g = Save(f, b),
         NEW d, NEW o \in Nat, o >= 1, Sequence(d), Lies(data, d, o),
         o + Len(d) =< ContentEnd(f)
  PROVE  Lies(g, d, o)
  <1>0. Input(data, f, b)
    BY DEF Saving
  <1> DEFINE c == ContentEnd(f)
             base == Base(f, b)
             out == Layout(f, b).out
  <1>1. /\ c \in 1 .. Len(data) /\ Len(base) = c + b.len /\ b.len \in Nat /\ Len(data) \in Nat
        /\ \A i \in 1 .. c : base[i] = data[i]
        /\ Sequence(base)
    BY <1>0, LaidBase, InputFacts
  <1>2. Begins(out, base) /\ Sequence(out)
    BY <1>0, LaidAll DEF LaidOut
  <1> HIDE DEF c, base, out
  <1>3. Lies(base, d, o)
    <2>1. Len(d) \in Nat /\ c \in Nat /\ o + Len(d) =< c
      BY <1>1, SeqLen DEF c
    <2>2. o + Len(d) =< Len(base)
      BY <1>1, <2>1
    <2>3. \A i \in 1 .. Len(d) : o + i \in 1 .. c
      BY <2>1
    <2>4. \A i \in 1 .. Len(d) : base[o + i] = d[i]
      BY <1>1, <2>3 DEF Lies
    <2>5. QED
      BY <2>2, <2>4 DEF Lies
  <1>4. Lies(out, d, o)
    BY ONLY <1>1, <1>2, <1>3, o \in Nat, Sequence(d), BeginsLies
  <1>5. o \in Nat \ {0}
    OBVIOUS
  <1>6. QED
    BY <1>4, <1>5, SavedCells DEF Written, out

LEMMA KeepingData ==
  ASSUME NEW data, NEW f, NEW b, Saving(data, f, b), Stays(data, f), NEW g, g = Save(f, b),
         NEW i \in 1 .. Len(Table(f, b)), Old(f, i) \in Kept(f), i # 1
  PROVE  DataKept(f, b, g, i)
  <1> DEFINE h == Parse(g)
             k == Old(f, i)
             x == f.shdrs[k]
             y == h.shdrs[i]
             d == SectionData(f, k)
             nb == Len(Before(f))
             na == Len(After(f))
             m == Len(Layout(f, b).out)
             s == x.size
             o == y.off
  <1>0. Input(data, f, b) /\ OldInOrder(f)
    BY InputFacts, OldOrder DEF Saving
  <1>1. SectionKept(f, b, g, i)
    BY KeepingSections
  <1>2. /\ i \in 1 .. nb + na + 2 /\ nb \in Nat /\ na \in Nat /\ i # nb + 1 /\ i # nb + na + 2
    BY <1>0, TableParts DEF TableLaid, OldInOrder
  <1>3. k \in 2 .. Len(f.shdrs)
    <2>1. k \in 1 .. Len(f.shdrs) /\ Len(f.shdrs) \in Nat
      BY <1>0, InputFacts DEF Kept
    <2>2. Old(f, 1) = 1 /\ 1 \in 1 .. nb + na + 2 /\ 1 \in 1 .. nb
      BY <1>0, <1>2 DEF Stays, OldInOrder
    <2>3. 1 < i
      BY <1>2
    <2>4. Old(f, 1) \in Kept(f)
      BY <1>0, <1>2, <2>2 DEF OldInOrder
    <2>5. Old(f, 1) < k
      BY <1>0, <1>2, <2>2, <2>3, <2>4 DEF OldInOrder
    <2> HIDE DEF k
    <2>6. QED
      BY <2>1, <2>2, <2>5
  <1>4. /\ x \in Shdrs /\ y \in Shdrs /\ y.type = x.type /\ y.size = s
        /\ o \in Nat /\ s \in Nat
    BY <1>1 DEF SectionKept, Shdrs
  <1>5. HasData(y) <=> HasData(x)
    BY <1>4 DEF HasData
  <1>6. /\ Sequence(d) /\ Len(d) = (IF HasData(x) THEN s ELSE 0)
        /\ HasData(x) => /\ x.off + s =< Len(data) /\ Lies(data, d, x.off)
                         /\ x.type # "NULL" /\ x.off >= 1 /\ s > 0
    <2>1. k \in 1 .. Len(f.shdrs) /\ DataReadable(f, k) /\ Accepts(data) /\ f = Parse(data)
          /\ data \in Seq(Cells(data, b))
      BY <1>0, <1>3, InputFacts DEF Stays
    <2>2. /\ Sequence(d) /\ Len(d) = (IF HasData(x) THEN s ELSE 0)
          /\ HasData(x) => x.off + s =< Len(data) /\ Lies(data, d, x.off)
      <3> HIDE DEF k
      <3>1. QED
        BY <2>1, DataOfSection
    <2>3. HasData(x) => x.type # "NULL" /\ x.off >= 1
      BY <1>3 DEF Stays
    <2>4. HasData(x) => s # 0
      BY DEF HasData
    <2>5. HasData(x) => s > 0
      BY <1>4, <2>4
    <2>6. QED
      BY <2>2, <2>3, <2>5
  <1>7. h.data = g /\ Sequence(g) /\ Len(g) \in Nat
    BY ReadingBack, SavedCells, SeqLen DEF ReadBack, Written
  <1>8. ASSUME HasData(x)
        PROVE  /\ Lies(g, d, o) /\ o >= 1 /\ o + s =< m
               /\ i =< nb => o + s =< ContentEnd(f) /\ o = x.off
    <2>1. m \in Nat /\ ContentEnd(f) \in Nat /\ b.len \in Nat /\ Len(Base(f, b)) = ContentEnd(f) + b.len
          /\ Len(Base(f, b)) =< m /\ ContentEnd(f) >= 1
      <3>1. /\ ContentEnd(f) \in 1 .. Len(data) /\ Len(data) \in Nat /\ b.len \in Nat
            /\ Len(Base(f, b)) = ContentEnd(f) + b.len
        BY <1>0, LaidBase, InputFacts
      <3>2. m \in Nat /\ Len(Base(f, b)) =< m
        BY <1>0, LaidAll DEF LaidOut, Begins
      <3>3. QED
        BY <3>1, <3>2
    <2>2. CASE i =< nb
      <3>1. o = x.off
        BY <1>1, <2>2 DEF SectionKept
      <3>2. i \in 2 .. nb /\ k = Before(f)[i]
        BY <1>0, <1>2, <2>2 DEF OldInOrder
      <3>3. o + s =< ContentEnd(f)
        BY <1>8, <3>1, <3>2 DEF Stays
      <3>4. Len(d) = s
        BY <1>6, <1>8
      <3>5. Lies(data, d, o) /\ o >= 1 /\ o \in Nat /\ Sequence(d)
        BY <1>4, <1>6, <1>8, <3>1
      <3>6. o + Len(d) =< ContentEnd(f)
        BY <3>3, <3>4
      <3> HIDE DEF o, d, s, m, x
      <3>7. Lies(g, d, o)
        BY <3>5, <3>6, StayingData
      <3>8. o + s =< m
        BY <1>4, <2>1, <3>3
      <3>9. QED
        BY <3>1, <3>3, <3>5, <3>7, <3>8
    <2>3. CASE ~(i =< nb)
      <3>1. Lies(g, d, o) /\ o >= ContentEnd(f) + b.len
        BY <1>1, <2>3 DEF SectionKept
      <3>2. PICK j \in 1 .. na : i = nb + 1 + j /\ o = Moved(f, b).hdrs[j].off
        BY <1>1, <2>3 DEF SectionKept
      <3>3. k = After(f)[j]
        BY <1>0, <3>2 DEF OldInOrder
      <3>4. Lies(Moved(f, b).out, d, o)
        <4>1. Placed(f, Base(f, b), na, Moved(f, b), Cells(data, b))
          BY <1>0, LaidMoved
        <4>2. Lies(Moved(f, b).out, SectionData(f, After(f)[j]), Moved(f, b).hdrs[j].off)
          BY <4>1 DEF Placed
        <4>3. d = SectionData(f, After(f)[j])
          BY <3>3
        <4> HIDE DEF d, o
        <4>4. QED
          BY <3>2, <4>2, <4>3
      <3>5. Len(Moved(f, b).out) =< m
        BY <1>0, LaidAll DEF LaidOut, Begins
      <3>6. o + Len(d) =< Len(Moved(f, b).out) /\ Len(d) = s
        BY <1>6, <1>8, <3>4 DEF Lies
      <3>7. Len(Moved(f, b).out) \in Nat
        BY <1>0, LaidMoved, InSeq DEF Placed
      <3> HIDE DEF o, d, s, m, x
      <3>8. o + s =< m /\ o >= 1
        BY <1>4, <2>1, <3>1, <3>5, <3>6, <3>7
      <3>9. QED
        BY <2>3, <3>1, <3>8
    <2>4. QED
      BY <2>2, <2>3
  <1> HIDE DEF h, k, x, y, d, nb, na, m, s, o
  <1>9. DataReadable(h, i) /\ SectionData(h, i) = d
    <2>1. CASE HasData(x)
      <3>1. o + s =< Len(g) /\ Len(d) = s
        BY <1>6, <1>8, <2>1 DEF Lies
      <3>2. o =< Len(g) /\ s =< Len(g) - o
        BY <1>4, <1>7, <3>1
      <3>3. DataReadable(h, i)
        BY <1>4, <1>7, <3>2 DEF DataReadable, RangeWithinFile, y, o
      <3>4. SectionData(h, i) = Slice(g, o, s)
        BY <1>4, <1>5, <1>7, <2>1 DEF SectionData, y, o
      <3>5. Slice(g, o, Len(d)) = d
        BY <1>4, <1>6, <1>7, <1>8, <2>1, SliceLies
      <3>6. QED
        BY <3>1, <3>3, <3>4, <3>5
    <2>2. CASE ~HasData(x)
      <3>1. DataReadable(h, i) /\ SectionData(h, i) = <<>>
        BY <1>5, <2>2 DEF DataReadable, SectionData, y
      <3>2. d = <<>>
        BY <2>2 DEF SectionData, d, x, k
      <3>3. QED
        BY <3>1, <3>2
    <2>3. QED
      BY <2>1, <2>2
  <1>10. QED
    BY <1>4, <1>5, <1>6, <1>8, <1>9 DEF DataKept, h, k, x, y, d, nb, m, s, o


-----------------------------------------------------------------------------
(* What Sign computes of a saved image: its program headers and its hash    *)
(* are those of the file it was saved from.                                 *)
StaysPut(data, f, g) ==
  LET c == ContentEnd(f)
  IN  /\ c \in Nat /\ c >= 1 /\ c =< Len(g) /\ Len(g) \in Nat
      /\ \A i \in 2 .. c : g[i] = data[i]

LEMMA StayingCells ==
  ASSUME NEW data, NEW f, NEW b, Saving(data, f, b), NEW g, g = Save(f, b)
  PROVE  StaysPut(data, f, g) /\ ContentEnd(f) + b.len =< Len(Layout(f, b).out)
  <1>0. Input(data, f, b)
    BY DEF Saving
  <1> DEFINE c == ContentEnd(f)
             base == Base(f, b)
             out == Layout(f, b).out
             n == Len(Table(f, b))
  <1>1. /\ c \in 1 .. Len(data) /\ Len(base) = c + b.len /\ b.len \in Nat /\ Len(data) \in Nat
        /\ \A i \in 1 .. c : base[i] = data[i]
    BY <1>0, LaidBase, InputFacts
  <1>2. Len(base) =< Len(out) /\ \A i \in 1 .. Len(base) : out[i] = base[i]
    BY <1>0, LaidAll DEF LaidOut, Begins
  <1>3. /\ Len(g) = Len(out) + Len(Back(f, b)) /\ Len(out) \in Nat /\ Len(Back(f, b)) \in Nat
        /\ \A i \in 2 .. Len(out) : g[i] = out[i]
    BY SavedCells DEF Written
  <1> HIDE DEF c, base, out
  <1>4. c + b.len =< Len(out) /\ c =< Len(g) /\ Len(g) \in Nat /\ c \in Nat /\ c >= 1
    BY <1>1, <1>2, <1>3
  <1>5. ASSUME NEW i \in 2 .. c PROVE g[i] = data[i]
    <2>1. i \in 1 .. c /\ i \in 1 .. Len(base) /\ i \in 2 .. Len(out)
      BY <1>1, <1>2, <1>3
    <2>2. QED
      BY <1>1, <1>2, <1>3, <2>1
  <1>6. QED
    BY <1>4, <1>5 DEF StaysPut, c, out

LEMMA AnySlice ==
  ASSUME NEW s, NEW m \in Int, NEW n \in Int
  PROVE  /\ Sequence(SubSeq(s, m, n)) /\ Len(SubSeq(s, m, n)) = IF m <= n THEN n - m + 1 ELSE 0
         /\ \A i \in 1 .. n - m + 1 : SubSeq(s, m, n)[i] = s[m + i - 1]
  <1> DEFINE T == {s[i] : i \in m .. n}
  <1>1. \A i \in m .. n : s[i] \in T
    OBVIOUS
  <1> HIDE DEF T
  <1>2. /\ SubSeq(s, m, n) \in Seq(T)
        /\ Len(SubSeq(s, m, n)) = IF m <= n THEN n - m + 1 ELSE 0
        /\ \A i \in 1 .. n - m + 1 : SubSeq(s, m, n)[i] = s[m + i - 1]
    BY <1>1, SubSeqProperties
  <1>3. QED
    BY <1>2, InSeq

(* What has been appended when saveELFSignature gives up begins with the    *)
(* content that stays.                                                      *)
LEMMA UnfinishedCells ==
  ASSUME NEW data, NEW f, NEW b, Input(data, f, b), NEW u, u = Unfinished(f, b)
  PROVE  /\ Len(u) \in Nat
         /\ \A i \in 1 .. Len(u) : i =< ContentEnd(f) => u[i] = data[i]
  <1> DEFINE c == ContentEnd(f)
             base == Base(f, b)
             out == Layout(f, b).out
  <1>1. /\ c \in 1 .. Len(data) /\ Len(base) = c + b.len /\ b.len \in Nat /\ Len(data) \in Nat
        /\ \A i \in 1 .. c : base[i] = data[i]
    BY LaidBase, InputFacts
  <1>2. /\ Len(out) \in Nat /\ Len(base) =< Len(out)
        /\ \A i \in 1 .. Len(base) : out[i] = base[i]
    BY LaidAll DEF LaidOut, Begins
  <1> HIDE DEF base, c, out
  <1>3. \A i \in 1 .. c : out[i] = data[i]
    <2>1. \A i \in 1 .. c : i \in 1 .. Len(base)
      BY <1>1
    <2>2. QED
      BY <1>1, <1>2, <2>1
  <1>4. CASE Overflows(f, b) = {}
    <2>1. u = out
      BY <1>4 DEF Unfinished, out
    <2>2. \A i \in 1 .. Len(out) : i =< c => i \in 1 .. c
      BY <1>1, <1>2
    <2>3. QED
      BY <1>2, <1>3, <2>1, <2>2 DEF c
  <1>5. CASE Overflows(f, b) # {}
    <2> DEFINE k == Min(Overflows(f, b)) - 1
               m == PartEnd(f, b, k)
    <2>1. Len(After(f)) \in Nat
      BY LaidMoved
    <2>2. k \in 0 .. Len(After(f))
      <3>1. Overflows(f, b) \subseteq 1 .. Len(After(f)) + 1
        BY DEF Overflows
      <3>2. Overflows(f, b) \subseteq Nat
        BY <2>1, <3>1
      <3>3. Min(Overflows(f, b)) \in 1 .. Len(After(f)) + 1
        BY <1>5, <3>1, <3>2, MinOf
      <3>4. QED
        BY <2>1, <3>3
    <2> HIDE DEF k
    <2>3. m \in Nat
      <3>1. CASE k = 0
        BY <1>1, <3>1 DEF PartEnd, base
      <3>2. CASE k # 0
        <4>1. k \in 1 .. Len(After(f))
          BY <2>1, <2>2, <3>2
        <4>2. m = Moved(f, b).hdrs[k].off + Len(SectionData(f, After(f)[k]))
          BY <2>1, <3>2, <4>1 DEF PartEnd, PartStart
        <4>3. Moved(f, b).hdrs[k].off \in Nat
          <5>1. Moved(f, b).hdrs \in Seq(Shdrs) /\ Len(Moved(f, b).hdrs) = Len(After(f))
            BY LaidMoved DEF Placed
          <5>2. Moved(f, b).hdrs[k] \in Shdrs
            BY <4>1, <5>1, ElementOfSeq
          <5>3. QED
            BY <5>2 DEF Shdrs
        <4>4. Len(SectionData(f, After(f)[k])) \in Nat
          <5>1. /\ After(f)[k] \in 1 .. Len(f.shdrs) /\ DataReadable(f, After(f)[k])
                /\ Accepts(data) /\ f = Parse(data) /\ data \in Seq(Cells(data, b))
            BY <4>1, InputFacts
          <5>2. SectionData(f, After(f)[k]) \in Seq(Cells(data, b))
            BY <5>1, DataOfSection
          <5>3. QED
            BY <5>2, LenProperties
        <4>5. QED
          BY <4>2, <4>3, <4>4
      <3>3. QED
        BY <3>1, <3>2
    <2>4. u = SubSeq(out, 1, m)
      <3>1. u = SubSeq(out, 0 + 1, 0 + m)
        BY <1>5 DEF Unfinished, Slice, out, k
      <3>2. 0 + 1 = 1 /\ 0 + m = m
        BY <2>3
      <3>3. QED
        BY <3>1, <3>2
    <2> HIDE DEF m
    <2>5. /\ Len(SubSeq(out, 1, m)) = IF 1 <= m THEN m - 1 + 1 ELSE 0
          /\ \A i \in 1 .. m - 1 + 1 : SubSeq(out, 1, m)[i] = out[1 + i - 1]
      <3>1. 1 \in Int /\ m \in Int
        BY <2>3
      <3>2. QED
        BY <3>1, AnySlice
    <2>6. Len(u) = m /\ \A i \in 1 .. m : u[i] = out[i]
      <3>1. (IF 1 <= m THEN m - 1 + 1 ELSE 0) = m /\ \A i \in 1 .. m : i \in 1 .. m - 1 + 1 /\ 1 + i - 1 = i
        BY <2>3
      <3>2. QED
        BY <2>4, <2>5, <3>1
    <2>7. \A i \in 1 .. m : i =< c => i \in 1 .. c
      BY <1>1, <2>3
    <2>8. QED
      BY <1>3, <2>3, <2>6, <2>7 DEF c
  <1>6. QED
    BY <1>4, <1>5

(* So whatever part of it has gone into the array, that content stays.      *)
LEMMA AbandonedCells ==
  ASSUME NEW data, NEW f, NEW b, Input(data, f, b), NEW u, u = Unfinished(f, b),
         NEW n \in ContentEnd(f) .. Min({Len(u), Len(data)}),
         NEW g, g = SubSeq(u, 1, n) \o SubSeq(data, n + 1, Len(data))
  PROVE  StaysPut(data, f, g)
  <1> DEFINE c == ContentEnd(f)
             p == SubSeq(u, 1, n)
             q == SubSeq(data, n + 1, Len(data))
  <1>1. c \in 1 .. Len(data) /\ Len(data) \in Nat
    BY LaidBase, InputFacts
  <1>2. Len(u) \in Nat /\ \A i \in 1 .. Len(u) : i =< c => u[i] = data[i]
    BY UnfinishedCells
  <1>3. n \in Nat /\ c =< n /\ n =< Len(u) /\ n =< Len(data)
    <2>1. Min({Len(u), Len(data)}) =< Len(u) /\ Min({Len(u), Len(data)}) =< Len(data)
          /\ Min({Len(u), Len(data)}) \in Nat
      <3>1. {Len(u), Len(data)} \subseteq Nat /\ {Len(u), Len(data)} # {}
        BY <1>1, <1>2
      <3>2. /\ Min({Len(u), Len(data)}) \in {Len(u), Len(data)}
            /\ \A y \in {Len(u), Len(data)} : Min({Len(u), Len(data)}) =< y
        BY ONLY <3>1, MinOf
      <3>3. QED
        BY <1>1, <1>2, <3>2
    <2>2. QED
      BY <1>1, <1>2, <2>1
  <1> HIDE DEF c
  <1>4. /\ Sequence(p) /\ Len(p) = n /\ \A i \in 1 .. n : p[i] = u[i]
    <2>1. 1 \in Int /\ n \in Int
      BY <1>3
    <2>2. /\ Sequence(p) /\ Len(p) = IF 1 <= n THEN n - 1 + 1 ELSE 0
          /\ \A i \in 1 .. n - 1 + 1 : p[i] = u[1 + i - 1]
      BY <2>1, AnySlice
    <2>3. (IF 1 <= n THEN n - 1 + 1 ELSE 0) = n /\ \A i \in 1 .. n : i \in 1 .. n - 1 + 1 /\ 1 + i - 1 = i
      BY <1>3
    <2> HIDE DEF p
    <2>4. QED
      BY <2>2, <2>3
  <1>5. Sequence(q)
    <2>1. n + 1 \in Int /\ Len(data) \in Int
      BY <1>1, <1>3
    <2>2. QED
      BY <2>1, AnySlice
  <1> HIDE DEF p, q
  <1>6. g = p \o q
    BY DEF p, q
  <1>7. Len(g) = n + Len(q) /\ (\A i \in 1 .. n : g[i] = p[i]) /\ Len(q) \in Nat
    <2>1. Len(p \o q) = Len(p) + Len(q) /\ \A i \in 1 .. Len(p) : (p \o q)[i] = p[i]
      BY ONLY <1>4, <1>5, Concat
    <2>2. Len(q) \in Nat
      BY <1>5, SeqLen
    <2>3. QED
      BY ONLY <1>4, <1>6, <2>1, <2>2
  <1>8. \A i \in 2 .. c : g[i] = data[i]
    <2>1. \A i \in 2 .. c : i \in 1 .. n /\ i \in 1 .. Len(u) /\ i =< c
      BY <1>1, <1>2, <1>3
    <2>2. QED
      BY <1>2, <1>4, <1>7, <2>1
  <1>9. c \in Nat /\ c >= 1 /\ c =< Len(g) /\ Len(g) \in Nat
    <2>1. \A k, r, j \in Nat : k =< j => k =< j + r /\ j + r \in Nat
      OBVIOUS
    <2>2. c \in Nat /\ c >= 1
      BY ONLY <1>1
    <2>3. c =< n + Len(q) /\ n + Len(q) \in Nat
      BY ONLY <1>3, <1>7, <2>1, <2>2
    <2>4. QED
      BY ONLY <1>7, <2>2, <2>3
  <1>10. QED
    BY <1>8, <1>9 DEF StaysPut, c

LEMMA KeptMatch ==
  ASSUME NEW f, OldInOrder(f), Sequence(f.names), NEW n, n = Len(Before(f)) + Len(After(f)) + 2,
         NEW T, T \subseteq Kept(f),
         NEW S, S = {i \in 1 .. n : Old(f, i) \in T}
  PROVE  Corresponding(NewOrder(f), n, S, Len(f.names), T)
  <1>1. n \in Nat /\ Len(f.names) \in Nat
    BY SeqLen DEF OldInOrder
  <1>2. T \subseteq 1 .. Len(f.names)
    BY DEF Kept
  <1>3. /\ \A i \in S : i \in 1 .. n /\ Old(f, i) \in T /\ Old(f, i) \in Kept(f)
        /\ S \subseteq 1 .. n
    OBVIOUS
  <1>4. \A i, j \in S : i < j => Old(f, i) < Old(f, j)
    BY <1>3 DEF OldInOrder
  <1>5. ASSUME NEW k \in T PROVE \E i \in S : Old(f, i) = k
    <2>1. PICK i \in 1 .. n : Old(f, i) = k
      BY DEF OldInOrder
    <2>2. i \in S
      BY <2>1
    <2>3. QED
      BY <2>1, <2>2
  <1>6. QED
    BY <1>1, <1>2, <1>3, <1>4, <1>5 DEF Corresponding, Old

(* Section 0 stays where it is; every other kept section is another one.    *)
FirstKept(f, n) ==
  /\ n \in Nat /\ 1 \in 1 .. n /\ Old(f, 1) = 1 /\ 1 \in Kept(f)
  /\ \A i \in 1 .. n : i # 1 /\ Old(f, i) \in Kept(f) => Old(f, i) \in 2 .. Len(f.shdrs)

LEMMA KeepingFirst ==
  ASSUME NEW data, NEW f, NEW b, Saving(data, f, b), Stays(data, f),
         NEW n, n = Len(Table(f, b))
  PROVE  FirstKept(f, n)
  <1>0. Input(data, f, b) /\ OldInOrder(f)
    BY InputFacts, OldOrder DEF Saving
  <1> DEFINE nb == Len(Before(f))
             na == Len(After(f))
             l == Len(f.shdrs)
  <1>1. n = nb + na + 2 /\ nb \in Nat /\ na \in Nat
    BY <1>0, TableParts DEF TableLaid
  <1>2. l \in Nat /\ Len(f.names) = l
    BY <1>0, InputFacts
  <1>3. Before(f)[1] = 1 /\ nb >= 1
    BY DEF Stays
  <1>4. 1 \in 1 .. nb /\ 1 \in 1 .. n /\ n \in Nat /\ 1 # nb + 1 /\ 1 # nb + na + 2
    BY <1>1, <1>3
  <1>5. Old(f, 1) = 1
    BY <1>0, <1>3, <1>4 DEF OldInOrder
  <1>6. 1 \in Kept(f)
    BY <1>0, <1>1, <1>4, <1>5 DEF OldInOrder
  <1>7. ASSUME NEW i \in 1 .. n, i # 1, Old(f, i) \in Kept(f) PROVE Old(f, i) \in 2 .. l
    <2>1. 1 < i
      BY <1>1, <1>7
    <2>2. Old(f, 1) < Old(f, i)
      BY <1>0, <1>1, <1>4, <1>5, <1>6, <1>7, <2>1 DEF OldInOrder
    <2>3. Old(f, i) \in 1 .. l
      BY <1>2, <1>7 DEF Kept
    <2> HIDE DEF l
    <2>4. QED
      BY <1>2, <1>5, <2>2, <2>3
  <1>8. QED
    BY <1>4, <1>5, <1>6, <1>7 DEF FirstKept

LEMMA HashedBack ==
  ASSUME NEW data, NEW f, NEW b, Saving(data, f, b), Stays(data, f),
         NEW h, h = Parse(Save(f, b)), NEW n, n = Len(Table(f, b))
  PROVE  /\ Hashed(h) = {i \in 1 .. n : Old(f, i) \in Hashed(f)}
         /\ Hashed(f) \subseteq Kept(f)
         /\ \A i \in Hashed(h) : i \in 1 .. n /\ i # 1 /\ Old(f, i) \in Kept(f)
  <1> DEFINE g == Save(f, b)
             nb == Len(Before(f))
             na == Len(After(f))
  <1>0. Input(data, f, b) /\ OldInOrder(f) /\ FirstKept(f, n)
    BY InputFacts, OldOrder, KeepingFirst DEF Saving
  <1>1. n = nb + na + 2 /\ nb \in Nat /\ na \in Nat /\ n \in Nat
    BY <1>0, TableParts DEF TableLaid
  <1>2. /\ Len(h.shdrs) = n /\ Len(h.names) = n
        /\ h.names[nb + 1] = SIG /\ h.names[n] = SHSTRTAB
    BY <1>1, NamingBack DEF NamesBack
  <1>3. Len(f.names) = Len(f.shdrs) /\ Len(f.shdrs) \in Nat
    BY <1>0, InputFacts
  <1>4. ASSUME NEW i \in Hashed(f) PROVE i \in Kept(f)
    BY <1>3 DEF Hashed, Kept
  <1>5. \A i \in 1 .. n : Old(f, i) \in Kept(f) => SectionKept(f, b, g, i)
    BY KeepingSections
  <1>6. ASSUME NEW i \in Hashed(h)
        PROVE  i \in 1 .. n /\ i # 1 /\ Old(f, i) \in Kept(f) /\ Old(f, i) \in Hashed(f)
    <2>1. i \in 1 .. n /\ i # 1 /\ h.names[i] \notin {SIG, BSIGN, SHSTRTAB}
          /\ h.shdrs[i].type # "NOBITS"
      BY <1>1, <1>2 DEF Hashed
    <2>2. i # nb + 1 /\ i # n
      BY <1>2, <2>1
    <2>3. Old(f, i) \in Kept(f)
      BY <1>0, <1>1, <2>1, <2>2 DEF OldInOrder
    <2>4. h.names[i] = f.names[Old(f, i)] /\ h.shdrs[i].type = f.shdrs[Old(f, i)].type
      BY <1>5, <2>1, <2>3 DEF SectionKept
    <2>5. Old(f, i) \in 2 .. Len(f.shdrs)
      BY <1>0, <2>1, <2>3 DEF FirstKept
    <2>6. QED
      BY <2>1, <2>3, <2>4, <2>5 DEF Hashed
  <1>7. ASSUME NEW i \in 1 .. n, Old(f, i) \in Hashed(f) PROVE i \in Hashed(h)
    <2>1. Old(f, i) \in Kept(f)
      BY <1>4, <1>7
    <2>2. h.names[i] = f.names[Old(f, i)] /\ h.shdrs[i].type = f.shdrs[Old(f, i)].type
      BY <1>5, <2>1 DEF SectionKept
    <2>3. i # 1
      <3>1. Old(f, i) \in 2 .. Len(f.shdrs)
        BY <1>7 DEF Hashed
      <3>2. Old(f, i) # 1
        BY <1>3, <3>1
      <3>3. QED
        BY <1>0, <3>2 DEF FirstKept
    <2>4. i \in 2 .. Len(h.shdrs)
      BY <1>1, <1>2, <2>3
    <2>5. f.names[Old(f, i)] \notin {SIG, BSIGN, SHSTRTAB} /\ f.shdrs[Old(f, i)].type # "NOBITS"
      BY <1>7 DEF Hashed
    <2>6. QED
      BY <2>2, <2>4, <2>5 DEF Hashed
  <1>8. QED
    BY <1>4, <1>6, <1>7


LEMMA PhdrsBack ==
  ASSUME NEW data, NEW f, NEW b, Saving(data, f, b), Stays(data, f),
         NEW g, g = Save(f, b)
  PROVE  Phnum(g) = Phnum(data) /\ Ehdr(g).phoff = Ehdr(data).phoff /\ Parse(g).phdrs = f.phdrs
  <1>0. Input(data, f, b) /\ Accepts(data) /\ f = Parse(data)
    BY InputFacts DEF Saving
  <1> DEFINE c == ContentEnd(f)
             np == Phnum(data)
             po == Ehdr(data).phoff
             n == Len(Table(f, b))
  <1>1. /\ f.ehdr \in Ehdrs /\ f.ehdr.phoff = po /\ f.ehdr.phnum = Ehdr(data).phnum
        /\ Len(f.phdrs) = np
        /\ \A i \in 1 .. Shnum(data) : f.shdrs[i] = data[Ehdr(data).shoff + i][2]
        /\ Shnum(data) = Len(f.shdrs)
    BY <1>0, ParsedHeaders
  <1>2. np \in Nat /\ po \in Nat /\ Shnum(data) \in Nat /\ Shnum(data) > 0
    BY <1>0, Accepted DEF Ehdrs
  <1>3. /\ Ehdr(g) = SavedEhdr(f, b) /\ Shnum(g) = n /\ n \in Nat /\ n >= 2
        /\ \A i \in 1 .. n : Parse(g).shdrs[i] = SavedHdrs(f, b)[i]
    BY ReadingBack DEF ReadBack
  <1>4. Ehdr(g).phoff = po /\ Ehdr(g).phnum = Ehdr(data).phnum
    BY <1>1, <1>3 DEF SavedEhdr, Ehdrs
  <1>5. StaysPut(data, f, g)
    BY StayingCells
  <1>6. Phnum(g) = Phnum(data)
    <2>1. CASE Ehdr(data).phnum # XIndex
      BY <1>4, <2>1 DEF Phnum
    <2>2. CASE Ehdr(data).phnum = XIndex
      <3>1. Phnum(data) = f.shdrs[1].info
        <4>1. 1 \in 1 .. Shnum(data)
          BY <1>2
        <4>2. QED
          BY <1>1, <2>2, <4>1 DEF Phnum
      <3>2. Phnum(g) = Parse(g).shdrs[1].info
        <4>1. 1 \in 1 .. Shnum(g)
          BY <1>3
        <4>2. Parse(g).shdrs[1] = g[Ehdr(g).shoff + 1][2]
          BY <4>1 DEF Parse, SectionTable
        <4>3. QED
          BY <1>4, <2>2, <4>2 DEF Phnum
      <3>3. FirstKept(f, n)
        BY KeepingFirst
      <3>4. SectionKept(f, b, g, 1)
        BY <3>3, KeepingSections DEF FirstKept
      <3>5. f.shdrs[1].type = "NULL"
        BY DEF Stays
      <3>6. f.shdrs[1].type # "REL"
        BY <3>5
      <3>7. Parse(g).shdrs[1].info = f.shdrs[1].info
        BY <3>3, <3>4, <3>6 DEF SectionKept, FirstKept
      <3>8. QED
        BY <3>1, <3>2, <3>7
    <2>3. QED
      BY <2>1, <2>2
  <1>7. \A i \in 1 .. np : g[po + i] = data[po + i]
    <2>1. ASSUME NEW i \in 1 .. np PROVE g[po + i] = data[po + i]
      <3>1. po >= 1 /\ po + np =< c
        <4>1. Len(f.phdrs) > 0
          BY <1>1, <1>2
        <4>2. QED
          BY <1>1, <4>1 DEF Stays
      <3> HIDE DEF po, np, c
      <3>2. c \in Nat
        BY <1>5 DEF StaysPut, c
      <3>3. po + i \in 2 .. c
        BY <1>2, <3>1, <3>2
      <3>4. QED
        BY <1>5, <3>3 DEF StaysPut, c
    <2>2. QED
      BY <2>1
  <1>8. Parse(g).phdrs = [i \in 1 .. np |-> g[po + i][2]]
    BY <1>4, <1>6 DEF Parse
  <1>9. f.phdrs = [i \in 1 .. np |-> data[po + i][2]]
    BY <1>0 DEF Parse
  <1>10. QED
    BY <1>4, <1>6, <1>7, <1>8, <1>9

LEMMA HashReadable ==
  ASSUME NEW data, NEW f, NEW b, Saving(data, f, b), Stays(data, f)
  PROVE  ~HashFails(Parse(Save(f, b)))
  <1> DEFINE h == Parse(Save(f, b))
  <1>1. ASSUME NEW i \in Hashed(h) PROVE DataReadable(h, i)
    <2>1. i \in 1 .. Len(Table(f, b)) /\ i # 1 /\ Old(f, i) \in Kept(f)
      BY HashedBack
    <2>2. DataKept(f, b, Save(f, b), i)
      BY <2>1, KeepingData
    <2>3. QED
      BY <2>2 DEF DataKept
  <1>2. QED
    BY <1>1 DEF HashFails

(* The hash of section i as HashOf puts it together. *)
SectionItems(f, i) ==
  <<<<"shdr", f.shdrs[i].name, f.shdrs[i].type, f.shdrs[i].alloc>>>> \o SectionData(f, i)

HashItems(f) ==
  LET c == Collect(Len(f.shdrs), Hashed(f))
  IN  [k \in 1 .. Len(c) |-> SectionItems(f, c[k])]

LEMMA HashIs ==
  ASSUME NEW f
  PROVE  HashOf(f) = [i \in 1 .. Len(f.phdrs) |-> <<"phdr", f.phdrs[i].type>>]
                     \o FlattenSeq(HashItems(f))
  BY DEF HashOf, HashItems, SectionItems

LEMMA HashBack ==
  ASSUME NEW data, NEW f, NEW b, Saving(data, f, b), Stays(data, f)
  PROVE  HashOf(Parse(Save(f, b))) = HashOf(f)
  <1>0. Input(data, f, b) /\ OldInOrder(f) /\ Sequence(f.names)
        /\ Len(f.names) = Len(f.shdrs)
    BY InputFacts, OldOrder DEF Saving
  <1> DEFINE g == Save(f, b)
             h == Parse(g)
             n == Len(Table(f, b))
             c == Collect(n, Hashed(h))
             d == Collect(Len(f.names), Hashed(f))
  <1>1. n = Len(Before(f)) + Len(After(f)) + 2
    BY <1>0, TableParts DEF TableLaid
  <1>2. /\ Hashed(h) = {i \in 1 .. n : Old(f, i) \in Hashed(f)}
        /\ Hashed(f) \subseteq Kept(f)
        /\ \A i \in Hashed(h) : i \in 1 .. n /\ i # 1 /\ Old(f, i) \in Kept(f)
    <2> HIDE DEF h, n
    <2>1. h = Parse(Save(f, b)) /\ n = Len(Table(f, b))
      BY DEF h, n
    <2>2. QED
      BY ONLY <2>1, Saving(data, f, b), Stays(data, f), HashedBack
  <1>3. Corresponding(NewOrder(f), n, Hashed(h), Len(f.names), Hashed(f))
    BY ONLY <1>0, <1>1, <1>2, KeptMatch
  <1>4. /\ Len(c) = Len(d) /\ Len(c) \in Nat
        /\ \A k \in 1 .. Len(c) : c[k] \in Hashed(h) /\ d[k] = Old(f, c[k])
    BY <1>3, CollectSame DEF Old
  <1>5. Len(h.shdrs) = n
    BY ReadingBack DEF ReadBack
  <1>6. ASSUME NEW i \in Hashed(h) PROVE SectionItems(h, i) = SectionItems(f, Old(f, i))
    <2>1. i \in 1 .. n /\ i # 1 /\ Old(f, i) \in Kept(f)
      BY <1>2
    <2>2. SectionKept(f, b, g, i) /\ DataKept(f, b, g, i)
      BY <2>1, KeepingSections, KeepingData
    <2>3. QED
      BY <2>2 DEF SectionKept, DataKept, SectionItems
  <1>7. HashItems(h) = HashItems(f)
    <2>1. HashItems(h) = [k \in 1 .. Len(c) |-> SectionItems(h, c[k])]
      BY <1>5 DEF HashItems
    <2>2. HashItems(f) = [k \in 1 .. Len(d) |-> SectionItems(f, d[k])]
      BY <1>0 DEF HashItems
    <2> HIDE DEF c, d, h
    <2>3. \A k \in 1 .. Len(c) : SectionItems(h, c[k]) = SectionItems(f, d[k])
      BY <1>4, <1>6
    <2>4. QED
      BY <1>4, <2>1, <2>2, <2>3
  <1>8. h.phdrs = f.phdrs
    BY PhdrsBack
  <1>9. QED
    BY <1>7, <1>8, HashIs


-----------------------------------------------------------------------------
(* What was written parseELF accepts, unless the note is one section too    *)
(* many.                                                                    *)
LEMMA OneMoreSection ==
  ASSUME NEW data, NEW f, NEW b, Input(data, f, b)
  PROVE  Len(Table(f, b)) \in Nat /\ Len(f.shdrs) \in Nat
         /\ Len(Table(f, b)) =< Len(f.shdrs) + 1
  <1> DEFINE m == Len(f.shdrs)
             s == Shstrtab(f)
  <1>1. /\ Sorted(f) /\ Sequence(f.names) /\ Len(f.names) = m /\ m \in Nat /\ s \in 1 .. m
    BY InputFacts
  <1>2. /\ IsFiniteSet(Kept(f)) /\ Cardinality(Kept(f)) \in Nat
        /\ Len(Before(f)) + Len(After(f)) =< Cardinality(Kept(f))
    BY <1>1, CountKept
  <1>3. f.names[s] = SHSTRTAB
    <2>1. s # 0
      BY <1>1
    <2>2. QED
      BY <1>1, <2>1 DEF Sorted
  <1>4. Kept(f) \subseteq 1 .. m /\ s \notin Kept(f)
    BY <1>1, <1>3 DEF Kept
  <1> HIDE DEF m, s
  <1>5. IsFiniteSet(1 .. m) /\ Cardinality(1 .. m) = m
    BY <1>1, Interval
  <1>6. Cardinality(Kept(f)) =< m - 1
    <2>1. Kept(f) \subseteq (1 .. m) \ {s}
      BY <1>4
    <2>2. IsFiniteSet((1 .. m) \ {s}) /\ Cardinality((1 .. m) \ {s}) = m - 1
      BY <1>1, <1>5, FS_RemoveElement
    <2>3. Cardinality(Kept(f)) =< Cardinality((1 .. m) \ {s})
      BY <2>1, <2>2, FS_Subset
    <2>4. QED
      BY <2>2, <2>3
  <1>7. TableLaid(f, b)
    BY TableParts
  <1>8. Len(Table(f, b)) = Len(Before(f)) + Len(After(f)) + 2
        /\ Len(Before(f)) \in Nat /\ Len(After(f)) \in Nat
    BY <1>7 DEF TableLaid
  <1>9. QED
    BY <1>1, <1>2, <1>6, <1>8 DEF m

LEMMA AcceptedMore ==
  ASSUME NEW data, Accepts(data)
  PROVE  /\ Ehdr(data).phnum = XIndex => Phnum(data) # 0
         /\ ~(Phnum(data) > MaxPhdrs) /\ ~(Shnum(data) > MaxSections)
         /\ Phnum(data) > 0 => Ehdr(data).phoff # 0
         /\ \A i \in 1 .. Phnum(data) : data[Ehdr(data).phoff + i][1] = "phdr"
  BY DEF Accepts, ParseError, Garbled

(* The header of .shstrtab, and every name's place in it, as read back.     *)
LEMMA NamesInPlace ==
  ASSUME NEW data, NEW f, NEW b, Saving(data, f, b), NEW n, n = Len(Table(f, b)),
         NEW g, g = Save(f, b), NEW h, h = Parse(g)
  PROVE  /\ n \in 1 .. n /\ h.shdrs[n] \in Shdrs
         /\ h.shdrs[n].type = f.shdrs[Shstrtab(f)].type
         /\ h.shdrs[n].off = Len(StrOut(f, b)) /\ h.shdrs[n].size = Len(NewStrings(f))
         /\ \A i \in 1 .. n : h.shdrs[i] \in Shdrs
                              /\ h.shdrs[i].name + 1 \in 1 .. Len(NewStrings(f))
  <1>0. Input(data, f, b)
    BY DEF Saving
  <1> DEFINE nb == Len(Before(f))
             na == Len(After(f))
             s == Shstrtab(f)
             q == Len(NewStrings(f))
  <1>1. /\ nb \in Nat /\ na \in Nat /\ n = nb + na + 2 /\ n \in Nat
        /\ \A i \in 1 .. nb : Table(f, b)[i] = Relinked(f, f.shdrs[Before(f)[i]])
        /\ Table(f, b)[nb + 1] = Relinked(f, SigHdr(f, b))
        /\ \A i \in 1 .. na : Table(f, b)[nb + 1 + i] = Relinked(f, Moved(f, b).hdrs[i])
        /\ Table(f, b)[n] = Relinked(f, StrHdr(f, b))
    BY <1>0, TableParts DEF TableLaid
  <1>2. /\ \A i \in 1 .. nb : Before(f)[i] \in 1 .. Len(f.shdrs)
        /\ \A i \in 1 .. na : After(f)[i] \in 1 .. Len(f.shdrs)
        /\ s \in 1 .. Len(f.shdrs)
        /\ \A i \in 1 .. Len(f.shdrs) : f.shdrs[i] \in Shdrs
    BY <1>0, InputFacts
  <1>3. /\ NameOffset(NewStrings(f)) + 1 \in 1 .. q /\ q \in Nat
        /\ \A i \in 1 .. Len(f.shdrs) : f.shdrs[i].name + 1 \in 1 .. q
    BY <1>0, NewNames
  <1>4. \A i \in 1 .. na : Moved(f, b).hdrs[i].name = f.shdrs[After(f)[i]].name
    <2>1. Placed(f, Base(f, b), na, Moved(f, b), Cells(data, b))
      BY <1>0, LaidMoved
    <2>2. ASSUME NEW i \in 1 .. na PROVE Moved(f, b).hdrs[i].name = f.shdrs[After(f)[i]].name
      <3>1. Moved(f, b).hdrs[i] = [f.shdrs[After(f)[i]] EXCEPT !.off = Moved(f, b).hdrs[i].off]
        BY <2>1 DEF Placed
      <3>2. f.shdrs[After(f)[i]] \in Shdrs
        BY <1>2
      <3>3. QED
        BY <3>1, <3>2 DEF Shdrs
    <2>3. QED
      BY <2>2
  <1>5. /\ n >= 2 /\ \A i \in 1 .. n : h.shdrs[i] = SavedHdrs(f, b)[i]
    BY ReadingBack DEF ReadBack
  <1>6. \A x : Relinked(f, x).name = x.name \/ x \notin Shdrs
    BY DEF Relinked, Shdrs
  <1>7. \A i \in 1 .. n : h.shdrs[i] \in Shdrs /\ h.shdrs[i].name = Table(f, b)[i].name
    BY <1>5, FieldsKept
  <1>8. /\ Relinked(f, SigHdr(f, b)).name = NameOffset(NewStrings(f))
        /\ \A i \in 1 .. na : Relinked(f, Moved(f, b).hdrs[i]).name = Moved(f, b).hdrs[i].name
    <2>1. NameOffset(NewStrings(f)) \in Nat /\ b.len \in Nat /\ ContentEnd(f) \in Nat
      <3>1. ContentEnd(f) \in 1 .. Len(data) /\ Len(data) \in Nat
        BY <1>0, LaidBase, InputFacts
      <3>2. b.len \in Nat
        BY <1>0 DEF Input
      <3>3. NameOffset(NewStrings(f)) \in Nat
        BY <1>0, NewNames
      <3> HIDE DEF q
      <3>4. QED
        BY ONLY <3>1, <3>2, <3>3
    <2>2. Relinked(f, SigHdr(f, b)).name = NameOffset(NewStrings(f))
      <3>1. SigHdr(f, b) \in Shdrs
        BY <2>1, NoteFields DEF SigHdr
      <3>2. SigHdr(f, b).name = NameOffset(NewStrings(f))
        BY DEF SigHdr
      <3>3. QED
        BY <1>6, <3>1, <3>2
    <2>3. Placed(f, Base(f, b), na, Moved(f, b), Cells(data, b))
      BY <1>0, LaidMoved
    <2>4. \A i \in 1 .. na : Moved(f, b).hdrs[i] \in Shdrs
      <3>1. Moved(f, b).hdrs \in Seq(Shdrs) /\ Len(Moved(f, b).hdrs) = na
        BY <2>3 DEF Placed
      <3>2. QED
        BY <3>1, ElementOfSeq
    <2>5. QED
      BY <1>6, <2>2, <2>4
  <1>9. /\ StrHdr(f, b) \in Shdrs /\ StrHdr(f, b).name = f.shdrs[s].name
        /\ StrHdr(f, b).type = f.shdrs[s].type /\ StrHdr(f, b).off = Len(StrOut(f, b))
        /\ StrHdr(f, b).size = q
    <2>1. Len(StrOut(f, b)) \in Nat
      BY <1>0, LaidAll DEF LaidOut
    <2>2. f.shdrs[s] \in Shdrs
      BY <1>2
    <2> HIDE DEF s, q
    <2>3. StrHdr(f, b) = [f.shdrs[s] EXCEPT !.off = Len(StrOut(f, b)), !.size = q]
      BY DEF StrHdr, s, q
    <2>4. QED
      BY ONLY <1>3, <2>1, <2>2, <2>3 DEF Shdrs
  <1>10. /\ Table(f, b)[n].name = f.shdrs[s].name /\ Table(f, b)[n].type = f.shdrs[s].type
         /\ Table(f, b)[n].off = Len(StrOut(f, b)) /\ Table(f, b)[n].size = q
    BY <1>1, <1>9 DEF Relinked, Shdrs
  <1>11. h.shdrs[n] = Table(f, b)[n]
    <2>1. n \in 1 .. Len(Table(f, b)) /\ n # 1
      BY <1>5, <1>1
    <2>2. SavedHdrs(f, b)[n] = Table(f, b)[n]
      BY <2>1, HeaderKept
    <2>3. QED
      BY <1>5, <2>1, <2>2
  <1>12. ASSUME NEW i \in 1 .. n PROVE Table(f, b)[i].name + 1 \in 1 .. q
    <2>1. CASE i \in 1 .. nb
      BY <1>1, <1>2, <1>3, <1>6, <2>1
    <2>2. CASE i = nb + 1
      BY <1>1, <1>3, <1>8, <2>2
    <2>3. CASE i = n
      BY <1>2, <1>3, <1>10, <2>3
    <2>4. CASE \E j \in 1 .. na : i = nb + 1 + j
      <3>1. PICK j \in 1 .. na : i = nb + 1 + j
        BY <2>4
      <3>2. Table(f, b)[i].name = f.shdrs[After(f)[j]].name
        BY <1>1, <1>4, <1>8, <3>1
      <3>3. QED
        BY <1>2, <1>3, <3>2
    <2>5. i \in 1 .. nb \/ i = nb + 1 \/ i = n \/ \E j \in 1 .. na : i = nb + 1 + j
      <3>1. \/ i \in 1 .. nb \/ i = nb + 1 \/ i = n
            \/ i - (nb + 1) \in 1 .. na /\ i = nb + 1 + (i - (nb + 1))
        BY <1>1
      <3>2. QED
        BY <3>1
    <2>6. QED
      BY <2>1, <2>2, <2>3, <2>4, <2>5
  <1>13. n \in 1 .. n
    BY <1>1
  <1>14. QED
    BY <1>7, <1>10, <1>11, <1>12, <1>13


(* The section-header table of the image, and the tables before it.         *)
TablesPlaced(data, f, b, g) ==
  LET n == Len(Table(f, b))
  IN  /\ Len(g) \in Nat /\ Ehdr(g).shoff = Len(Layout(f, b).out)
      /\ Ehdr(g).shoff \in Nat /\ Ehdr(g).shoff >= 1 /\ n \in Nat /\ n >= 2
      /\ Ehdr(g).shoff + n = Len(g) /\ Shnum(g) = n /\ Shstrndx(g) = n - 1
      /\ Ehdr(g).phnum = Ehdr(data).phnum
      /\ \A i \in 1 .. n : IsShdr(g[Ehdr(g).shoff + i])
      /\ Phnum(g) > 0 => /\ Ehdr(g).phoff \in Nat /\ Ehdr(g).phoff >= 1
                         /\ Ehdr(g).phoff + Phnum(g) =< ContentEnd(f)
                         /\ ContentEnd(f) \in Nat /\ ContentEnd(f) =< Len(g)
      /\ \A i \in 1 .. Phnum(g) : g[Ehdr(g).phoff + i][1] = "phdr"

LEMMA TablesInPlace ==
  ASSUME NEW data, NEW f, NEW b, Saving(data, f, b), Stays(data, f),
         NEW g, g = Save(f, b)
  PROVE  TablesPlaced(data, f, b, g)
  <1>0. Input(data, f, b) /\ Accepts(data) /\ f = Parse(data)
    BY InputFacts DEF Saving
  <1> DEFINE n == Len(Table(f, b))
             m == Len(Layout(f, b).out)
             e == Ehdr(g)
             c == ContentEnd(f)
  <1>1. /\ Ehdr(g) = SavedEhdr(f, b) /\ Shnum(g) = n /\ n \in Nat /\ n >= 2
        /\ Shstrndx(g) = n - 1
    BY ReadingBack DEF ReadBack
  <1>2. f.ehdr \in Ehdrs /\ f.ehdr.phnum = Ehdr(data).phnum /\ f.ehdr.phoff = Ehdr(data).phoff
        /\ Len(f.phdrs) = Phnum(data)
    BY <1>0, ParsedHeaders
  <1>3. e.shoff = m /\ e.phnum = Ehdr(data).phnum
    BY <1>1, <1>2 DEF SavedEhdr, Ehdrs
  <1>4. /\ Len(g) = m + n /\ m \in Nat /\ m >= 1
        /\ \A i \in 1 .. n : g[m + i] = ShdrCell(SavedHdrs(f, b)[i])
    BY SavedCells DEF Written
  <1>5. \A i \in 1 .. n : IsShdr(g[m + i])
    BY <1>4 DEF IsShdr, ShdrCell
  <1>6. Phnum(g) = Phnum(data) /\ e.phoff = Ehdr(data).phoff /\ Parse(g).phdrs = f.phdrs
    BY PhdrsBack
  <1>7. Phnum(data) \in Nat /\ Ehdr(data).phoff \in Nat
    BY <1>0, Accepted DEF Ehdrs
  <1>8. StaysPut(data, f, g)
    BY StayingCells
  <1>9. Phnum(data) > 0 => Ehdr(data).phoff >= 1 /\ Ehdr(data).phoff + Phnum(data) =< c
    BY <1>2 DEF Stays
  <1>10. \A i \in 1 .. Phnum(data) : data[Ehdr(data).phoff + i][1] = "phdr"
    BY <1>0, AcceptedMore
  <1>11. ASSUME NEW i \in 1 .. Phnum(data) PROVE g[Ehdr(data).phoff + i] = data[Ehdr(data).phoff + i]
    <2> HIDE DEF c
    <2>1. c \in Nat
      BY <1>8 DEF StaysPut, c
    <2>2. Ehdr(data).phoff + i \in 2 .. c
      BY <1>7, <1>9, <2>1
    <2>3. QED
      BY <1>8, <2>2 DEF StaysPut, c
  <1>12. c \in Nat /\ c =< Len(g)
    BY <1>8 DEF StaysPut
  <1> HIDE DEF e, m, c
  <1>13. Phnum(g) > 0 => e.phoff \in Nat /\ e.phoff >= 1 /\ e.phoff + Phnum(g) =< c
    BY <1>6, <1>7, <1>9
  <1>14. \A i \in 1 .. Phnum(g) : g[e.phoff + i][1] = "phdr"
    BY <1>6, <1>10, <1>11
  <1>15. Len(g) \in Nat /\ e.shoff \in Nat /\ e.shoff >= 1 /\ e.shoff + n = Len(g)
    BY <1>1, <1>3, <1>4
  <1>16. QED
    BY <1>1, <1>3, <1>5, <1>12, <1>13, <1>14, <1>15 DEF TablesPlaced, e, m, c, n

LEMMA NotGarbled ==
  ASSUME NEW data, NEW f, NEW b, Saving(data, f, b), Stays(data, f),
         NEW g, g = Save(f, b)
  PROVE  ~Garbled(g)
  <1>1. \A i \in 1 .. Shnum(g) : g[Ehdr(g).shoff + i][1] = "shdr"
    BY TablesInPlace DEF TablesPlaced, IsShdr
  <1>2. \A i \in 1 .. Phnum(g) : g[Ehdr(g).phoff + i][1] = "phdr"
    BY TablesInPlace DEF TablesPlaced
  <1>3. StringTable(g) = NewStrings(f)
    BY ReadingBack DEF ReadBack
  <1>4. \A i \in 1 .. Len(NewStrings(f)) : NewStrings(f)[i][1] = "name"
    BY NewNames DEF Saving
  <1>5. QED
    BY <1>1, <1>2, <1>3, <1>4 DEF Garbled

(* parseELF takes what was written, but for the one section too many. *)
Rereads(g, f) ==
  \/ ParseError(g) = ""
  \/ ParseError(g) = "section limit" /\ Len(f.shdrs) = MaxSections

LEMMA ParsesBack ==
  ASSUME NEW data, NEW f, NEW b, Saving(data, f, b), Stays(data, f),
         NEW g, g = Save(f, b)
  PROVE  Rereads(g, f)
  <1>0. Input(data, f, b) /\ Accepts(data) /\ f = Parse(data)
    BY InputFacts DEF Saving
  <1> DEFINE n == Len(Table(f, b))
             e == Ehdr(g)
             h == Parse(g)
             so == e.shoff
             q == Len(NewStrings(f))
             sh == SectionTable(g)[Shstrndx(g) + 1]
  <1>1. /\ Len(g) \in Nat /\ so \in Nat /\ so >= 1 /\ n \in Nat /\ n >= 2
        /\ so + n = Len(g) /\ Shnum(g) = n /\ Shstrndx(g) = n - 1
        /\ e.phnum = Ehdr(data).phnum
        /\ \A i \in 1 .. n : IsShdr(g[so + i])
        /\ Phnum(g) > 0 => /\ e.phoff \in Nat /\ e.phoff >= 1
                           /\ e.phoff + Phnum(g) =< ContentEnd(f)
                           /\ ContentEnd(f) \in Nat /\ ContentEnd(f) =< Len(g)
    BY TablesInPlace DEF TablesPlaced
  <1>2. /\ Ehdr(data).phnum = XIndex => Phnum(data) # 0
        /\ ~(Phnum(data) > MaxPhdrs) /\ ~(Shnum(data) > MaxSections)
        /\ Phnum(data) \in Nat /\ Shnum(data) \in Nat
    BY <1>0, AcceptedMore, Accepted
  <1>3. Phnum(g) = Phnum(data)
    BY PhdrsBack
  <1>4. g # <<>> /\ g[1][1] = "ehdr"
    <2>1. g[1] = EhdrCell(SavedEhdr(f, b))
      BY SavedCells DEF Written
    <2>2. Len(g) # 0
      BY <1>1
    <2>3. QED
      BY <2>1, <2>2, EmptySeq DEF EhdrCell
  <1>5. HasShdr0(g)
    <2> HIDE DEF n, so, e
    <2>1. so > 0 /\ so =< Len(g) /\ 1 =< Len(g) - so /\ 1 \in 1 .. n
      BY <1>1
    <2>2. QED
      BY <1>1, <2>1 DEF HasShdr0, RangeWithinFile, so, e
  <1>6. RangeWithinFile(so, n, g)
    <2> HIDE DEF n, so
    <2>1. so =< Len(g) /\ n =< Len(g) - so
      BY <1>1
    <2>2. QED
      BY <2>1 DEF RangeWithinFile
  <1>7. Phnum(g) > 0 => e.phoff # 0 /\ RangeWithinFile(e.phoff, Phnum(g), g)
    <2> HIDE DEF n, so, e
    <2>1. SUFFICES ASSUME Phnum(g) > 0 PROVE e.phoff # 0 /\ RangeWithinFile(e.phoff, Phnum(g), g)
      OBVIOUS
    <2>2. Phnum(g) \in Nat
      BY <1>2, <1>3
    <2>3. e.phoff # 0 /\ e.phoff =< Len(g) /\ Phnum(g) =< Len(g) - e.phoff
      BY <1>1, <2>1, <2>2
    <2>4. QED
      BY <2>3 DEF RangeWithinFile
  <1>8. ~Garbled(g)
    BY NotGarbled
  <1>9. /\ n \in 1 .. n /\ h.shdrs[n].type = f.shdrs[Shstrtab(f)].type
        /\ h.shdrs[n].off = Len(StrOut(f, b)) /\ h.shdrs[n].size = q
        /\ \A i \in 1 .. n : h.shdrs[i] \in Shdrs /\ h.shdrs[i].name + 1 \in 1 .. q
    BY NamesInPlace
  <1>10. SectionTable(g) = h.shdrs
    BY DEF Parse
  <1>11. sh = h.shdrs[n]
    <2>1. Shstrndx(g) + 1 = n
      BY <1>1
    <2>2. QED
      BY <1>10, <2>1
  <1>12. sh.type # "NOBITS"
    <2>1. Shstrtab(f) = Shstrndx(data) + 1
      BY <1>0 DEF Input
    <2>2. f.shdrs[Shstrtab(f)].type # "NOBITS"
      BY <1>0, <2>1, ParsedStrings
    <2>3. QED
      BY <1>9, <1>11, <2>2
  <1>13. RangeWithinFile(sh.off, sh.size, g) /\ q \in Nat
    <2>1. /\ Lies(Layout(f, b).out, NewStrings(f), Len(StrOut(f, b)))
          /\ Len(StrOut(f, b)) \in Nat /\ Len(Layout(f, b).out) \in Nat
      BY <1>0, LaidAll DEF LaidOut
    <2>2. so = Len(Layout(f, b).out)
      BY TablesInPlace DEF TablesPlaced
    <2>3. q \in Nat
      BY <1>0, NewNames
    <2>4. Len(StrOut(f, b)) + q =< so
      BY <2>1, <2>2 DEF Lies
    <2> HIDE DEF q, so, n, sh
    <2>5. Len(StrOut(f, b)) =< Len(g) /\ q =< Len(g) - Len(StrOut(f, b))
      BY <1>1, <2>1, <2>3, <2>4
    <2>6. sh.off = Len(StrOut(f, b)) /\ sh.size = q
      BY <1>9, <1>11
    <2>7. QED
      BY <2>3, <2>5, <2>6 DEF RangeWithinFile
  <1>14. \A i \in 1 .. n : ~(SectionTable(g)[i].name >= sh.size)
    <2>1. sh.size = q
      BY <1>9, <1>11
    <2> HIDE DEF q, n, sh, h
    <2>2. ASSUME NEW i \in 1 .. n PROVE ~(h.shdrs[i].name >= q)
      <3>1. h.shdrs[i].name \in Nat /\ h.shdrs[i].name + 1 \in 1 .. q
        BY <1>9 DEF Shdrs
      <3>2. QED
        BY <1>13, <3>1
    <2>3. QED
      BY <1>10, <2>1, <2>2
  <1>15. Shnum(g) > MaxSections => Len(f.shdrs) = MaxSections
    <2>1. n =< Len(f.shdrs) + 1 /\ Len(f.shdrs) \in Nat
      BY <1>0, OneMoreSection
    <2>2. Len(f.shdrs) = Shnum(data)
      BY <1>0, ParsedHeaders
    <2> HIDE DEF n
    <2>3. QED
      BY <1>1, <1>2, <2>1, <2>2, LimitsAssumption
  <1>16. /\ ~(g = <<>> \/ g[1][1] # "ehdr") /\ ~(e.shoff = 0 /\ e.shnum = 0)
         /\ ~(e.phnum = XIndex /\ (~HasShdr0(g) \/ Phnum(g) = 0))
         /\ ~(Phnum(g) > MaxPhdrs)
         /\ ~(Phnum(g) > 0 /\ (e.phoff = 0 \/ ~RangeWithinFile(e.phoff, Phnum(g), g)))
         /\ ~(e.shnum = 0 /\ ~HasShdr0(g))
         /\ Shnum(g) # 0
         /\ RangeWithinFile(e.shoff, Shnum(g), g)
         /\ ~(Shstrndx(g) >= Shnum(g))
    <2>1. so # 0 /\ Shnum(g) # 0 /\ ~(Shstrndx(g) >= Shnum(g))
      <3> HIDE DEF n, so, e
      <3>1. QED
        BY <1>1
    <2>2. ~(e.phnum = XIndex /\ (~HasShdr0(g) \/ Phnum(g) = 0)) /\ ~(Phnum(g) > MaxPhdrs)
      <3> HIDE DEF n, so, e
      <3>1. QED
        BY <1>1, <1>2, <1>3, <1>5
    <2>3. QED
      BY <1>1, <1>4, <1>5, <1>6, <1>7, <2>1, <2>2
  <1>17. ~(sh.type = "NOBITS" \/ ~RangeWithinFile(sh.off, sh.size, g))
         /\ ~(\E i \in 1 .. Shnum(g) : SectionTable(g)[i].name >= sh.size)
    BY <1>1, <1>12, <1>13, <1>14
  <1> HIDE DEF n, so, h, q
  <1>18. ParseError(g) = IF Shnum(g) > MaxSections THEN "section limit" ELSE ""
    BY <1>8, <1>16, <1>17 DEF ParseError
  <1>19. QED
    BY <1>15, <1>18 DEF Rereads
-----------------------------------------------------------------------------
(* Where the parts of the image lie: what stays, the note, what moved, the  *)
(* string table, the section headers, in this order.                        *)
Between(S, lo, hi) == S \subseteq lo .. (hi - 1)

LEMMA Apart ==
  ASSUME NEW a \in Nat, NEW b \in Nat, NEW c \in Nat, NEW d \in Nat, b =< c,
         NEW S, NEW T, Between(S, a, b), Between(T, c, d)
  PROVE  S \cap T = {} /\ T \cap S = {}
  BY DEF Between

LEMMA CoverBetween ==
  ASSUME NEW o \in Nat, NEW s \in Nat, NEW lo \in Nat, NEW hi \in Nat, lo =< o, o + s =< hi
  PROVE  Between(Cover(o, s), lo, hi)
  BY DEF Between, Cover

Placement(f, b, h) ==
  LET nb == Len(Before(f))
      na == Len(After(f))
      c  == ContentEnd(f)
      l  == c + b.len
      mo == Len(Moved(f, b).out)
      so == Len(StrOut(f, b))
      m  == Len(Layout(f, b).out)
  IN  /\ nb \in Nat /\ na \in Nat /\ c \in Nat /\ l \in Nat /\ mo \in Nat /\ so \in Nat
      /\ m \in Nat /\ 1 =< c /\ c =< l /\ l =< mo /\ mo =< so /\ so =< m
      /\ nb >= 1 /\ Len(h.shdrs) = nb + na + 2
      /\ SectionCover(h, 1) = {}
      /\ \A i \in 2 .. nb : Between(SectionCover(h, i), 1, c)
      /\ Between(SectionCover(h, nb + 1), c, l)
      /\ \A j \in 1 .. na : Between(SectionCover(h, nb + 1 + j), l, mo)
      /\ Between(SectionCover(h, nb + na + 2), so, m)

LEMMA PlacementBounds ==
  ASSUME NEW data, NEW f, NEW b, Input(data, f, b)
  PROVE  /\ ContentEnd(f) \in Nat /\ ContentEnd(f) + b.len \in Nat
         /\ Len(Moved(f, b).out) \in Nat /\ Len(StrOut(f, b)) \in Nat
         /\ Len(Layout(f, b).out) \in Nat
         /\ 1 =< ContentEnd(f) /\ ContentEnd(f) =< ContentEnd(f) + b.len
         /\ ContentEnd(f) + b.len =< Len(Moved(f, b).out)
         /\ Len(Moved(f, b).out) =< Len(StrOut(f, b))
         /\ Len(StrOut(f, b)) + Len(NewStrings(f)) =< Len(Layout(f, b).out)
         /\ Len(NewStrings(f)) \in Nat
  <1>1. /\ ContentEnd(f) \in 1 .. Len(data) /\ Len(Base(f, b)) = ContentEnd(f) + b.len
        /\ b.len \in Nat /\ Len(data) \in Nat
    BY LaidBase, InputFacts
  <1>2. /\ Len(Base(f, b)) =< Len(Moved(f, b).out)
        /\ Len(Moved(f, b).out) =< Len(StrOut(f, b))
        /\ Len(StrOut(f, b)) \in Nat /\ Len(Layout(f, b).out) \in Nat
        /\ Len(StrOut(f, b)) + Len(NewStrings(f)) =< Len(Layout(f, b).out)
    BY LaidAll DEF LaidOut, Lies
  <1>3. Len(Moved(f, b).out) \in Nat
    BY LaidMoved, InSeq DEF Placed
  <1>4. Len(NewStrings(f)) \in Nat
    BY NewNames
  <1>5. QED
    BY <1>1, <1>2, <1>3, <1>4

LEMMA NoteHeader ==
  ASSUME NEW data, NEW f, NEW b, Saving(data, f, b), Stays(data, f),
         NEW x, x = Parse(Save(f, b)).shdrs[Len(Before(f)) + 1]
  PROVE  x.off = ContentEnd(f) /\ x.size = b.len /\ x.type = "NOTE"
  <1>0. Input(data, f, b)
    BY DEF Saving
  <1> DEFINE nb == Len(Before(f))
             t == Table(f, b)[nb + 1]
  <1>1. TableLaid(f, b)
    BY <1>0, TableParts
  <1>2. /\ nb \in Nat /\ Len(Table(f, b)) = nb + Len(After(f)) + 2 /\ Len(After(f)) \in Nat
        /\ t = Relinked(f, SigHdr(f, b))
    BY <1>1 DEF TableLaid
  <1>3. nb >= 1
    BY DEF Stays
  <1>4. nb + 1 \in 1 .. Len(Table(f, b)) /\ nb + 1 # 1
    BY <1>2, <1>3
  <1>5. SavedHdrs(f, b)[nb + 1] = t
    BY <1>4, HeaderKept
  <1>6. x = SavedHdrs(f, b)[nb + 1]
    <2>1. \A i \in 1 .. Len(Table(f, b)) : Parse(Save(f, b)).shdrs[i] = SavedHdrs(f, b)[i]
      BY ReadingBack DEF ReadBack
    <2>2. QED
      BY <1>4, <2>1
  <1>7. /\ SigHdr(f, b).off = ContentEnd(f) /\ SigHdr(f, b).size = b.len
        /\ SigHdr(f, b).type = "NOTE" /\ SigHdr(f, b) \in Shdrs
    <2>1. ContentEnd(f) \in Nat /\ b.len \in Nat
      BY <1>0, PlacementBounds DEF Input
    <2>2. NameOffset(NewStrings(f)) \in Nat
      BY <1>0, NewNames
    <2>3. SigHdr(f, b) \in Shdrs
      BY <2>1, <2>2, NoteFields DEF SigHdr
    <2>4. QED
      BY <2>3 DEF SigHdr
  <1> HIDE DEF t, nb
  <1>8. \A y \in Shdrs : /\ Relinked(f, y).off = y.off /\ Relinked(f, y).size = y.size
                         /\ Relinked(f, y).type = y.type
    BY DEF Relinked, Shdrs
  <1>9. QED
    BY <1>2, <1>5, <1>6, <1>7, <1>8

(* A kept section that moved lies with its like.                            *)
MovedAt(f, b, h, j) ==
  LET y == h.shdrs[Len(Before(f)) + 1 + j]
      v == Moved(f, b).hdrs[j]
  IN  HasData(y) => /\ y.off = v.off /\ y.off \in Nat /\ y.size \in Nat
                    /\ Len(SectionData(f, After(f)[j])) = y.size
                    /\ y.off + y.size =< Len(Moved(f, b).out)
                    /\ y.off >= ContentEnd(f) + b.len

LEMMA MovingData ==
  ASSUME NEW data, NEW f, NEW b, Saving(data, f, b), Stays(data, f),
         NEW h, h = Parse(Save(f, b)), NEW j \in 1 .. Len(After(f))
  PROVE  MovedAt(f, b, h, j)
  <1>0. Input(data, f, b) /\ OldInOrder(f)
    BY InputFacts, OldOrder DEF Saving
  <1> DEFINE nb == Len(Before(f))
             na == Len(After(f))
             i == nb + 1 + j
             k == After(f)[j]
             d == SectionData(f, k)
             x == f.shdrs[k]
             y == h.shdrs[i]
             v == Moved(f, b).hdrs[j]
  <1>1. /\ nb \in Nat /\ na \in Nat /\ Len(Table(f, b)) = nb + na + 2
    BY <1>0, TableParts DEF TableLaid
  <1>2. nb >= 1
    BY DEF Stays
  <1>3. i \in 1 .. nb + na + 2 /\ i # nb + 1 /\ i # nb + na + 2 /\ i # 1 /\ ~(i =< nb)
    BY <1>1, <1>2
  <1>4. Old(f, i) \in Kept(f) /\ Old(f, i) = k
    BY <1>0, <1>3 DEF OldInOrder
  <1>5. SectionKept(f, b, Save(f, b), i) /\ DataKept(f, b, Save(f, b), i)
    BY <1>1, <1>3, <1>4, KeepingSections, KeepingData
  <1>6. y.off = v.off /\ y.off \in Nat /\ y.size \in Nat /\ y.size = x.size
        /\ (HasData(y) <=> HasData(x)) /\ y.off >= ContentEnd(f) + b.len
    <2>1. PICK p \in 1 .. na : i = nb + 1 + p /\ y.off = Moved(f, b).hdrs[p].off
      BY <1>3, <1>5 DEF SectionKept
    <2>2. p = j
      BY <1>1, <2>1
    <2>3. y.off = v.off
      BY <2>1, <2>2
    <2>4. y \in Shdrs /\ y.off >= ContentEnd(f) + b.len
      BY <1>3, <1>5 DEF SectionKept
    <2>5. y.size = x.size /\ (HasData(y) <=> HasData(x))
      BY <1>4, <1>5 DEF DataKept
    <2> HIDE DEF y, v, x, i
    <2>6. QED
      BY <2>3, <2>4, <2>5 DEF Shdrs
  <1>7. Lies(Moved(f, b).out, d, v.off)
    BY <1>0, LaidMoved DEF Placed
  <1>8. Len(d) = IF HasData(x) THEN x.size ELSE 0
    <2>1. k \in 1 .. Len(f.shdrs) /\ DataReadable(f, k) /\ Accepts(data) /\ f = Parse(data)
          /\ data \in Seq(Cells(data, b))
      BY <1>0, InputFacts
    <2> HIDE DEF k
    <2>2. QED
      BY <2>1, DataOfSection
  <1>9. v.off + Len(d) =< Len(Moved(f, b).out)
    BY <1>7 DEF Lies
  <1> HIDE DEF y, v, x, i, d, k, nb, na
  <1>10. HasData(y) => /\ y.off = v.off /\ y.off \in Nat /\ y.size \in Nat
                       /\ Len(d) = y.size
                       /\ y.off + y.size =< Len(Moved(f, b).out)
                       /\ y.off >= ContentEnd(f) + b.len
    BY <1>6, <1>8, <1>9
  <1>11. QED
    BY <1>10 DEF MovedAt, y, v, x, i, d, k, nb


LEMMA Placing ==
  ASSUME NEW data, NEW f, NEW b, Saving(data, f, b), Stays(data, f),
         NEW h, h = Parse(Save(f, b))
  PROVE  Placement(f, b, h)
  <1>0. Input(data, f, b) /\ OldInOrder(f) /\ FirstKept(f, Len(Table(f, b)))
    BY InputFacts, OldOrder, KeepingFirst DEF Saving
  <1> DEFINE nb == Len(Before(f))
             na == Len(After(f))
             n  == nb + na + 2
             c  == ContentEnd(f)
             l  == c + b.len
             mo == Len(Moved(f, b).out)
             so == Len(StrOut(f, b))
             m  == Len(Layout(f, b).out)
             sc(i) == SectionCover(h, i)
             g == Save(f, b)
  <1>1. /\ nb \in Nat /\ na \in Nat /\ Len(Table(f, b)) = n /\ nb >= 1
    BY <1>0, TableParts DEF TableLaid, Stays
  <1>2. /\ c \in Nat /\ l \in Nat /\ mo \in Nat /\ so \in Nat /\ m \in Nat
        /\ 1 =< c /\ c =< l /\ l =< mo /\ mo =< so /\ so + Len(NewStrings(f)) =< m
        /\ Len(NewStrings(f)) \in Nat
    BY <1>0, PlacementBounds
  <1>3. so =< m
    <2> HIDE DEF so, m
    <2>1. QED
      BY <1>2
  <1>4. Len(h.shdrs) = n
    BY <1>1, ReadingBack DEF ReadBack
  <1>5. sc(1) = {}
    <2>1. 1 \in 1 .. Len(Table(f, b)) /\ Old(f, 1) = 1 /\ Old(f, 1) \in Kept(f)
      BY <1>0 DEF FirstKept
    <2>2. SectionKept(f, b, g, 1)
      BY <2>1, KeepingSections
    <2>3. h.shdrs[1].type = "NULL"
      BY <2>1, <2>2 DEF SectionKept, Stays
    <2>4. QED
      BY <2>3 DEF SectionCover
  <1>6. ASSUME NEW i \in 2 .. nb PROVE Between(sc(i), 1, c)
    <2>1. i \in 1 .. Len(Table(f, b)) /\ i # 1 /\ i # nb + 1 /\ i # n /\ i =< nb
      BY <1>1
    <2>2. Old(f, i) \in Kept(f)
      BY <1>0, <1>1, <2>1 DEF OldInOrder
    <2>3. DataKept(f, b, g, i)
      BY <2>1, <2>2, KeepingData
    <2> DEFINE y == h.shdrs[i]
    <2>4. HasData(y) => /\ y.off \in Nat /\ y.size \in Nat /\ 1 =< y.off
                        /\ y.off + y.size =< c
      BY <2>1, <2>3 DEF DataKept
    <2>5. CASE HasData(y) /\ y.type # "NULL"
      <3>1. sc(i) = Cover(y.off, y.size)
        BY <2>5 DEF SectionCover
      <3>2. 1 \in Nat
        OBVIOUS
      <3> HIDE DEF sc, c, y
      <3>3. Between(Cover(y.off, y.size), 1, c)
        BY <1>2, <2>4, <2>5, <3>2, CoverBetween
      <3>4. QED
        BY <3>1, <3>3
    <2>6. CASE ~(HasData(y) /\ y.type # "NULL")
      BY <2>6 DEF SectionCover, Between
    <2>7. QED
      BY <2>5, <2>6
  <1>7. Between(sc(nb + 1), c, l)
    <2> DEFINE y == h.shdrs[nb + 1]
    <2>1. y.off = c /\ y.size = b.len
      BY NoteHeader
    <2>2. b.len \in Nat
      BY <1>0 DEF Input
    <2>3. sc(nb + 1) = {} \/ sc(nb + 1) = Cover(c, b.len)
      BY <2>1 DEF SectionCover
    <2>4. l =< l
      BY <1>2
    <2>5. Between(Cover(c, b.len), c, l)
      <3> HIDE DEF c, l
      <3>1. c \in Nat /\ l \in Nat /\ b.len \in Nat /\ c =< c /\ c + b.len =< l
        BY <1>2, <2>2, <2>4 DEF l
      <3>2. QED
        BY ONLY <3>1, CoverBetween
    <2>6. QED
      BY <2>3, <2>5 DEF Between
  <1>8. ASSUME NEW j \in 1 .. na PROVE Between(sc(nb + 1 + j), l, mo)
    <2> DEFINE y == h.shdrs[nb + 1 + j]
    <2>1. MovedAt(f, b, h, j)
      BY MovingData
    <2>2. HasData(y) => /\ y.off \in Nat /\ y.size \in Nat /\ l =< y.off
                        /\ y.off + y.size =< mo
      <3>1. HasData(y) => /\ y.off \in Nat /\ y.size \in Nat /\ y.off >= l
                        /\ y.off + y.size =< mo
        BY <2>1 DEF MovedAt
      <3> HIDE DEF y, l, mo
      <3>2. QED
        BY <1>2, <3>1
    <2>3. CASE HasData(y) /\ y.type # "NULL"
      <3>1. sc(nb + 1 + j) = Cover(y.off, y.size)
        BY <2>3 DEF SectionCover
      <3> HIDE DEF sc, l, mo, y, nb
      <3>2. Between(Cover(y.off, y.size), l, mo)
        BY <1>2, <2>2, <2>3, CoverBetween
      <3>3. QED
        BY <3>1, <3>2
    <2>4. CASE ~(HasData(y) /\ y.type # "NULL")
      BY <2>4 DEF SectionCover, Between
    <2>5. QED
      BY <2>3, <2>4
  <1>9. Between(sc(n), so, m)
    <2> DEFINE y == h.shdrs[n]
               q == Len(NewStrings(f))
    <2>1. y.off = so /\ y.size = q
      <3>1. /\ h.shdrs[Len(Table(f, b))].off = Len(StrOut(f, b))
            /\ h.shdrs[Len(Table(f, b))].size = Len(NewStrings(f))
        BY NamesInPlace
      <3>2. QED
        BY <1>1, <3>1
    <2>2. sc(n) = {} \/ sc(n) = Cover(so, q)
      BY <2>1 DEF SectionCover
    <2>3. Between(Cover(so, q), so, m)
      <3> HIDE DEF so, m, q
      <3>1. so \in Nat /\ m \in Nat /\ q \in Nat /\ so =< so /\ so + q =< m
        BY <1>2 DEF q
      <3>2. QED
        BY ONLY <3>1, CoverBetween
    <2>4. QED
      BY <2>2, <2>3 DEF Between
  <1>10. QED
    BY <1>1, <1>2, <1>3, <1>4, <1>5, <1>6, <1>7, <1>8, <1>9 DEF Placement

(* Sections that stay, and those that move, are apart as they were.         *)
LEMMA StayApart ==
  ASSUME NEW data, NEW f, NEW b, Saving(data, f, b), Stays(data, f),
         NEW h, h = Parse(Save(f, b)), NEW i \in 2 .. Len(Before(f))
  PROVE  /\ SectionCover(h, i) \subseteq SectionCover(f, Before(f)[i])
         /\ Before(f)[i] \in 1 .. Len(f.shdrs)
  <1>0. Input(data, f, b) /\ OldInOrder(f)
    BY InputFacts, OldOrder DEF Saving
  <1> DEFINE nb == Len(Before(f))
             na == Len(After(f))
             y == h.shdrs[i]
             x == f.shdrs[Before(f)[i]]
  <1>1. /\ nb \in Nat /\ na \in Nat /\ Len(Table(f, b)) = nb + na + 2
    BY <1>0, TableParts DEF TableLaid
  <1>2. i \in 1 .. nb /\ i \in 1 .. nb + na + 2 /\ i # 1 /\ i # nb + 1 /\ i # nb + na + 2 /\ i =< nb
    BY <1>1
  <1>3. Old(f, i) \in Kept(f) /\ Old(f, i) = Before(f)[i]
    BY <1>0, <1>2 DEF OldInOrder
  <1>4. SectionKept(f, b, Save(f, b), i) /\ DataKept(f, b, Save(f, b), i)
    BY <1>1, <1>2, <1>3, KeepingSections, KeepingData
  <1>5. (HasData(y) <=> HasData(x)) /\ y.size = x.size /\ y.type = x.type
        /\ (HasData(y) => y.off = x.off)
    BY <1>2, <1>3, <1>4 DEF SectionKept, DataKept
  <1>6. SectionCover(h, i) \subseteq SectionCover(f, Before(f)[i])
    BY <1>5 DEF SectionCover
  <1>7. Before(f)[i] \in 1 .. Len(f.shdrs)
    BY <1>0, <1>2, InputFacts
  <1>8. QED
    BY <1>6, <1>7

LEMMA MovedApart ==
  ASSUME NEW data, NEW f, NEW b, Saving(data, f, b), Stays(data, f),
         NEW h, h = Parse(Save(f, b)), NEW i \in 1 .. Len(After(f)),
         NEW j \in 1 .. Len(After(f)), i < j
  PROVE  SectionCover(h, Len(Before(f)) + 1 + i) \cap SectionCover(h, Len(Before(f)) + 1 + j) = {}
  <1>0. Input(data, f, b)
    BY DEF Saving
  <1> DEFINE p == Len(Before(f)) + 1 + i
             q == Len(Before(f)) + 1 + j
             y == h.shdrs[p]
             z == h.shdrs[q]
  <1>1. MovedAt(f, b, h, i) /\ MovedAt(f, b, h, j)
    BY MovingData
  <1>2. Moved(f, b).hdrs[i].off + Len(SectionData(f, After(f)[i])) =< Moved(f, b).hdrs[j].off
    BY <1>0, LaidMoved DEF Placed
  <1>3. CASE HasData(y) /\ HasData(z)
    <2>1. /\ y.off \in Nat /\ y.size \in Nat /\ z.off \in Nat /\ z.size \in Nat
          /\ y.off + y.size =< z.off
      BY <1>1, <1>2, <1>3 DEF MovedAt
    <2>2. Cover(y.off, y.size) \cap Cover(z.off, z.size) = {}
      <3> HIDE DEF y, z
      <3>1. QED
        BY <2>1 DEF Cover
    <2>3. QED
      BY <2>2 DEF SectionCover
  <1>4. CASE ~(HasData(y) /\ HasData(z))
    BY <1>4 DEF SectionCover
  <1>5. QED
    BY <1>3, <1>4


LEMMA Widen ==
  ASSUME NEW S, NEW a \in Nat, NEW b \in Nat, NEW c \in Nat, NEW d \in Nat,
         Between(S, b, c), a =< b, c =< d
  PROVE  Between(S, a, d)
  BY DEF Between

LEMMA SectionsApart ==
  ASSUME NEW data, NEW f, NEW b, Saving(data, f, b), Stays(data, f),
         NEW h, h = Parse(Save(f, b)),
         NEW i \in 1 .. Len(h.shdrs), NEW j \in 1 .. Len(h.shdrs), i < j
  PROVE  SectionCover(h, i) \cap SectionCover(h, j) = {}
  <1> DEFINE nb == Len(Before(f))
             na == Len(After(f))
             n  == nb + na + 2
             c  == ContentEnd(f)
             l  == c + b.len
             mo == Len(Moved(f, b).out)
             so == Len(StrOut(f, b))
             m  == Len(Layout(f, b).out)
             sc(k) == SectionCover(h, k)
  <1>1. /\ nb \in Nat /\ na \in Nat /\ c \in Nat /\ l \in Nat /\ mo \in Nat /\ so \in Nat
        /\ m \in Nat /\ 1 =< c /\ c =< l /\ l =< mo /\ mo =< so /\ so =< m
        /\ nb >= 1 /\ Len(h.shdrs) = n
        /\ sc(1) = {}
        /\ \A k \in 2 .. nb : Between(sc(k), 1, c)
        /\ Between(sc(nb + 1), c, l)
        /\ \A k \in 1 .. na : Between(sc(nb + 1 + k), l, mo)
        /\ Between(sc(n), so, m)
    BY Placing DEF Placement
  <1>2. \A k \in 2 .. nb : /\ sc(k) \subseteq SectionCover(f, Before(f)[k])
                           /\ Before(f)[k] \in 1 .. Len(f.shdrs)
    BY StayApart
  <1>3. \A p, q \in 1 .. na : p < q => sc(nb + 1 + p) \cap sc(nb + 1 + q) = {}
    BY MovedApart
  <1>4. \A p, q \in 1 .. nb : p < q => Before(f)[p] < Before(f)[q]
    <2>1. Sorted(f)
      BY InputFacts DEF Saving
    <2>2. QED
      BY <2>1 DEF Sorted, Collected
  <1>5. PartsApart(f)
    BY DEF Stays
  <1> HIDE DEF nb, na, c, l, mo, so, m, sc
  <1>6. \A k \in 1 .. na : Between(sc(nb + 1 + k), l, m)
    <2>1. \A k \in 1 .. na : Between(sc(nb + 1 + k), l, mo)
      BY <1>1
    <2>2. mo =< m /\ l =< l
      BY <1>1
    <2>3. QED
      BY <1>1, <2>1, <2>2, Widen
  <1>7. Between(sc(n), l, m)
    <2>1. l =< so /\ m =< m
      BY <1>1
    <2>2. QED
      BY <1>1, <2>1, Widen
  <1>8. \A k \in 1 .. n : \/ k = 1 \/ k \in 2 .. nb \/ k = nb + 1 \/ k = n
                          \/ \E p \in 1 .. na : k = nb + 1 + p
    <2>1. ASSUME NEW k \in 1 .. n, k # 1, k \notin 2 .. nb, k # nb + 1, k # n
          PROVE  \E p \in 1 .. na : k = nb + 1 + p
      <3>1. k - (nb + 1) \in 1 .. na /\ k = nb + 1 + (k - (nb + 1))
        BY <1>1, <2>1
      <3>2. QED
        BY <3>1
    <2>2. QED
      BY <2>1
  <1>9. ASSUME NEW k \in 1 .. n, k > nb + 1 PROVE Between(sc(k), l, m)
    <2>1. k # 1 /\ k \notin 2 .. nb /\ k # nb + 1
      BY <1>1, <1>9
    <2>2. QED
      BY <1>6, <1>7, <1>8, <2>1
  <1>10. ASSUME NEW k \in 1 .. n, k > nb PROVE Between(sc(k), c, m)
    <2>1. c =< c /\ l =< m /\ m =< m
      BY <1>1
    <2>2. CASE k = nb + 1
      BY <1>1, <2>1, <2>2, Widen
    <2>3. CASE k > nb + 1
      BY <1>1, <1>9, <2>1, <2>3, Widen
    <2>4. k = nb + 1 \/ k > nb + 1
      BY <1>1, <1>10
    <2>5. QED
      BY <2>2, <2>3, <2>4
  <1>11. i \in 1 .. n /\ j \in 1 .. n
    BY <1>1
  <1>12. CASE i = 1
    BY <1>1, <1>12 DEF sc
  <1>13. CASE i \in 2 .. nb
    <2>1. CASE j =< nb
      <3>1. j \in 2 .. nb /\ i \in 1 .. nb /\ j \in 1 .. nb
        BY <1>1, <1>11, <1>13, <2>1
      <3>2. Before(f)[i] < Before(f)[j]
        BY <1>4, <3>1
      <3>3. SectionCover(f, Before(f)[i]) \cap SectionCover(f, Before(f)[j]) = {}
        BY <1>2, <1>5, <1>13, <3>1, <3>2 DEF PartsApart
      <3>4. QED
        BY <1>2, <1>13, <3>1, <3>3 DEF sc
    <2>2. CASE j > nb
      <3>1. Between(sc(i), 1, c) /\ Between(sc(j), c, m)
        BY <1>1, <1>10, <1>11, <1>13, <2>2
      <3>2. 1 \in Nat /\ c =< c
        BY <1>1
      <3>3. QED
        BY <1>1, <3>1, <3>2, Apart DEF sc
    <2>3. j =< nb \/ j > nb
      BY <1>1, <1>11
    <2>4. QED
      BY <2>1, <2>2, <2>3
  <1>14. CASE i = nb + 1
    <2>1. j > nb + 1
      BY <1>1, <1>11, <1>14
    <2>2. Between(sc(i), c, l) /\ Between(sc(j), l, m)
      BY <1>1, <1>9, <1>11, <1>14, <2>1
    <2>3. l =< l
      BY <1>1
    <2>4. QED
      BY <1>1, <2>2, <2>3, Apart DEF sc
  <1>15. CASE \E p \in 1 .. na : i = nb + 1 + p
    <2>1. PICK p \in 1 .. na : i = nb + 1 + p
      BY <1>15
    <2>2. CASE j = n
      <3>1. Between(sc(i), l, mo) /\ Between(sc(j), so, m)
        BY <1>1, <2>1, <2>2
      <3>2. QED
        BY <1>1, <3>1, Apart DEF sc
    <2>3. CASE j # n
      <3>1. j # 1 /\ j \notin 2 .. nb /\ j # nb + 1
        BY <1>1, <1>11, <2>1
      <3>2. PICK q \in 1 .. na : j = nb + 1 + q
        BY <1>8, <1>11, <2>3, <3>1
      <3>3. p < q
        BY <1>1, <2>1, <3>2
      <3>4. QED
        BY <1>3, <2>1, <3>2, <3>3 DEF sc
    <2>4. QED
      BY <2>2, <2>3
  <1>16. i # n
    BY <1>1, <1>11
  <1>17. QED
    BY <1>8, <1>11, <1>12, <1>13, <1>14, <1>15, <1>16

LEMMA PartsBack ==
  ASSUME NEW data, NEW f, NEW b, Saving(data, f, b), Stays(data, f),
         NEW h, h = Parse(Save(f, b))
  PROVE  PartsApart(h)
  <1>0. Input(data, f, b) /\ Accepts(data) /\ f = Parse(data)
    BY InputFacts DEF Saving
  <1> DEFINE nb == Len(Before(f))
             na == Len(After(f))
             n  == nb + na + 2
             c  == ContentEnd(f)
             l  == c + b.len
             mo == Len(Moved(f, b).out)
             so == Len(StrOut(f, b))
             m  == Len(Layout(f, b).out)
             sc(k) == SectionCover(h, k)
             first == Cover(0, 1)
             phdrs == Cover(h.ehdr.phoff, Len(h.phdrs))
             shdrs == Cover(h.ehdr.shoff, n)
             g == Save(f, b)
  <1>1. /\ nb \in Nat /\ na \in Nat /\ c \in Nat /\ l \in Nat /\ mo \in Nat /\ so \in Nat
        /\ m \in Nat /\ 1 =< c /\ c =< l /\ l =< mo /\ mo =< so /\ so =< m
        /\ nb >= 1 /\ Len(h.shdrs) = n
        /\ sc(1) = {}
        /\ \A k \in 2 .. nb : Between(sc(k), 1, c)
        /\ Between(sc(nb + 1), c, l)
        /\ \A k \in 1 .. na : Between(sc(nb + 1 + k), l, mo)
        /\ Between(sc(n), so, m)
    BY Placing DEF Placement
  <1>2. /\ h.ehdr.phoff = f.ehdr.phoff /\ h.ehdr.shoff = m /\ h.phdrs = f.phdrs
        /\ f.ehdr.phoff \in Nat /\ Len(f.phdrs) \in Nat
    <2>1. h.phdrs = f.phdrs /\ Ehdr(g).phoff = Ehdr(data).phoff
      BY PhdrsBack
    <2>2. Ehdr(g).shoff = m
      BY TablesInPlace DEF TablesPlaced
    <2>3. h.ehdr.phoff = Ehdr(g).phoff /\ h.ehdr.shoff = Ehdr(g).shoff
      <3>1. Ehdr(g) = SavedEhdr(f, b)
        BY ReadingBack DEF ReadBack
      <3>2. f.ehdr \in Ehdrs
        BY <1>0, ParsedHeaders
      <3>3. \A x, y : [Ehdr(g) EXCEPT !.shnum = x, !.shstrndx = y].phoff = Ehdr(g).phoff
                      /\ [Ehdr(g) EXCEPT !.shnum = x, !.shstrndx = y].shoff = Ehdr(g).shoff
        BY <3>1, <3>2 DEF SavedEhdr, Ehdrs
      <3>4. QED
        BY <3>3 DEF Parse
    <2>4. f.ehdr.phoff = Ehdr(data).phoff /\ Len(f.phdrs) = Phnum(data)
      BY <1>0, ParsedHeaders
    <2>5. Ehdr(data).phoff \in Nat /\ Phnum(data) \in Nat
      BY <1>0, Accepted DEF Ehdrs
    <2>6. QED
      BY <2>1, <2>2, <2>3, <2>4, <2>5
  <1>3. /\ Len(f.phdrs) > 0 => f.ehdr.phoff >= 1 /\ f.ehdr.phoff + Len(f.phdrs) =< c
        /\ PartsApart(f)
    BY DEF Stays
  <1>4. \A k \in 2 .. nb : /\ sc(k) \subseteq SectionCover(f, Before(f)[k])
                           /\ Before(f)[k] \in 1 .. Len(f.shdrs)
    BY StayApart
  <1>5. phdrs = Cover(f.ehdr.phoff, Len(f.phdrs)) /\ shdrs = Cover(m, n)
    BY <1>2
  <1>6. \A i, j \in 1 .. n : i < j => sc(i) \cap sc(j) = {}
    BY <1>1, SectionsApart
  <1> HIDE DEF nb, na, c, l, mo, so, m, sc, phdrs, shdrs, first
  <1>7. Between(first, 0, 1)
    BY DEF first, Between, Cover
  <1>8. Between(phdrs, 1, c)
    <2>1. CASE Len(f.phdrs) > 0
      <3>1. 1 \in Nat /\ 1 =< f.ehdr.phoff /\ f.ehdr.phoff + Len(f.phdrs) =< c
        BY <1>2, <1>3, <2>1
      <3>2. QED
        BY ONLY <1>1, <1>2, <1>5, <3>1, CoverBetween
    <2>2. CASE ~(Len(f.phdrs) > 0)
      <3>1. Len(f.phdrs) = 0
        BY <1>2, <2>2
      <3>2. phdrs = {}
        BY <1>2, <1>5, <3>1, NoCover
      <3>3. QED
        BY <3>2 DEF Between
    <2>3. QED
      BY <2>1, <2>2
  <1>9. Between(shdrs, m, m + n)
    <2>1. m + n \in Nat /\ m =< m /\ m + n =< m + n /\ n \in Nat
      BY <1>1
    <2>2. QED
      BY <1>1, <1>5, <2>1, CoverBetween
  <1>10. ASSUME NEW i \in 1 .. n
         PROVE  Between(sc(i), 1, m)
                /\ \/ Between(sc(i), c, m)
                   \/ i \in 2 .. nb \/ i = 1
    <2>0. 1 \in Nat /\ 1 =< 1 /\ c =< m /\ c =< c /\ l =< m /\ 1 =< l /\ m =< m /\ c =< so
          /\ mo =< m /\ 1 =< so
      BY <1>1
    <2>1. CASE i = 1
      BY <1>1, <2>1 DEF Between
    <2>2. CASE i \in 2 .. nb
      <3>1. Between(sc(i), 1, c)
        BY <1>1, <2>2
      <3>2. Between(sc(i), 1, m)
        BY ONLY <1>1, <2>0, <3>1, Widen
      <3>3. QED
        BY <2>2, <3>2
    <2>3. CASE i = nb + 1
      <3>1. Between(sc(i), c, l)
        BY <1>1, <2>3
      <3>2. Between(sc(i), 1, m) /\ Between(sc(i), c, m)
        BY ONLY <1>1, <2>0, <3>1, Widen
      <3>3. QED
        BY <3>2
    <2>4. CASE i = n
      <3>1. Between(sc(i), so, m)
        BY <1>1, <2>4
      <3>2. Between(sc(i), 1, m) /\ Between(sc(i), c, m)
        BY ONLY <1>1, <2>0, <3>1, Widen
      <3>3. QED
        BY <3>2
    <2>5. CASE i # 1 /\ i \notin 2 .. nb /\ i # nb + 1 /\ i # n
      <3>1. i - (nb + 1) \in 1 .. na /\ i = nb + 1 + (i - (nb + 1))
        BY <1>1, <2>5
      <3>2. Between(sc(i), l, mo)
        BY <1>1, <3>1
      <3>3. Between(sc(i), 1, m) /\ Between(sc(i), c, m)
        BY ONLY <1>1, <2>0, <3>2, Widen
      <3>4. QED
        BY <3>3
    <2>6. QED
      BY <2>1, <2>2, <2>3, <2>4, <2>5
  <1>11. first \cap phdrs = {} /\ first \cap shdrs = {} /\ phdrs \cap shdrs = {}
    <2>1. 0 \in Nat /\ 1 \in Nat /\ 1 =< 1 /\ 1 =< m /\ c =< m /\ m + n \in Nat
      BY <1>1
    <2>2. QED
      BY ONLY <1>1, <1>7, <1>8, <1>9, <2>1, Apart
  <1>12. ASSUME NEW i \in 1 .. n
         PROVE  first \cap sc(i) = {} /\ phdrs \cap sc(i) = {} /\ shdrs \cap sc(i) = {}
    <2>1. 0 \in Nat /\ 1 \in Nat /\ 1 =< 1 /\ m =< m /\ c =< c /\ m + n \in Nat
      BY <1>1
    <2>2. Between(sc(i), 1, m)
      BY <1>10
    <2>3. first \cap sc(i) = {} /\ shdrs \cap sc(i) = {}
      BY ONLY <1>1, <1>7, <1>9, <2>1, <2>2, Apart
    <2>4. CASE Between(sc(i), c, m)
      <3>1. phdrs \cap sc(i) = {}
        BY ONLY <1>1, <1>8, <2>1, <2>4, Apart
      <3>2. QED
        BY <2>3, <3>1
    <2>5. CASE i \in 2 .. nb
      <3>1. Cover(f.ehdr.phoff, Len(f.phdrs)) \cap SectionCover(f, Before(f)[i]) = {}
        BY <1>3, <1>4, <2>5 DEF PartsApart
      <3>2. phdrs \cap sc(i) = {}
        BY <1>4, <1>5, <2>5, <3>1
      <3>3. QED
        BY <2>3, <3>2
    <2>6. CASE i = 1
      BY <1>1, <2>6
    <2>7. QED
      BY <1>10, <2>4, <2>5, <2>6
  <1>13. Len(h.shdrs) = n /\ n = nb + na + 2
    BY <1>1
  <1>14. QED
    BY <1>6, <1>11, <1>12, <1>13 DEF PartsApart, sc, first, phdrs, shdrs


LEMMA LayoutBack ==
  ASSUME NEW data, NEW f, NEW b, Saving(data, f, b), Stays(data, f),
         NEW g, g = Save(f, b), NEW h, h = Parse(g)
  PROVE  /\ ~Overlapping(h) /\ h.ehdr.shoff % ShdrAlign = 0
         /\ h.ehdr.shoff = Len(Layout(f, b).out)
         /\ h.ehdr.shoff + Len(h.shdrs) = Len(g)
  <1>0. Input(data, f, b) /\ Accepts(data) /\ f = Parse(data)
    BY InputFacts DEF Saving
  <1>1. Len(h.shdrs) \in Nat /\ Ehdr(g) = SavedEhdr(f, b) /\ Len(h.shdrs) = Len(Table(f, b))
    BY ReadingBack DEF ReadBack
  <1>2. ~Overlapping(h)
    BY <1>1, PartsBack, NotOverlapping
  <1>3. h.ehdr.shoff = Ehdr(g).shoff
    <2>1. f.ehdr \in Ehdrs
      BY <1>0, ParsedHeaders
    <2>2. \A x, y : [Ehdr(g) EXCEPT !.shnum = x, !.shstrndx = y].shoff = Ehdr(g).shoff
      BY <1>1, <2>1 DEF SavedEhdr, Ehdrs
    <2>3. QED
      BY <2>2 DEF Parse
  <1>4. Ehdr(g).shoff = Len(Layout(f, b).out) /\ Ehdr(g).shoff + Len(Table(f, b)) = Len(g)
    BY TablesInPlace DEF TablesPlaced
  <1>5. Len(Layout(f, b).out) % ShdrAlign = 0
    BY <1>0, LaidAll DEF LaidOut
  <1>6. QED
    BY <1>1, <1>2, <1>3, <1>4, <1>5

(* An image written for a regular file is regular.                          *)
LEMMA SectionsBack ==
  ASSUME NEW data, NEW f, NEW b, Saving(data, f, b), Stays(data, f), Regular(data),
         NEW h, h = Parse(Save(f, b)), NEW i \in 2 .. Len(h.shdrs)
  PROVE  DataReadable(h, i) /\ (h.shdrs[i].type = "NULL" => ~HasData(h.shdrs[i]))
  <1>0. Input(data, f, b) /\ OldInOrder(f) /\ Accepts(data) /\ f = Parse(data)
    BY InputFacts, OldOrder DEF Saving
  <1> DEFINE nb == Len(Before(f))
             na == Len(After(f))
             n  == nb + na + 2
             g  == Save(f, b)
             s  == Shstrtab(f)
  <1>1. nb \in Nat /\ na \in Nat /\ Len(Table(f, b)) = n
    BY <1>0, TableParts DEF TableLaid
  <1>2. Len(h.shdrs) = Len(Table(f, b)) /\ h.data = g /\ ReadBack(f, b, g)
    BY ReadingBack DEF ReadBack
  <1>3. i \in 1 .. n /\ i # 1
    BY <1>1, <1>2
  <1>4. CASE i = nb + 1
    <2>1. DataReadable(h, nb + 1)
      BY FindingBack DEF NoteBack
    <2>2. h.shdrs[nb + 1].type = "NOTE"
      BY NoteHeader
    <2>3. h.shdrs[i].type # "NULL"
      BY <1>4, <2>2
    <2>4. QED
      BY <1>4, <2>1, <2>3
  <1>5. CASE i = n
    <2>1. /\ h.shdrs[n].type = f.shdrs[s].type
          /\ h.shdrs[n].off = Len(StrOut(f, b)) /\ h.shdrs[n].size = Len(NewStrings(f))
      <3>1. /\ h.shdrs[Len(Table(f, b))].type = f.shdrs[s].type
            /\ h.shdrs[Len(Table(f, b))].off = Len(StrOut(f, b))
            /\ h.shdrs[Len(Table(f, b))].size = Len(NewStrings(f))
        BY NamesInPlace
      <3>2. QED
        BY <1>1, <3>1
    <2>2. f.shdrs[s].type # "NULL"
      <3>1. s = Shstrndx(data) + 1 /\ s \in 1 .. Len(f.shdrs) /\ Sorted(f)
        BY <1>0, InputFacts DEF Input
      <3>2. /\ f.shdrs[s].type # "NOBITS" /\ f.shdrs[s].size > 0 /\ f.shdrs[s].size \in Nat
        <4>1. f.shdrs[s] \in Shdrs
          BY <1>0, <3>1, InputFacts
        <4>2. f.shdrs[s].type # "NOBITS" /\ f.shdrs[s].size > 0
          BY <1>0, <3>1, ParsedStrings
        <4>3. QED
          BY <4>1, <4>2 DEF Shdrs
      <3>3. f.shdrs[s].size # 0
        BY <3>2
      <3>4. HasData(f.shdrs[s])
        BY <3>2, <3>3 DEF HasData
      <3>5. s # 1
        <4>1. f.names[1] # SHSTRTAB
          BY <1>0 DEF Regular, Accepts, NullFirst
        <4>2. f.names[s] = SHSTRTAB
          <5>1. s # 0
            BY <1>0 DEF Input, Refuses
          <5>2. QED
            BY <3>1, <5>1 DEF Sorted
        <4>3. QED
          BY <4>1, <4>2
      <3>6. s \in 2 .. Len(f.shdrs)
        <4>1. Len(f.shdrs) \in Nat
          BY <1>0, InputFacts
        <4>2. QED
          BY <3>1, <3>5, <4>1
      <3>7. f.shdrs[s].type = "NULL" => ~HasData(f.shdrs[s])
        BY <1>0, <3>6 DEF Regular, Accepts
      <3>8. QED
        BY <3>4, <3>7
    <2>3. DataReadable(h, n)
      <3>1. /\ Len(StrOut(f, b)) \in Nat /\ Len(NewStrings(f)) \in Nat
            /\ Len(StrOut(f, b)) + Len(NewStrings(f)) =< Len(Layout(f, b).out)
            /\ Len(Layout(f, b).out) \in Nat
        BY <1>0, PlacementBounds
      <3>2. Len(g) \in Nat /\ Len(Layout(f, b).out) =< Len(g)
        <4>1. Len(g) \in Nat /\ Ehdr(g).shoff = Len(Layout(f, b).out)
              /\ Ehdr(g).shoff + Len(Table(f, b)) = Len(g) /\ Len(Table(f, b)) \in Nat
          BY TablesInPlace DEF TablesPlaced
        <4>2. QED
          BY <3>1, <4>1
      <3>3. Len(StrOut(f, b)) =< Len(g) /\ Len(NewStrings(f)) =< Len(g) - Len(StrOut(f, b))
        BY <3>1, <3>2
      <3>4. RangeWithinFile(Len(StrOut(f, b)), Len(NewStrings(f)), g)
        BY <3>3 DEF RangeWithinFile
      <3>5. QED
        BY <1>2, <2>1, <3>4 DEF DataReadable
    <2>4. QED
      BY <1>5, <2>1, <2>2, <2>3
  <1>6. CASE i # nb + 1 /\ i # n
    <2>1. Old(f, i) \in Kept(f)
      BY <1>0, <1>3, <1>6 DEF OldInOrder
    <2>2. DataKept(f, b, g, i)
      BY <1>1, <1>3, <2>1, KeepingData
    <2>3. QED
      BY <2>2 DEF DataKept
  <1>7. QED
    BY <1>4, <1>5, <1>6

LEMMA RegularBack ==
  ASSUME NEW data, NEW f, NEW b, Saving(data, f, b), Regular(data), NEW g, g = Save(f, b)
  PROVE  Regular(g)
  <1>0. Input(data, f, b) /\ Accepts(data) /\ f = Parse(data)
    BY InputFacts DEF Saving
  <1> DEFINE h == Parse(g)
             n == Len(Table(f, b))
  <1>1. Stays(data, f)
    BY <1>0, RegularStays
  <1>2. Shstrtab(h) = Shstrndx(g) + 1
    BY WellFormedBack
  <1>3. NullFirst(h)
    <2>1. FirstKept(f, n)
      BY <1>1, KeepingFirst
    <2>2. SectionKept(f, b, g, 1)
      BY <2>1, KeepingSections DEF FirstKept
    <2>3. h.names[1] = f.names[1] /\ h.shdrs[1].type = f.shdrs[1].type
      BY <2>1, <2>2 DEF SectionKept, FirstKept
    <2>4. NullFirst(f)
      BY <1>0 DEF Regular, Accepts
    <2>5. QED
      BY <2>3, <2>4 DEF NullFirst
  <1>4. \A i \in 2 .. Len(h.shdrs) :
          DataReadable(h, i) /\ (h.shdrs[i].type = "NULL" => ~HasData(h.shdrs[i]))
    BY <1>1, SectionsBack
  <1>5. ~Overlapping(h) /\ h.ehdr.shoff = Len(Layout(f, b).out)
    BY <1>1, LayoutBack
  <1>6. ASSUME NEW ph \in ToSet(h.phdrs), ph.filesz # 0
        PROVE  ph.off + ph.filesz =< Len(g) /\ ph.off + ph.filesz =< h.ehdr.shoff
    <2>1. h.phdrs = f.phdrs
      BY <1>1, PhdrsBack
    <2>2. PICK i \in 1 .. Len(f.phdrs) : ph = f.phdrs[i]
      <3>1. Sequence(f.phdrs)
        BY <1>0, ParsedHeaders
      <3>2. ToSet(f.phdrs) = {f.phdrs[i] : i \in 1 .. Len(f.phdrs)}
        BY <3>1, SeqLen
      <3>3. QED
        BY <1>6, <2>1, <3>2
    <2>3. ph.off + ph.filesz =< ContentEnd(f)
      BY <1>1, <1>6, <2>2 DEF Stays
    <2>4. ph.off \in Nat /\ ph.filesz \in Nat
      <3>1. f.phdrs[i] \in Phdrs
        BY <1>0, <2>2, ParsedHeaders
      <3>2. QED
        BY <2>2, <3>1 DEF Phdrs
    <2>5. StaysPut(data, f, g) /\ ContentEnd(f) + b.len =< Len(Layout(f, b).out)
      BY StayingCells
    <2>6. b.len \in Nat /\ Len(Layout(f, b).out) \in Nat
      BY <1>0, PlacementBounds DEF Input
    <2> HIDE DEF h
    <2>7. QED
      BY <1>5, <2>3, <2>4, <2>5, <2>6 DEF StaysPut
  <1>7. QED
    BY <1>2, <1>3, <1>4, <1>5, <1>6 DEF Regular


-----------------------------------------------------------------------------
(* The image holds what the file held.                                      *)
Owned(h) == {i \in 1 .. Len(h.names) : /\ h.names[i] \notin {SIG, SHSTRTAB}
                                       /\ h.shdrs[i].type # "NULL"}

(* What the sections that are neither the note nor .shstrtab are in the new *)
(* image: the n-th of one is the n-th of the other.                         *)
OwnMatched(f, h, n) ==
  /\ Len(Own(h)) = Len(Own(f)) /\ Len(Own(f)) \in Nat
  /\ \A k \in 1 .. Len(Own(f)) :
       /\ Own(h)[k] \in 1 .. n /\ Own(h)[k] # 1
       /\ Own(f)[k] = Old(f, Own(h)[k]) /\ Own(f)[k] \in Kept(f)

LEMMA OwnBack ==
  ASSUME NEW data, NEW f, NEW b, Saving(data, f, b), Stays(data, f),
         NEW h, h = Parse(Save(f, b)), NEW n, n = Len(Before(f)) + Len(After(f)) + 2
  PROVE  OwnMatched(f, h, n)
  <1>0. Input(data, f, b) /\ OldInOrder(f) /\ Sequence(f.names)
        /\ Len(f.names) = Len(f.shdrs) /\ Len(f.shdrs) \in Nat
    BY InputFacts, OldOrder DEF Saving
  <1> DEFINE nb == Len(Before(f))
             na == Len(After(f))
             g  == Save(f, b)
  <1>1. nb \in Nat /\ na \in Nat /\ Len(Table(f, b)) = n
    BY <1>0, TableParts DEF TableLaid
  <1>2. /\ Len(h.shdrs) = n /\ Len(h.names) = n
        /\ h.names[nb + 1] = SIG /\ h.names[n] = SHSTRTAB
    BY NamingBack DEF NamesBack
  <1>3. \A i \in 1 .. n : Old(f, i) \in Kept(f) =>
          h.names[i] = f.names[Old(f, i)] /\ h.shdrs[i].type = f.shdrs[Old(f, i)].type
    <2>1. \A i \in 1 .. n : Old(f, i) \in Kept(f) => SectionKept(f, b, g, i)
      BY <1>1, KeepingSections
    <2>2. QED
      BY <2>1 DEF SectionKept
  <1>4. Owned(f) \subseteq Kept(f)
    BY DEF Owned, Kept
  <1>5. FirstKept(f, n) /\ f.shdrs[1].type = "NULL"
    <2>1. FirstKept(f, Len(Table(f, b)))
      BY KeepingFirst
    <2>2. QED
      BY <1>1, <2>1 DEF Stays
  <1>6. ASSUME NEW i \in Owned(h)
        PROVE  i \in 1 .. n /\ Old(f, i) \in Owned(f)
    <2>1. i \in 1 .. n /\ h.names[i] \notin {SIG, SHSTRTAB} /\ h.shdrs[i].type # "NULL"
      BY <1>2 DEF Owned
    <2>2. i # nb + 1 /\ i # n
      BY <1>2, <2>1
    <2>3. Old(f, i) \in Kept(f)
      BY <1>0, <2>1, <2>2 DEF OldInOrder
    <2>4. Old(f, i) \in 1 .. Len(f.names)
      BY <2>3 DEF Kept
    <2>5. QED
      BY <1>3, <2>1, <2>3, <2>4 DEF Owned
  <1>7. ASSUME NEW i \in 1 .. n, Old(f, i) \in Owned(f) PROVE i \in Owned(h)
    <2>1. Old(f, i) \in Kept(f)
      BY <1>4, <1>7
    <2>2. f.names[Old(f, i)] \notin {SIG, SHSTRTAB} /\ f.shdrs[Old(f, i)].type # "NULL"
      BY <1>7 DEF Owned
    <2>3. QED
      BY <1>2, <1>3, <2>1, <2>2 DEF Owned
  <1>8. Owned(h) = {i \in 1 .. n : Old(f, i) \in Owned(f)}
    BY <1>6, <1>7
  <1>9. Corresponding(NewOrder(f), n, Owned(h), Len(f.names), Owned(f))
    BY ONLY <1>0, <1>4, <1>8, n = Len(Before(f)) + Len(After(f)) + 2, KeptMatch
  <1>10. Own(f) = Collect(Len(f.names), Owned(f)) /\ Own(h) = Collect(n, Owned(h))
    BY <1>2 DEF Own, Owned
  <1>11. /\ Len(Own(h)) = Len(Own(f)) /\ Len(Own(h)) \in Nat
         /\ \A k \in 1 .. Len(Own(h)) :
              Own(h)[k] \in Owned(h) /\ Own(f)[k] \in Owned(f) /\ Own(f)[k] = Old(f, Own(h)[k])
    BY <1>9, <1>10, CollectSame DEF Old
  <1>12. \A i \in Owned(h) : i # 1
    BY <1>5, <1>6 DEF FirstKept, Owned
  <1>13. QED
    BY <1>4, <1>6, <1>11, <1>12 DEF OwnMatched

(* The same sections, program headers and segments.                         *)
ContentSame(a, h) ==
  /\ Content(a) = Content(h)
  /\ a.phdrs = h.phdrs
  /\ \A ph \in ToSet(a.phdrs) : Segment(a, ph) = Segment(h, ph)

LEMMA SameSlice ==
  ASSUME NEW s, NEW t, NEW m \in Int, NEW n \in Int, \A i \in m .. n : s[i] = t[i]
  PROVE  SubSeq(s, m, n) = SubSeq(t, m, n)
  <1> DEFINE T == {s[i] : i \in m .. n}
  <1>1. \A i \in m .. n : s[i] \in T /\ t[i] \in T
    OBVIOUS
  <1> HIDE DEF T
  <1>2. /\ SubSeq(s, m, n) \in Seq(T) /\ SubSeq(t, m, n) \in Seq(T)
        /\ Len(SubSeq(s, m, n)) = IF m <= n THEN n - m + 1 ELSE 0
        /\ Len(SubSeq(t, m, n)) = IF m <= n THEN n - m + 1 ELSE 0
        /\ \A i \in 1 .. n - m + 1 : SubSeq(s, m, n)[i] = s[m + i - 1]
        /\ \A i \in 1 .. n - m + 1 : SubSeq(t, m, n)[i] = t[m + i - 1]
    BY <1>1, SubSeqProperties
  <1>3. \A i \in 1 .. n - m + 1 : m + i - 1 \in m .. n
    OBVIOUS
  <1>4. Len(SubSeq(s, m, n)) =< n - m + 1 \/ Len(SubSeq(s, m, n)) = 0
    BY <1>2
  <1>5. \A i \in 1 .. Len(SubSeq(s, m, n)) : i \in 1 .. n - m + 1
    BY <1>2, <1>4
  <1>6. \A i \in 1 .. Len(SubSeq(s, m, n)) : SubSeq(s, m, n)[i] = SubSeq(t, m, n)[i]
    BY <1>2, <1>3, <1>5
  <1>7. Len(SubSeq(s, m, n)) = Len(SubSeq(t, m, n))
    BY <1>2
  <1>8. QED
    BY ONLY <1>2, <1>6, <1>7, SeqEqual

LEMMA SegmentStays ==
  ASSUME NEW data, NEW f, Accepts(data), f = Parse(data), Stays(data, f),
         NEW g, StaysPut(data, f, g), NEW i \in 1 .. Len(f.phdrs)
  PROVE  Segment(f, f.phdrs[i]) = Segment([data |-> g], f.phdrs[i])
  <1>0. Accepts(data) /\ f = Parse(data) /\ f.data = data
    BY ParsedHeaders
  <1> DEFINE ph == f.phdrs[i]
             c  == ContentEnd(f)
             m  == Max({ph.off, 1}) + 1
             n  == ph.off + ph.filesz
  <1>1. ph.off \in Nat /\ ph.filesz \in Nat
    <2>1. ph \in Phdrs
      BY <1>0, ParsedHeaders
    <2>2. QED
      BY <2>1 DEF Phdrs
  <1>2. Max({ph.off, 1}) \in {ph.off, 1} /\ Max({ph.off, 1}) >= ph.off /\ Max({ph.off, 1}) >= 1
    <2> HIDE DEF ph
    <2>1. /\ {ph.off, 1} \subseteq Nat /\ {ph.off, 1} # {} /\ ph.off + 1 \in Nat
          /\ \A x \in {ph.off, 1} : x =< ph.off + 1
      BY <1>1
    <2>2. Max({ph.off, 1}) \in {ph.off, 1} /\ \A y \in {ph.off, 1} : y =< Max({ph.off, 1})
      BY ONLY <2>1, MaxOf
    <2>3. QED
      BY <1>1, <2>2
  <1>3. StaysPut(data, f, g)
    OBVIOUS
  <1>4. ph.filesz # 0 => n =< c
    BY DEF Stays
  <1>5. [data |-> g].data = g
    OBVIOUS
  <1> HIDE DEF ph, c
  <1>6. m \in Int /\ n \in Int /\ m >= 2 /\ m > ph.off /\ n = ph.off + ph.filesz
    BY <1>1, <1>2
  <1> HIDE DEF m, n
  <1>7. ASSUME NEW k \in m .. n PROVE data[k] = g[k]
    <2>0. k \in m .. n
      OBVIOUS
    <2>1. k >= 2 /\ k > ph.off /\ k =< n /\ k \in Int
      BY ONLY <1>1, <1>6, <2>0
    <2>2. ph.filesz # 0
      BY <1>1, <1>6, <2>1
    <2>3. c \in Nat
      BY <1>3 DEF StaysPut, c
    <2>4. k \in 2 .. c
      BY ONLY <1>1, <1>4, <1>6, <2>1, <2>2, <2>3
    <2>5. QED
      BY <1>3, <2>4 DEF StaysPut, c
  <1>8. SubSeq(data, m, n) = SubSeq(g, m, n)
    BY <1>6, <1>7, SameSlice
  <1>9. QED
    BY <1>0, <1>5, <1>8 DEF Segment, ph, m, n

LEMMA SegmentBack ==
  ASSUME NEW data, NEW f, NEW b, Saving(data, f, b), Stays(data, f),
         NEW h, h = Parse(Save(f, b)), NEW i \in 1 .. Len(f.phdrs)
  PROVE  Segment(f, f.phdrs[i]) = Segment(h, f.phdrs[i])
  <1>1. Accepts(data) /\ f = Parse(data)
    BY InputFacts DEF Saving
  <1>2. Segment(f, f.phdrs[i]) = Segment([data |-> Save(f, b)], f.phdrs[i])
    BY <1>1, StayingCells, SegmentStays
  <1>3. h.data = Save(f, b)
    BY ReadingBack DEF ReadBack
  <1>4. QED
    BY <1>2, <1>3 DEF Segment

LEMMA ContentBack ==
  ASSUME NEW data, NEW f, NEW b, Saving(data, f, b), Stays(data, f),
         NEW h, h = Parse(Save(f, b))
  PROVE  ContentSame(f, h)
  <1> DEFINE n == Len(Before(f)) + Len(After(f)) + 2
             g == Save(f, b)
  <1>0. Input(data, f, b) /\ Accepts(data) /\ f = Parse(data)
    BY InputFacts DEF Saving
  <1>1. OwnMatched(f, h, n)
    BY OwnBack
  <1>2. n = Len(Table(f, b))
    BY <1>0, TableParts DEF TableLaid
  <1>3. \A i \in 1 .. n : i # 1 /\ Old(f, i) \in Kept(f) =>
          LET k == Old(f, i)
          IN  /\ h.names[i] = f.names[k] /\ h.shdrs[i].type = f.shdrs[k].type
              /\ h.shdrs[i].alloc = f.shdrs[k].alloc /\ h.shdrs[i].align = f.shdrs[k].align
              /\ SectionData(h, i) = SectionData(f, k)
    <2>1. ASSUME NEW i \in 1 .. n, i # 1, Old(f, i) \in Kept(f)
          PROVE  SectionKept(f, b, g, i) /\ DataKept(f, b, g, i)
      BY <1>2, <2>1, KeepingSections, KeepingData
    <2>2. QED
      BY <2>1 DEF SectionKept, DataKept
  <1>4. Content(f) = Content(h)
    <2> HIDE DEF n
    <2>1. \A k \in 1 .. Len(Own(f)) :
            /\ h.names[Own(h)[k]] = f.names[Own(f)[k]]
            /\ h.shdrs[Own(h)[k]].type = f.shdrs[Own(f)[k]].type
            /\ h.shdrs[Own(h)[k]].alloc = f.shdrs[Own(f)[k]].alloc
            /\ h.shdrs[Own(h)[k]].align = f.shdrs[Own(f)[k]].align
            /\ SectionData(h, Own(h)[k]) = SectionData(f, Own(f)[k])
      BY <1>1, <1>3 DEF OwnMatched
    <2>2. Len(Own(h)) = Len(Own(f))
      BY <1>1 DEF OwnMatched
    <2>3. QED
      BY <2>1, <2>2 DEF Content
  <1>5. f.phdrs = h.phdrs
    BY PhdrsBack
  <1>6. ASSUME NEW ph \in ToSet(f.phdrs) PROVE Segment(f, ph) = Segment(h, ph)
    <2>1. Sequence(f.phdrs)
      BY <1>0, ParsedHeaders
    <2>2. PICK i \in 1 .. Len(f.phdrs) : ph = f.phdrs[i]
      BY <2>1, SeqLen
    <2>3. QED
      BY <2>2, SegmentBack
  <1>7. QED
    BY <1>4, <1>5, <1>6 DEF ContentSame


-----------------------------------------------------------------------------
(* The section numbers in the image name the sections they named.           *)
(* Number q of h names the section that p of a names, unless that was a     *)
(* signature.                                                               *)
Reaches(a, p, h, q) ==
  Target(a, p) # SIG => q \in Nat /\ q < Len(h.names) /\ Target(h, q) = Target(a, p)

LinksSame(a, h) ==
  /\ Len(Own(h)) = Len(Own(a))
  /\ \A n \in 1 .. Len(Own(a)) :
       LET x == a.shdrs[Own(a)[n]]
           y == h.shdrs[Own(h)[n]]
       IN  /\ y.type = x.type
           /\ Reaches(a, x.link, h, y.link)
           /\ x.type = "REL" => Reaches(a, x.info, h, y.info)

Renamed(f, h, k) ==
  /\ NewIndex(f, k) \in Nat /\ NewIndex(f, k) # 0 /\ NewIndex(f, k) < Len(h.names)
  /\ h.names[NewIndex(f, k) + 1] = f.names[k + 1]

LEMMA IndexBack ==
  ASSUME NEW data, NEW f, NEW b, Saving(data, f, b), Stays(data, f), OneTable(f),
         NEW h, h = Parse(Save(f, b)),
         NEW k \in Nat, k # 0, k < Len(f.names), f.names[k + 1] # SIG
  PROVE  Renamed(f, h, k)
  <1>0. Input(data, f, b) /\ OldInOrder(f) /\ Sequence(f.names) /\ Len(f.names) \in Nat
        /\ Shstrtab(f) \in 1 .. Len(f.shdrs) /\ Sorted(f)
    BY InputFacts, OldOrder DEF Saving
  <1> DEFINE nb == Len(Before(f))
             na == Len(After(f))
             n  == nb + na + 2
             g  == Save(f, b)
             j  == NewIndex(f, k)
  <1>1. nb \in Nat /\ na \in Nat /\ Len(Table(f, b)) = n /\ n \in 1 .. n /\ nb + 1 \in 1 .. n
    BY <1>0, TableParts DEF TableLaid
  <1>2. /\ Len(h.names) = n /\ h.names[n] = SHSTRTAB
    BY NamingBack DEF NamesBack
  <1>3. Len(NewOrder(f)) = n
    BY <1>0, Ordering
  <1>4. k + 1 \in 1 .. Len(f.names)
    BY <1>0
  <1>5. k + 1 \in Kept(f) \/ k + 1 = Shstrtab(f)
    BY <1>4 DEF Kept, OneTable
  <1>6. \E i \in 1 .. n : NewOrder(f)[i] = k + 1
    <2>1. CASE k + 1 \in Kept(f)
      BY <1>0, <2>1 DEF OldInOrder, Old
    <2>2. CASE k + 1 = Shstrtab(f)
      BY <1>0, <1>1, <2>2 DEF OldInOrder, Old
    <2>3. QED
      BY <1>5, <2>1, <2>2
  <1>7. j \in Nat /\ j + 1 \in 1 .. n /\ Old(f, j + 1) = k + 1
    <2> HIDE DEF n, j
    <2>1. QED
      BY <1>0, <1>3, <1>6, Renumbered DEF Old, j
  <1>8. FirstKept(f, n)
    <2>1. FirstKept(f, Len(Table(f, b)))
      BY KeepingFirst
    <2>2. QED
      BY <1>1, <2>1
  <1>9. j # 0
    <2>1. j = 0 => Old(f, 1) = k + 1
      BY <1>7
    <2>2. Old(f, 1) = 1
      BY <1>8 DEF FirstKept
    <2> HIDE DEF j
    <2>3. QED
      BY <2>1, <2>2
  <1>10. h.names[j + 1] = f.names[k + 1]
    <2>1. CASE k + 1 \in Kept(f)
      <3>1. SectionKept(f, b, g, j + 1)
        BY <1>1, <1>7, <2>1, KeepingSections
      <3>2. QED
        BY <1>7, <3>1 DEF SectionKept
    <2>2. CASE k + 1 = Shstrtab(f)
      <3>1. f.names[Shstrtab(f)] = SHSTRTAB
        <4>1. Shstrtab(f) # 0
          BY <1>4, <2>2
        <4>2. QED
          BY <1>0, <4>1 DEF Sorted
      <3>2. Old(f, j + 1) \notin Kept(f)
        BY <1>7, <2>2, <3>1 DEF Kept
      <3>3. j + 1 = nb + 1 \/ j + 1 = n
        BY <1>0, <1>7, <3>2 DEF OldInOrder
      <3>4. Old(f, nb + 1) = 0
        BY <1>0 DEF OldInOrder
      <3> HIDE DEF j, n, nb
      <3>5. j + 1 = n
        BY <1>7, <3>3, <3>4
      <3>6. QED
        BY <1>2, <2>2, <3>1, <3>5
    <2>3. QED
      BY <1>5, <2>1, <2>2
  <1>11. j < n
    <2> HIDE DEF j, n
    <2>1. QED
      BY <1>1, <1>7
  <1>12. QED
    BY <1>2, <1>7, <1>9, <1>10, <1>11 DEF Renamed, j

LEMMA ReachBack ==
  ASSUME NEW data, NEW f, NEW b, Saving(data, f, b), Stays(data, f), OneTable(f),
         NEW h, h = Parse(Save(f, b)),
         NEW a, NEW p, NEW q, Reaches(a, p, f, q)
  PROVE  Reaches(a, p, h, NewIndex(f, q))
  <1>1. SUFFICES ASSUME Target(a, p) # SIG
                 PROVE  /\ NewIndex(f, q) \in Nat /\ NewIndex(f, q) < Len(h.names)
                        /\ Target(h, NewIndex(f, q)) = Target(a, p)
    BY DEF Reaches
  <1>2. q \in Nat /\ q < Len(f.names) /\ Target(f, q) = Target(a, p)
    BY <1>1 DEF Reaches
  <1>3. CASE q = 0
    <2>1. NewIndex(f, q) = 0
      BY <1>3 DEF NewIndex
    <2>2. Len(h.names) \in Nat /\ Len(h.names) > 0
      <3>1. Len(h.names) = Len(Before(f)) + Len(After(f)) + 2
            /\ Len(Before(f)) \in Nat /\ Len(After(f)) \in Nat
        BY NamingBack DEF NamesBack
      <3>2. QED
        BY <3>1
    <2>3. Target(h, 0) = Target(f, 0)
      BY DEF Target
    <2>4. 0 \in Nat /\ 0 < Len(h.names)
      BY <2>2
    <2>5. QED
      BY <1>2, <1>3, <2>1, <2>3, <2>4
  <1>4. CASE q # 0
    <2>1. f.names[q + 1] = Target(a, p)
      BY <1>2, <1>4 DEF Target
    <2>2. Renamed(f, h, q)
      BY <1>1, <1>2, <1>4, <2>1, IndexBack
    <2>3. QED
      BY <2>1, <2>2 DEF Renamed, Target
  <1>5. QED
    BY <1>3, <1>4

LEMMA LinksBack ==
  ASSUME NEW data, NEW f, NEW b, Saving(data, f, b), Stays(data, f), OneTable(f),
         NEW h, h = Parse(Save(f, b)), NEW a, LinksSame(a, f)
  PROVE  LinksSame(a, h)
  <1> DEFINE n == Len(Before(f)) + Len(After(f)) + 2
             g == Save(f, b)
  <1>0. Input(data, f, b)
    BY DEF Saving
  <1>1. OwnMatched(f, h, n)
    BY OwnBack
  <1>2. n = Len(Table(f, b))
    BY <1>0, TableParts DEF TableLaid
  <1>3. Len(Own(h)) = Len(Own(a)) /\ Len(Own(f)) = Len(Own(a))
    BY <1>1 DEF OwnMatched, LinksSame
  <1>4. ASSUME NEW k \in 1 .. Len(Own(a))
        PROVE  LET x == a.shdrs[Own(a)[k]]
                   y == h.shdrs[Own(h)[k]]
               IN  /\ y.type = x.type
                   /\ Reaches(a, x.link, h, y.link)
                   /\ x.type = "REL" => Reaches(a, x.info, h, y.info)
    <2> DEFINE x == a.shdrs[Own(a)[k]]
               z == f.shdrs[Own(f)[k]]
               y == h.shdrs[Own(h)[k]]
               i == Own(h)[k]
    <2>1. i \in 1 .. n /\ i # 1 /\ Own(f)[k] = Old(f, i) /\ Old(f, i) \in Kept(f)
      BY <1>1, <1>3 DEF OwnMatched
    <2>2. SectionKept(f, b, g, i)
      BY <1>2, <2>1, KeepingSections
    <2>3. /\ y.type = z.type /\ y.link = NewIndex(f, z.link)
          /\ z.type = "REL" => y.info = NewIndex(f, z.info)
      BY <2>1, <2>2 DEF SectionKept
    <2>4. /\ z.type = x.type /\ Reaches(a, x.link, f, z.link)
          /\ x.type = "REL" => Reaches(a, x.info, f, z.info)
      BY DEF LinksSame
    <2> HIDE DEF x, y, z, i
    <2>5. Reaches(a, x.link, h, y.link)
      BY <2>3, <2>4, ReachBack
    <2>6. ASSUME x.type = "REL" PROVE Reaches(a, x.info, h, y.info)
      <3>1. Reaches(a, x.info, f, z.info) /\ y.info = NewIndex(f, z.info)
        BY <2>3, <2>4, <2>6
      <3>2. QED
        BY <3>1, ReachBack
    <2>7. QED
      BY <2>3, <2>4, <2>5, <2>6 DEF x, y
  <1>5. QED
    BY <1>3, <1>4 DEF LinksSame

LEMMA OneTableBack ==
  ASSUME NEW data, NEW f, NEW b, Saving(data, f, b), NEW h, h = Parse(Save(f, b))
  PROVE  OneTable(h)
  <1>0. Input(data, f, b) /\ Sorted(f)
    BY InputFacts DEF Saving
  <1> DEFINE nb == Len(Before(f))
             na == Len(After(f))
             n  == nb + na + 2
  <1>1. /\ nb \in Nat /\ na \in Nat /\ Len(h.names) = n
        /\ \A i \in 1 .. nb : h.names[i] = f.names[Before(f)[i]]
        /\ h.names[nb + 1] = SIG
        /\ \A i \in 1 .. na : h.names[nb + 1 + i] = f.names[After(f)[i]]
    BY NamingBack DEF NamesBack
  <1>2. /\ \A i \in 1 .. nb : Before(f)[i] \in Kept(f)
        /\ \A i \in 1 .. na : After(f)[i] \in Kept(f)
    BY <1>0 DEF Sorted, Collected
  <1>3. Shstrtab(h) = n
    <2>1. Shstrtab(h) = Shstrndx(Save(f, b)) + 1
      BY WellFormedBack
    <2>2. Shstrndx(Save(f, b)) = Len(Table(f, b)) - 1 /\ Len(Table(f, b)) \in Nat
      BY ReadingBack DEF ReadBack
    <2>3. Len(Table(f, b)) = n
      BY <1>0, TableParts DEF TableLaid
    <2> HIDE DEF n
    <2>4. QED
      BY <2>1, <2>2, <2>3
  <1>4. SIG # SHSTRTAB
    BY DEF SIG, SHSTRTAB
  <1>5. ASSUME NEW i \in 1 .. n, i # n PROVE h.names[i] # SHSTRTAB
    <2>1. CASE i \in 1 .. nb
      BY <1>1, <1>2, <2>1 DEF Kept
    <2>2. CASE i = nb + 1
      BY <1>1, <1>4, <2>2
    <2>3. CASE i \notin 1 .. nb /\ i # nb + 1
      <3>1. i - (nb + 1) \in 1 .. na /\ i = nb + 1 + (i - (nb + 1))
        BY <1>1, <1>5, <2>3
      <3>2. PICK j \in 1 .. na : i = nb + 1 + j
        BY <3>1
      <3>3. QED
        BY <1>1, <1>2, <3>2 DEF Kept
    <2>4. QED
      BY <2>1, <2>2, <2>3
  <1>6. QED
    BY <1>1, <1>3, <1>5 DEF OneTable

-----------------------------------------------------------------------------
(* The image of a signed file keeps what the first image a held, and what   *)
(* its program headers load.                                                *)
Same(a, g) ==
  /\ Loads(a, g) /\ Ehdr(g).phoff = Ehdr(a).phoff
  /\ ContentSame(Parse(a), Parse(g))
  /\ Linked(a) => LinksSame(Parse(a), Parse(g)) /\ OneTable(Parse(g))

Laid(g) ==
  LET h == Parse(g)
  IN  /\ ~Overlapping(h)
      /\ h.ehdr.shoff % ShdrAlign = 0
      /\ h.ehdr.shoff + Len(h.shdrs) = Len(g)

Reparses(g, f) ==
  \/ ParseError(g) = "" /\ ~HashFails(Parse(g))
  \/ ParseError(g) = "section limit" /\ Len(f.shdrs) = MaxSections

LEMMA RegularFormed ==
  ASSUME NEW data, Regular(data)
  PROVE  WellFormed(data)
  BY DEF Regular, WellFormed

LEMMA RegularSaved ==
  ASSUME NEW data, NEW f, NEW b, Saving(data, f, b), Regular(data), NEW g, g = Save(f, b)
  PROVE  /\ Typed(g) /\ Regular(g) /\ Laid(g) /\ Reparses(g, f)
         /\ HashOf(Parse(g)) = HashOf(f)
  <1>1. Accepts(data) /\ f = Parse(data)
    BY DEF Saving, Input
  <1>2. Stays(data, f)
    BY <1>1, RegularStays
  <1>3. Typed(g)
    BY TypedBack
  <1>4. Regular(g)
    BY RegularBack
  <1>5. Laid(g)
    BY <1>2, LayoutBack DEF Laid
  <1>6. ~HashFails(Parse(g)) /\ HashOf(Parse(g)) = HashOf(f)
    BY <1>2, HashReadable, HashBack
  <1>7. Rereads(g, f)
    BY <1>2, ParsesBack
  <1>8. QED
    BY <1>3, <1>4, <1>5, <1>6, <1>7 DEF Rereads, Reparses

LEMMA LoadsStay ==
  ASSUME NEW data, NEW f, Accepts(data), f = Parse(data), Stays(data, f),
         NEW a, Same(a, data), NEW g, StaysPut(data, f, g)
  PROVE  Loads(a, g)
  <1> DEFINE h == Parse(a)
             c == ContentEnd(f)
             o == Ehdr(a).phoff
  <1>1. h.phdrs = f.phdrs /\ Ehdr(data).phoff = o /\ Loads(a, data)
    BY DEF Same, ContentSame
  <1>2. f.ehdr.phoff = Ehdr(data).phoff /\ f.data = data
        /\ Len(f.phdrs) \in Nat /\ f.ehdr.phoff \in Nat /\ Sequence(f.phdrs)
    <2>1. Sequence(f.phdrs) /\ f.ehdr \in Ehdrs /\ f.ehdr.phoff = Ehdr(data).phoff
          /\ f.data = data
      BY ParsedHeaders
    <2>2. QED
      BY <2>1, SeqLen DEF Ehdrs
  <1>3. ASSUME NEW i \in 1 .. Len(h.phdrs) PROVE g[o + i] = a[o + i]
    <2>1. i \in Nat /\ i >= 1 /\ i =< Len(f.phdrs) /\ Len(f.phdrs) > 0
      BY <1>1, <1>2, <1>3
    <2>2. f.ehdr.phoff >= 1 /\ f.ehdr.phoff + Len(f.phdrs) =< c /\ c \in Nat
      BY <2>1 DEF Stays, StaysPut
    <2>3. o + i \in 2 .. c
      BY <1>1, <1>2, <2>1, <2>2
    <2>4. g[o + i] = data[o + i]
      BY <2>3 DEF StaysPut
    <2>5. data[o + i] = a[o + i]
      BY <1>1, <1>3 DEF Loads
    <2>6. QED
      BY <2>4, <2>5
  <1>4. ASSUME NEW ph \in ToSet(h.phdrs) PROVE Segment(h, ph) = Segment([data |-> g], ph)
    <2>1. Segment(h, ph) = Segment([data |-> data], ph)
      BY <1>1, <1>4 DEF Loads
    <2>2. PICK i \in 1 .. Len(f.phdrs) : ph = f.phdrs[i]
      BY <1>1, <1>2, <1>4, SeqLen
    <2>3. Segment(f, ph) = Segment([data |-> g], ph)
      BY <2>2, SegmentStays
    <2>4. Segment(f, ph) = Segment([data |-> data], ph)
      BY <1>2 DEF Segment
    <2>5. QED
      BY <2>1, <2>3, <2>4
  <1>5. QED
    BY <1>3, <1>4 DEF Loads

LEMMA SameSaved ==
  ASSUME NEW data, NEW f, NEW b, Saving(data, f, b), Regular(data),
         NEW a, Same(a, data), NEW g, g = Save(f, b)
  PROVE  Same(a, g)
  <1> DEFINE h == Parse(g)
  <1>1. Accepts(data) /\ f = Parse(data)
    BY DEF Saving, Input
  <1>2. Stays(data, f)
    BY <1>1, RegularStays
  <1>3. ContentSame(f, h)
    BY <1>2, ContentBack
  <1>4. ContentSame(Parse(a), f)
    BY <1>1 DEF Same
  <1>5. ContentSame(Parse(a), h)
    BY <1>3, <1>4 DEF ContentSame
  <1>6. ASSUME Linked(a) PROVE LinksSame(Parse(a), h) /\ OneTable(h)
    <2>1. LinksSame(Parse(a), f) /\ OneTable(f)
      BY <1>1, <1>6 DEF Same
    <2>2. LinksSame(Parse(a), h)
      BY <1>2, <2>1, LinksBack
    <2>3. OneTable(h)
      BY OneTableBack
    <2>4. QED
      BY <2>2, <2>3
  <1>7. Loads(a, g)
    BY <1>1, <1>2, StayingCells, LoadsStay
  <1>8. Ehdr(g).phoff = Ehdr(a).phoff
    BY <1>2, PhdrsBack DEF Same
  <1>9. QED
    BY <1>5, <1>6, <1>7, <1>8 DEF Same

LEMMA SameSelf ==
  ASSUME NEW a, Accepts(a)
  PROVE  Same(a, a)
  <1> DEFINE h == Parse(a)
  <1>1. ContentSame(h, h)
    BY DEF ContentSame
  <1>2. ASSUME Linked(a) PROVE LinksSame(h, h) /\ OneTable(h)
    <2>1. /\ OneTable(h)
          /\ \A n \in 1 .. Len(Own(h)) :
               LET x == h.shdrs[Own(h)[n]]
               IN  /\ x.link < Len(h.shdrs)
                   /\ x.type = "REL" => x.info < Len(h.shdrs)
      BY <1>2 DEF Linked, Accepts
    <2>2. /\ Len(h.names) = Len(h.shdrs) /\ Len(h.names) \in Nat
          /\ \A i \in 1 .. Len(h.shdrs) : h.shdrs[i] \in Shdrs
      BY Accepted, ParsedHeaders
    <2>3. ASSUME NEW n \in 1 .. Len(Own(h)), NEW x, x = h.shdrs[Own(h)[n]]
          PROVE  x.link \in Nat /\ x.info \in Nat
      <3> DEFINE S == {i \in 1 .. Len(h.names) : /\ h.names[i] \notin {SIG, SHSTRTAB}
                                                /\ h.shdrs[i].type # "NULL"}
      <3>1. Own(h) = Collect(Len(h.names), S)
        BY DEF Own
      <3>2. Collected(Collect(Len(h.names), S), Len(h.names), S)
        BY <2>2, CollectLoop
      <3>3. Own(h)[n] \in S
        BY <2>3, <3>1, <3>2 DEF Collected
      <3>4. x \in Shdrs
        BY <2>2, <2>3, <3>3
      <3>5. QED
        BY <3>4 DEF Shdrs
    <2>4. QED
      BY <2>1, <2>2, <2>3 DEF LinksSame, Reaches
  <1>3. Loads(a, a)
    <2>1. h.data = a
      BY ParsedHeaders
    <2>2. QED
      BY <2>1 DEF Loads, Segment
  <1>4. QED
    BY <1>1, <1>2, <1>3 DEF Same


(* The strengthening for regular images: the image, until a call abandons   *)
(* it, and the file the loop works on stay regular and hold what the first  *)
(* image held, the bundle is signed for the file's hash, and the first      *)
(* round is the last.  Of an abandoned image the program headers and what   *)
(* they load stay.                                                          *)
RegularGood ==
  /\ result = "abandoned" => pc = "done"
  /\ result # "abandoned" => Typed(image) /\ Regular(image)
  /\ pc \in {"sign", "save", "check"} => Accepts(file) /\ Regular(file)
  /\ pc \in {"sign", "save"} => image = file
  /\ pc \in {"parse", "sign", "save", "check"} => attempt = 0
  /\ pc \in {"save", "check"} => bundle.len \in BundleLens /\ bundle.hash = HashOf(Parsed)
  /\ pc = "check" => Saving(file, Parsed, bundle) /\ image = Save(Parsed, bundle)
  /\ pc = "done" => attempt \in {0, 1} /\ result # "not stable"
  /\ Accepts(original) =>
       /\ Loads(original, image)
       /\ result # "abandoned" => Same(original, image)
       /\ pc \in {"sign", "save", "check"} => Same(original, file)
  /\ ~Accepts(original) =>
       image = original /\ pc \in {"parse", "done"} /\ result \notin {"ok", "abandoned"}
  /\ Signed => Laid(image)

RegularInv == Typed(original) /\ Regular(original) => RegularGood

LEMMA RegularStart ==
  ASSUME NEW a, Typed(a), Regular(a)
  PROVE  Accepts(a) => Same(a, a) /\ Loads(a, a)
  BY SameSelf DEF Same

LEMMA RegularInit == Init => RegularInv
  <1> SUFFICES ASSUME Init, Typed(original), Regular(original) PROVE RegularGood
    BY DEF RegularInv
  <1>1. Accepts(original) => Same(original, original) /\ Loads(original, original)
    BY RegularStart
  <1>2. QED
    BY <1>1 DEF Init, RegularGood, Signed

LEMMA RegularNext == RegularInv /\ [Next]_vars => RegularInv'
  <1>a. SUFFICES ASSUME RegularInv, [Next]_vars, Typed(original'), Regular(original')
                 PROVE  RegularGood'
    BY DEF RegularInv
  <1>b. CASE Restart
    <2>1. Accepts(original') => Same(original', original') /\ Loads(original', original')
      BY <1>a, RegularStart
    <2>2. QED
      BY <1>a, <1>b, <2>1 DEF Restart, RegularGood, Signed
  <1> SUFFICES ASSUME RegularGood, SignAgain => result # "abandoned", original' = original
                 PROVE  RegularGood'
    BY <1>a, <1>b, OriginalStays DEF RegularInv
  <1> USE DEF RegularGood, Signed, Parsed
  <1>0. original' = original
    OBVIOUS
  <1>1. CASE ParseInput
    <2>1. Accepts(image) /\ file' = image /\ image' = image /\ attempt' = attempt
          /\ pc = "parse" /\ pc' = "sign" /\ result' = result
      BY <1>1 DEF ParseInput, Acceptable, Accepts
    <2>2. Accepts(original)
      BY <2>1
    <2>3. QED
      BY <1>0, <2>1, <2>2
  <1>2. CASE RejectInput
    BY <1>0, <1>2 DEF RejectInput, Finish
  <1>3. CASE SignHash
    <2>1. PICK n \in BundleLens : bundle' = [hash |-> HashOf(Parsed), len |-> n]
      BY <1>3 DEF SignHash
    <2>2. bundle'.len \in BundleLens /\ bundle'.hash = HashOf(Parsed)
      BY <2>1
    <2>3. QED
      BY <1>0, <1>3, <2>2 DEF SignHash
  <1>4. CASE FailSignHash
    BY <1>0, <1>4 DEF FailSignHash, Finish
  <1>5. CASE Embed
    <2>1. Saving(file, Parsed, bundle) /\ image' = Save(Parsed, bundle)
      BY <1>5, SavingNow, RegularFormed DEF Embed
    <2>2. Typed(image') /\ Regular(image')
      BY <1>5, <2>1, RegularSaved DEF Embed
    <2>3. Accepts(original)
      BY <1>5 DEF Embed
    <2>4. Same(original, file)
      BY <1>5, <2>3 DEF Embed
    <2>5. Same(original, image') /\ Loads(original, image')
      BY <1>5, <2>1, <2>4, SameSaved DEF Embed, Same
    <2>6. QED
      BY <1>0, <1>5, <2>1, <2>2, <2>3, <2>4, <2>5 DEF Embed
  <1>6. CASE RefuseEmbed
    BY <1>0, <1>6 DEF RefuseEmbed, Finish
  <1>7. CASE AbandonEmbed
    <2>1. /\ pc = "save" /\ ~Refuses(Parsed) /\ attempt' = attempt
          /\ pc' = "done" /\ result' = "abandoned"
      BY <1>7 DEF AbandonEmbed, Finish
    <2>2. /\ Accepts(file) /\ Regular(file) /\ image = file /\ attempt = 0
          /\ bundle.len \in BundleLens
      BY <2>1
    <2>3. Input(file, Parsed, bundle)
      BY <2>1, <2>2, InputNow, RegularFormed
    <2>4. PICK n \in ContentEnd(Parsed) .. Min({Len(Unfinished(Parsed, bundle)), Len(image)}) :
            image' = SubSeq(Unfinished(Parsed, bundle), 1, n) \o SubSeq(image, n + 1, Len(image))
      BY <1>7 DEF AbandonEmbed
    <2>5. StaysPut(file, Parsed, image')
      BY <2>2, <2>3, <2>4, AbandonedCells
    <2>6. Stays(file, Parsed)
      BY <2>2, RegularStays
    <2>7. Accepts(original) /\ Same(original, file)
      BY <2>1
    <2>8. Loads(original, image')
      BY <2>2, <2>5, <2>6, <2>7, LoadsStay
    <2>9. QED
      BY <1>0, <2>1, <2>2, <2>7, <2>8
  <1>8. CASE RejectEmbedded
    BY <1>0, <1>8 DEF RejectEmbedded, Finish
  <1>9. CASE CheckEmbedded
    <2>1. /\ pc = "check" /\ image' = image /\ attempt' = attempt + 1
          /\ Saving(file, Parsed, bundle) /\ image = Save(Parsed, bundle)
      BY <1>9 DEF CheckEmbedded
    <2>2. Regular(file) /\ bundle.hash = HashOf(Parsed) /\ attempt = 0
      BY <2>1
    <2>3. Laid(image) /\ HashOf(Parse(image)) = bundle.hash
      BY <2>1, <2>2, RegularSaved
    <2>4. pc' = "done" /\ result' = "ok"
      BY <1>9, <2>3 DEF CheckEmbedded, Finish
    <2>5. attempt' \in {0, 1}
      BY <2>1, <2>2
    <2>6. Accepts(original)
      BY <2>1
    <2>7. /\ Same(original, image) /\ Loads(original, image) /\ result # "abandoned"
          /\ Typed(image) /\ Regular(image)
      BY <2>1, <2>6
    <2>8. QED
      BY <1>0, <2>1, <2>3, <2>4, <2>5, <2>6, <2>7
  <1>10. CASE SignAgain
    BY <1>0, <1>10 DEF SignAgain
  <1>11. CASE UNCHANGED vars
    BY <1>11 DEF vars
  <1>12. QED
    BY <1>a, <1>1, <1>2, <1>3, <1>4, <1>5, <1>6, <1>7, <1>8, <1>9, <1>10, <1>11 DEF Next


LEMMA AtMostOne == \A a \in {0, 1} : a =< 1 /\ a =< 2 /\ a # 2
  OBVIOUS

(* A regular image is signed in one round: embedding the note does not      *)
(* change the hash (hash.go:16-60), so neither the retry nor its limit is   *)
(* ever reached (sign.go:26-57).                                            *)
THEOREM OneRound ==
  Spec => [](Typed(original) /\ Regular(original) =>
               (pc = "done" => attempt =< 1 /\ result # "not stable"))
  <1>1. RegularInv => (Typed(original) /\ Regular(original) =>
                         (pc = "done" => attempt =< 1 /\ result # "not stable"))
    BY AtMostOne DEF RegularInv, RegularGood
  <1>2. QED
    BY <1>1, RegularInit, RegularNext, PTL DEF Spec

(* So its signature settles as Stabilizes says (sign.go:26-57).             *)
THEOREM StableTheorem == Spec => [](Typed(original) /\ Regular(original) => Stabilizes)
  <1>1. RegularInv => (Typed(original) /\ Regular(original) => Stabilizes)
    BY AtMostOne DEF RegularInv, RegularGood, Stabilizes
  <1>2. QED
    BY <1>1, RegularInit, RegularNext, PTL DEF Spec

(* What saveELFSignature writes for a regular image parseELF can read and   *)
(* computeELFHash can hash, unless the note is the one section too many     *)
(* (sign.go:44-51, file.go).                                                *)
THEOREM ReparseTheorem == Spec => [](Typed(original) /\ Regular(original) => EmbeddedParses)
  <1>1. RegularInv => (Typed(original) /\ Regular(original) => EmbeddedParses)
    <2>1. SUFFICES ASSUME RegularGood, pc = "check"
                   PROVE  Reparses(image, Parsed)
      BY DEF RegularInv, EmbeddedParses, Reparses
    <2>2. Saving(file, Parsed, bundle) /\ image = Save(Parsed, bundle) /\ Regular(file)
      BY <2>1 DEF RegularGood
    <2>3. QED
      BY <2>2, RegularSaved
  <1>2. QED
    BY <1>1, RegularInit, RegularNext, PTL DEF Spec

(* However often a regular image is signed, its sections keep their order   *)
(* and their data, and its program headers load what they loaded            *)
(* (writer.go:17-187).                                                      *)
THEOREM ContentTheorem == Spec => [](Typed(original) /\ Regular(original) => ContentKept)
  <1>1. RegularInv => (Typed(original) /\ Regular(original) => ContentKept)
    <2>1. SUFFICES ASSUME RegularGood, Signed PROVE ContentKept
      BY DEF RegularInv, ContentKept
    <2>2. ContentSame(Parse(original), Parse(image))
      BY <2>1 DEF RegularGood, Signed, Same
    <2>3. QED
      BY <2>2 DEF ContentSame, ContentKept
  <1>2. QED
    BY <1>1, RegularInit, RegularNext, PTL DEF Spec

(* And every link of its sections names the section it named                *)
(* (writer.go:143-170, 224-236).                                            *)
THEOREM LinksTheorem ==
  Spec => [](Typed(original) /\ Regular(original) /\ Linked(original) => LinksKept)
  <1>1. RegularInv => (Typed(original) /\ Regular(original) /\ Linked(original) => LinksKept)
    <2>1. SUFFICES ASSUME RegularGood, Signed, Linked(original) PROVE LinksKept
      BY DEF RegularInv, LinksKept
    <2>2. LinksSame(Parse(original), Parse(image))
      BY <2>1 DEF RegularGood, Signed, Same
    <2>3. QED
      BY <2>2 DEF LinksSame, Reaches, LinksKept
  <1>2. QED
    BY <1>1, RegularInit, RegularNext, PTL DEF Spec

(* The parts of a signed image do not overlap, and the section-header table *)
(* is aligned and ends the file (writer.go:17-27, 137-187).                 *)
THEOREM LayoutTheorem == Spec => [](Typed(original) /\ Regular(original) => LayoutSound)
  <1>1. RegularInv => (Typed(original) /\ Regular(original) => LayoutSound)
    BY DEF RegularInv, RegularGood, LayoutSound, Laid
  <1>2. QED
    BY <1>1, RegularInit, RegularNext, PTL DEF Spec

(* A call that gives up on a regular image, after part of its appends have  *)
(* gone into the caller's array, has spared the program headers and what    *)
(* the segments load (writer.go:94-116, 207-222).                           *)
THEOREM AbandonedTheorem ==
  Spec => [](Typed(original) /\ Regular(original) => AbandonedLoads)
  <1>1. RegularInv => (Typed(original) /\ Regular(original) => AbandonedLoads)
    BY DEF RegularInv, RegularGood, AbandonedLoads
  <1>2. QED
    BY <1>1, RegularInit, RegularNext, PTL DEF Spec

=============================================================================

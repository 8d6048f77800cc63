--------------------------- MODULE ElfImageProofs ----------------------------
(***************************************************************************)
(* Facts about the operators of ElfImage, for every image: what the loops  *)
(* collect and lay out, and what parseELF reads back from what             *)
(* saveELFSignature has written.                                           *)
(***************************************************************************)
EXTENDS ElfImage, FiniteSetTheorems, SequenceTheorems, WellFoundedInduction, TLAPS

(* A sequence of anything. *)
Sequence(s) == s \in Seq(ToSet(s))

LEMMA InSeq ==
  ASSUME NEW T, NEW s \in Seq(T)
  PROVE  Sequence(s) /\ Len(s) \in Nat /\ DOMAIN s = 1 .. Len(s)
  <1>1. Len(s) \in Nat /\ DOMAIN s = 1 .. Len(s) /\ s \in [1 .. Len(s) -> T]
    BY LenProperties
  <1>2. s \in [1 .. Len(s) -> ToSet(s)]
    BY <1>1 DEF ToSet
  <1>3. QED
    BY <1>1, <1>2, SeqDef DEF Sequence

LEMMA SeqLen ==
  ASSUME NEW s, Sequence(s)
  PROVE  Len(s) \in Nat /\ DOMAIN s = 1 .. Len(s) /\ ToSet(s) = {s[i] : i \in 1 .. Len(s)}
  BY InSeq DEF Sequence, ToSet

(* A function on 1 .. n is a sequence of length n. *)
LEMMA FcnSeq ==
  ASSUME NEW n \in Nat, NEW s, s = [i \in 1 .. n |-> s[i]]
  PROVE  Sequence(s) /\ Len(s) = n
  <1>1. DOMAIN s = 1 .. n
    OBVIOUS
  <1>2. s \in [1 .. n -> ToSet(s)]
    BY <1>1 DEF ToSet
  <1>3. s \in Seq(ToSet(s))
    BY <1>2, SeqDef
  <1>4. Len(s) \in Nat /\ DOMAIN s = 1 .. Len(s)
    BY <1>3, LenProperties
  <1>5. Len(s) = n
    <2>1. 1 .. Len(s) = 1 .. n
      BY <1>1, <1>4
    <2>2. QED
      BY <1>4, <2>1
  <1>6. QED
    BY <1>3, <1>5 DEF Sequence

LEMMA SeqIn ==
  ASSUME NEW s, Sequence(s), NEW T, \A i \in 1 .. Len(s) : s[i] \in T
  PROVE  s \in Seq(T)
  <1>1. ToSet(s) \subseteq T
    BY SeqLen
  <1>2. QED
    BY <1>1, SeqMonotonic DEF Sequence

LEMMA SameSeq ==
  ASSUME NEW s, NEW t, Sequence(s), Sequence(t), Len(s) = Len(t),
         \A i \in 1 .. Len(s) : s[i] = t[i]
  PROVE  s = t
  <1>1. s \in Seq(ToSet(s) \cup ToSet(t)) /\ t \in Seq(ToSet(s) \cup ToSet(t))
    BY SeqMonotonic DEF Sequence
  <1>2. QED
    BY <1>1, SeqEqual

LEMMA Concat ==
  ASSUME NEW s, NEW t, Sequence(s), Sequence(t)
  PROVE  /\ Sequence(s \o t) /\ Len(s \o t) = Len(s) + Len(t)
         /\ \A i \in 1 .. Len(s) : (s \o t)[i] = s[i]
         /\ \A i \in 1 .. Len(t) : (s \o t)[Len(s) + i] = t[i]
  <1> DEFINE T == ToSet(s) \cup ToSet(t)
  <1>1. s \in Seq(T) /\ t \in Seq(T)
    BY SeqMonotonic DEF Sequence
  <1>2. Len(s) \in Nat /\ Len(t) \in Nat
    BY SeqLen
  <1> HIDE DEF T
  <1>3. /\ s \o t \in Seq(T) /\ Len(s \o t) = Len(s) + Len(t)
        /\ \A i \in 1 .. Len(s) + Len(t) : (s \o t)[i] =
             IF i <= Len(s) THEN s[i] ELSE t[i - Len(s)]
    BY <1>1, ConcatProperties
  <1>4. \A i \in 1 .. Len(s) : i \in 1 .. Len(s) + Len(t) /\ i <= Len(s)
    BY <1>2
  <1>5. \A i \in 1 .. Len(t) : /\ Len(s) + i \in 1 .. Len(s) + Len(t)
                               /\ ~(Len(s) + i <= Len(s)) /\ Len(s) + i - Len(s) = i
    BY <1>2
  <1>6. \A i \in 1 .. Len(s) : (s \o t)[i] = s[i]
    BY <1>3, <1>4
  <1>7. \A i \in 1 .. Len(t) : (s \o t)[Len(s) + i] = t[i]
    BY <1>3, <1>5
  <1>8. QED
    BY <1>3, <1>6, <1>7, InSeq

LEMMA Appended ==
  ASSUME NEW s, NEW e, Sequence(s)
  PROVE  /\ Sequence(Append(s, e)) /\ Len(Append(s, e)) = Len(s) + 1
         /\ \A i \in 1 .. Len(s) : Append(s, e)[i] = s[i]
         /\ Append(s, e)[Len(s) + 1] = e
  <1> DEFINE T == ToSet(s) \cup {e}
  <1>1. s \in Seq(T) /\ e \in T
    BY SeqMonotonic DEF Sequence
  <1>2. Len(s) \in Nat
    BY SeqLen
  <1> HIDE DEF T
  <1>3. /\ Append(s, e) \in Seq(T) /\ Len(Append(s, e)) = Len(s) + 1
        /\ \A i \in 1 .. Len(s) : Append(s, e)[i] = s[i]
        /\ Append(s, e)[Len(s) + 1] = e
    BY <1>1, AppendProperties
  <1>4. QED
    BY <1>3, InSeq

LEMMA Single ==
  ASSUME NEW e
  PROVE  Sequence(<<e>>) /\ Len(<<e>>) = 1 /\ <<e>>[1] = e
  <1>1. <<e>> \in Seq({e})
    OBVIOUS
  <1>2. QED
    BY <1>1, InSeq

(* A slice that lies within the sequence. *)
LEMMA Sliced ==
  ASSUME NEW s, Sequence(s), NEW off \in Nat, NEW n \in Nat, off + n =< Len(s)
  PROVE  /\ Sequence(Slice(s, off, n)) /\ Len(Slice(s, off, n)) = n
         /\ \A i \in 1 .. n : Slice(s, off, n)[i] = s[off + i]
  <1>1. Len(s) \in Nat /\ \A i \in 1 .. Len(s) : s[i] \in ToSet(s)
    BY SeqLen
  <1> DEFINE a == off + 1
             b == off + n
  <1>2. a \in Int /\ b \in Int /\ b - a + 1 = n /\ a .. b \subseteq 1 .. Len(s)
    BY <1>1
  <1>3. (IF a <= b THEN b - a + 1 ELSE 0) = n /\ \A i \in 1 .. n : a + i - 1 = off + i
    OBVIOUS
  <1>4. \A i \in a .. b : s[i] \in ToSet(s)
    BY <1>1, <1>2
  <1>5. /\ SubSeq(s, a, b) \in Seq(ToSet(s))
        /\ Len(SubSeq(s, a, b)) = IF a <= b THEN b - a + 1 ELSE 0
        /\ \A i \in 1 .. b - a + 1 : SubSeq(s, a, b)[i] = s[a + i - 1]
    BY ONLY <1>2, <1>4, SubSeqProperties
  <1>6. QED
    BY <1>2, <1>3, <1>5, InSeq DEF Slice

-----------------------------------------------------------------------------
(* Induction over the numbers, as a fact about sets. *)
LEMMA SetInduction ==
  ASSUME NEW S, 0 \in S, \A n \in Nat : n \in S => n + 1 \in S
  PROVE  Nat \subseteq S
  <1> DEFINE T == Nat \ S
  <1>1. SUFFICES ASSUME T # {} PROVE FALSE
    OBVIOUS
  <1>2. IsWellFoundedOn(OpToRel(<, Nat), Nat)
    BY NatLessThanWellFounded
  <1>3. PICK x \in T : \A y \in T : ~(<<y, x>> \in OpToRel(<, Nat))
    BY <1>1, <1>2, WFMin
  <1>4. \A y \in T : ~ (y < x)
    BY <1>3 DEF OpToRel
  <1>5. x # 0 /\ x - 1 \in Nat /\ x - 1 < x /\ (x - 1) + 1 = x
    OBVIOUS
  <1>6. QED
    BY <1>4, <1>5

LEMMA MinOf ==
  ASSUME NEW S, S \subseteq Nat, S # {}
  PROVE  Min(S) \in S /\ \A y \in S : Min(S) =< y
  <1>1. IsWellFoundedOn(OpToRel(<, Nat), Nat)
    BY NatLessThanWellFounded
  <1>2. PICK x \in S : \A y \in S : ~(<<y, x>> \in OpToRel(<, Nat))
    BY <1>1, WFMin
  <1>3. \A y \in S : ~(y < x)
    BY <1>2 DEF OpToRel
  <1>4. \A y \in S : x =< y
    BY <1>3
  <1>5. QED
    BY <1>4 DEF Min

LEMMA MaxOf ==
  ASSUME NEW n \in Nat, NEW S, S \subseteq Nat, \A x \in S : x =< n, S # {}
  PROVE  Max(S) \in S /\ \A y \in S : y =< Max(S)
  <1> DEFINE B == {m \in Nat : \A x \in S : x =< m}
             m == Min(B)
  <1>1. B \subseteq Nat /\ n \in B
    OBVIOUS
  <1>2. m \in B /\ \A y \in B : m =< y
    BY <1>1, MinOf
  <1>3. m \in Nat /\ \A x \in S : x =< m
    BY <1>2
  <1> HIDE DEF m
  <1>4. m \in S
    <2>1. SUFFICES ASSUME m \notin S PROVE FALSE
      OBVIOUS
    <2>2. \A x \in S : x =< m - 1
      BY <1>3, <2>1
    <2>3. m - 1 \in Nat
      <3>1. PICK x \in S : TRUE
        OBVIOUS
      <3>2. x \in Nat /\ x =< m - 1
        BY <2>2
      <3>3. QED
        BY <1>3, <3>2
    <2>4. m - 1 \in B
      BY <2>2, <2>3
    <2>5. QED
      BY <1>2, <1>3, <2>4
  <1>5. \E x \in S : \A y \in S : x >= y
    BY <1>3, <1>4
  <1>6. Max(S) \in S /\ \A y \in S : Max(S) >= y
    BY <1>5 DEF Max
  <1>7. QED
    BY <1>6

(* Finitely many numbers have a bound. *)
LEMMA Bounded ==
  ASSUME NEW n \in Nat, NEW s, \A i \in 1 .. n : s[i] \in Nat
  PROVE  \E b \in Nat : \A i \in 1 .. n : s[i] =< b
  <1> DEFINE S == {k \in Nat : k =< n => \E b \in Nat : \A i \in 1 .. k : s[i] =< b}
  <1>1. 0 \in S
    <2>1. \A i \in 1 .. 0 : s[i] =< 0
      OBVIOUS
    <2>2. QED
      BY <2>1
  <1>2. ASSUME NEW k \in Nat, k \in S PROVE k + 1 \in S
    <2>1. SUFFICES ASSUME k + 1 =< n
                   PROVE  \E b \in Nat : \A i \in 1 .. k + 1 : s[i] =< b
      OBVIOUS
    <2>2. PICK b \in Nat : \A i \in 1 .. k : s[i] =< b
      BY <1>2, <2>1
    <2>3. s[k + 1] \in Nat
      BY <2>1
    <2>4. b + s[k + 1] \in Nat
      BY <2>3
    <2>5. ASSUME NEW i \in 1 .. k + 1 PROVE s[i] =< b + s[k + 1]
      <3>1. CASE i = k + 1
        BY <2>3, <3>1
      <3>2. CASE i # k + 1
        <4>1. i \in 1 .. k
          BY <3>2
        <4>2. s[i] =< b /\ s[i] \in Nat
          BY <2>1, <2>2, <4>1
        <4>3. QED
          BY <2>3, <4>2
      <3>3. QED
        BY <3>1, <3>2
    <2>6. QED
      BY <2>4, <2>5
  <1>3. Nat \subseteq S
    <2> HIDE DEF S
    <2>1. QED
      BY <1>1, <1>2, SetInduction
  <1>4. n \in S
    BY <1>3
  <1>5. QED
    BY <1>4

(* A loop: a function defined by recursion exists, and has the values its   *)
(* step gives it.                                                           *)
Runs(g, n, V, init, F) ==
  /\ g \in [0 .. n -> V] /\ g[0] = init
  /\ \A k \in 1 .. n : g[k] = F[<<k, g[k - 1]>>]

LEMMA Loop ==
  ASSUME NEW n \in Nat, NEW V, NEW init \in V, NEW F \in [(1 .. n) \X V -> V]
  PROVE  \E g : Runs(g, n, V, init, F)
  <1> USE DEF Runs
  <1> DEFINE Good(g, m) == Runs(g, m, V, init, F)
             S == {m \in Nat : m =< n => \E g : Good(g, m)}
  <1>1. 0 \in S
    <2>1. Good([k \in 0 .. 0 |-> init], 0)
      OBVIOUS
    <2>2. QED
      BY <2>1
  <1>2. ASSUME NEW m \in Nat, m \in S PROVE m + 1 \in S
    <2>1. SUFFICES ASSUME m + 1 =< n PROVE \E g : Good(g, m + 1)
      OBVIOUS
    <2>2. PICK g : Good(g, m)
      BY <1>2, <2>1
    <2> DEFINE h == [k \in 0 .. m + 1 |-> IF k = m + 1 THEN F[<<m + 1, g[m]>>] ELSE g[k]]
    <2>3. g[m] \in V /\ m + 1 \in 1 .. n
      BY <2>1, <2>2
    <2>4. F[<<m + 1, g[m]>>] \in V
      BY <2>3
    <2>5. \A k \in 0 .. m : h[k] = g[k] /\ h[k] \in V
      BY <2>2
    <2>6. h[m + 1] = F[<<m + 1, g[m]>>]
      OBVIOUS
    <2>7. h \in [0 .. m + 1 -> V]
      <3>1. \A k \in 0 .. m + 1 : k \in 0 .. m \/ k = m + 1
        OBVIOUS
      <3>2. \A k \in 0 .. m + 1 : h[k] \in V
        BY <2>4, <2>5, <2>6, <3>1
      <3>3. QED
        BY <3>2
    <2>8. ASSUME NEW k \in 1 .. m + 1 PROVE h[k] = F[<<k, h[k - 1]>>]
      <3>1. CASE k = m + 1
        <4>1. h[k - 1] = g[m]
          BY <2>5, <3>1
        <4>2. QED
          BY <2>6, <3>1, <4>1
      <3>2. CASE k # m + 1
        <4>1. k \in 1 .. m /\ k - 1 \in 0 .. m
          BY <3>2
        <4>2. QED
          BY <2>2, <2>5, <4>1
      <3>3. QED
        BY <3>1, <3>2
    <2>9. h[0] = init
      BY <2>2, <2>5
    <2> HIDE DEF h
    <2>10. QED
      BY <2>7, <2>8, <2>9
  <1>3. Nat \subseteq S
    <2> HIDE DEF S
    <2>1. QED
      BY <1>1, <1>2, SetInduction
  <1>4. n \in S
    BY <1>3
  <1>5. QED
    BY <1>4

-----------------------------------------------------------------------------
(* What Collect returns: the numbers of the set that are at most n, in      *)
(* order.                                                                   *)
Collected(c, n, S) ==
  /\ c \in Seq(1 .. n) /\ Len(c) \in Nat
  /\ \A i \in 1 .. Len(c) : c[i] \in S /\ c[i] \in 1 .. n
  /\ \A x \in S : x \in 1 .. n => \E i \in 1 .. Len(c) : c[i] = x
  /\ \A i, j \in 1 .. Len(c) : i < j => c[i] < c[j]

LEMMA CollectedNext ==
  ASSUME NEW n \in Nat, NEW S, NEW k \in 1 .. n, NEW c, NEW d,
         Collected(c, k - 1, S), d = IF k \in S THEN Append(c, k) ELSE c
  PROVE  Collected(d, k, S)
  <1>1. /\ c \in Seq(1 .. k - 1) /\ Len(c) \in Nat /\ Sequence(c)
        /\ \A i \in 1 .. Len(c) : c[i] \in S /\ c[i] \in 1 .. k - 1
        /\ \A x \in S : x \in 1 .. k - 1 => \E i \in 1 .. Len(c) : c[i] = x
        /\ \A i, j \in 1 .. Len(c) : i < j => c[i] < c[j]
    BY InSeq DEF Collected
  <1>2. \A x : x \in 1 .. k <=> (x \in 1 .. k - 1 \/ x = k)
    OBVIOUS
  <1>3. CASE k \notin S
    <2>1. d = c
      BY <1>3
    <2>2. \A i \in 1 .. Len(c) : c[i] \in 1 .. k
      BY <1>1, <1>2
    <2>3. c \in Seq(1 .. k)
      BY <1>1, <2>2, SeqIn
    <2>4. \A x \in S : x \in 1 .. k => \E i \in 1 .. Len(c) : c[i] = x
      BY <1>1, <1>2, <1>3
    <2>5. QED
      BY <1>1, <2>1, <2>2, <2>3, <2>4 DEF Collected
  <1>4. CASE k \in S
    <2>1. /\ d = Append(c, k) /\ Sequence(d) /\ Len(d) = Len(c) + 1
          /\ \A i \in 1 .. Len(c) : d[i] = c[i]
          /\ d[Len(c) + 1] = k
      BY <1>1, <1>4, Appended
    <2>2. \A i : i \in 1 .. Len(d) <=> (i \in 1 .. Len(c) \/ i = Len(c) + 1)
      BY <1>1, <2>1
    <2>3. \A i \in 1 .. Len(d) : d[i] \in S /\ d[i] \in 1 .. k
      BY <1>1, <1>2, <1>4, <2>1, <2>2
    <2>4. d \in Seq(1 .. k)
      BY <2>1, <2>3, SeqIn
    <2>5. \A x \in S : x \in 1 .. k => \E i \in 1 .. Len(d) : d[i] = x
      <3>1. SUFFICES ASSUME NEW x \in S, x \in 1 .. k PROVE \E i \in 1 .. Len(d) : d[i] = x
        OBVIOUS
      <3>2. CASE x = k
        BY <2>1, <2>2, <3>2
      <3>3. CASE x # k
        <4>1. x \in 1 .. k - 1
          BY <1>2, <3>1, <3>3
        <4>2. PICK i \in 1 .. Len(c) : c[i] = x
          BY <1>1, <4>1
        <4>3. QED
          BY <2>1, <2>2, <4>2
      <3>4. QED
        BY <3>2, <3>3
    <2>6. ASSUME NEW i \in 1 .. Len(d), NEW j \in 1 .. Len(d), i < j
          PROVE  d[i] < d[j]
      <3>1. i \in 1 .. Len(c) /\ d[i] = c[i] /\ c[i] \in 1 .. k - 1
        BY <1>1, <2>1, <2>2, <2>6
      <3>2. CASE j = Len(c) + 1
        BY <2>1, <3>1, <3>2
      <3>3. CASE j # Len(c) + 1
        <4>1. j \in 1 .. Len(c)
          BY <2>2, <3>3
        <4>2. QED
          BY <1>1, <2>1, <2>6, <3>1, <4>1
      <3>4. QED
        BY <3>2, <3>3
    <2>7. Len(d) \in Nat
      BY <1>1, <2>1
    <2>8. QED
      BY <2>3, <2>4, <2>5, <2>6, <2>7 DEF Collected
  <1>5. QED
    BY <1>3, <1>4

LEMMA CollectLoop ==
  ASSUME NEW n \in Nat, NEW S
  PROVE  Collected(Collect(n, S), n, S)
  <1> DEFINE V == Seq(Nat)
             F == [p \in (1 .. n) \X V |->
                     IF p[1] \in S THEN Append(p[2], p[1]) ELSE p[2]]
             c == CHOOSE c : c = [k \in 0 .. n |->
                      IF k = 0 THEN <<>>
                      ELSE IF k \in S THEN Append(c[k - 1], k) ELSE c[k - 1]]
  <1>1. F \in [(1 .. n) \X V -> V] /\ <<>> \in V
    OBVIOUS
  <1>2. PICK g \in [0 .. n -> V] :
          g[0] = <<>> /\ \A k \in 1 .. n : g[k] = F[<<k, g[k - 1]>>]
    <2>1. \E g : Runs(g, n, V, <<>>, F)
      <3> HIDE DEF F, V, c
      <3>1. QED
        BY <1>1, Loop
    <2>2. QED
      BY <2>1 DEF Runs
  <1>3. \A k \in 1 .. n : g[k] = IF k \in S THEN Append(g[k - 1], k) ELSE g[k - 1]
    <2>1. SUFFICES ASSUME NEW k \in 1 .. n
                   PROVE  F[<<k, g[k - 1]>>] = IF k \in S THEN Append(g[k - 1], k) ELSE g[k - 1]
      BY <1>2
    <2>2. k - 1 \in 0 .. n
      OBVIOUS
    <2>3. g[k - 1] \in V
      BY <1>2, <2>2
    <2>4. QED
      BY <2>3
  <1>4. \E h : h = [k \in 0 .. n |->
                      IF k = 0 THEN <<>>
                      ELSE IF k \in S THEN Append(h[k - 1], k) ELSE h[k - 1]]
    <2>1. \A k \in 0 .. n : k = 0 \/ k \in 1 .. n
      OBVIOUS
    <2>2. \A k \in 0 .. n :
            g[k] = IF k = 0 THEN <<>>
                   ELSE IF k \in S THEN Append(g[k - 1], k) ELSE g[k - 1]
      BY <1>2, <1>3, <2>1
    <2>3. g = [k \in 0 .. n |->
                 IF k = 0 THEN <<>>
                 ELSE IF k \in S THEN Append(g[k - 1], k) ELSE g[k - 1]]
      BY <1>2, <2>2
    <2>4. QED
      BY <2>3
  <1>5. c = [k \in 0 .. n |->
               IF k = 0 THEN <<>>
               ELSE IF k \in S THEN Append(c[k - 1], k) ELSE c[k - 1]]
    BY <1>4
  <1>6. Collect(n, S) = c[n]
    BY DEF Collect
  <1> HIDE DEF c
  <1>7. c[0] = <<>>
    BY <1>5
  <1>8. \A k \in 1 .. n : c[k] = IF k \in S THEN Append(c[k - 1], k) ELSE c[k - 1]
    <2>1. \A k \in 1 .. n : k \in 0 .. n /\ k # 0
      OBVIOUS
    <2>2. QED
      BY <1>5, <2>1, Zenon
  <1> DEFINE T == {k \in Nat : k =< n => Collected(c[k], k, S)}
  <1>9. 0 \in T
    <2>1. Len(<<>>) = 0 /\ <<>> \in Seq(1 .. 0)
      BY EmptySeq
    <2>2. Collected(<<>>, 0, S)
      BY <2>1 DEF Collected
    <2>3. QED
      BY <1>7, <2>2
  <1>10. ASSUME NEW k \in Nat, k \in T PROVE k + 1 \in T
    <2>1. SUFFICES ASSUME k + 1 =< n PROVE Collected(c[k + 1], k + 1, S)
      OBVIOUS
    <2>2. k + 1 \in 1 .. n /\ (k + 1) - 1 = k /\ k =< n
      BY <2>1
    <2>3. Collected(c[k], (k + 1) - 1, S)
      BY <1>10, <2>2
    <2>4. c[k + 1] = IF k + 1 \in S THEN Append(c[k], k + 1) ELSE c[k]
      BY <1>8, <2>2
    <2>5. QED
      BY <2>2, <2>3, <2>4, CollectedNext
  <1>11. Nat \subseteq T
    <2> HIDE DEF T
    <2>1. QED
      BY <1>9, <1>10, SetInduction
  <1>12. n \in T
    BY <1>11
  <1>13. QED
    BY <1>6, <1>12

-----------------------------------------------------------------------------
(* What lies within the file. *)
LEMMA Within ==
  ASSUME NEW off \in Nat, NEW n \in Nat, NEW m \in Nat, off =< m, n =< m - off
  PROVE  off + n =< m /\ \A i \in 1 .. n : off + i \in 1 .. m
  OBVIOUS

LEMMA Positive == ASSUME NEW n \in Nat, n # 0 PROVE n > 0 /\ n >= 1
  OBVIOUS

LEMMA NotAbove ==
  ASSUME NEW m \in Nat, NEW n \in Nat, ~(m >= n) PROVE m < n /\ m + 1 \in 1 .. n
  OBVIOUS

(* An image that parseELF accepts. *)
Accepts(data) == Typed(data) /\ ParseError(data) = ""

(* What parseELF gives for it. *)
LEMMA Accepted ==
  ASSUME NEW data, Accepts(data)
  PROVE  /\ data # <<>> /\ data[1][1] = "ehdr"
         /\ Sequence(data) /\ Len(data) \in Nat /\ Len(data) > 0
         /\ Ehdr(data) \in Ehdrs
         /\ Shnum(data) \in Nat /\ Shnum(data) > 0
         /\ Phnum(data) \in Nat
         /\ Ehdr(data).shoff + Shnum(data) =< Len(data)
         /\ Phnum(data) > 0 => Ehdr(data).phoff + Phnum(data) =< Len(data)
         /\ \A i \in 1 .. Shnum(data) : data[Ehdr(data).shoff + i][2] \in Shdrs
         /\ \A i \in 1 .. Phnum(data) : data[Ehdr(data).phoff + i][2] \in Phdrs
         /\ Shstrndx(data) \in Nat /\ Shstrndx(data) < Shnum(data)
  <1> DEFINE e == Ehdr(data)
  <1>1. Sequence(data) /\ Len(data) \in Nat
    BY SeqLen DEF Typed, Sequence, Accepts
  <1>2. data # <<>> /\ data[1][1] = "ehdr"
    BY DEF ParseError, Accepts
  <1>3. Len(data) > 0
    <2>1. data \in Seq(ToSet(data))
      BY DEF Typed, Accepts
    <2>2. Len(data) # 0
      BY <1>2, <2>1, EmptySeq
    <2>3. QED
      BY <1>1, <2>2, Positive
  <1>4. \A i \in 1 .. Len(data) : data[i] \in ToSet(data)
    BY <1>1, SeqLen
  <1>5. e \in Ehdrs
    <2>1. 1 \in 1 .. Len(data)
      BY <1>1, <1>3
    <2>2. QED
      BY <1>2, <1>4, <2>1 DEF Ehdr, Typed, Accepts
  <1>6. e.shoff \in Nat /\ e.phoff \in Nat /\ e.shnum \in Nat /\ e.phnum \in Nat /\ e.shstrndx \in Nat
    BY <1>5 DEF Ehdrs
  <1>7. /\ ~(e.phnum = XIndex /\ (~HasShdr0(data) \/ Phnum(data) = 0))
        /\ ~(e.shnum = 0 /\ ~HasShdr0(data))
        /\ ~(Phnum(data) > 0 /\ (e.phoff = 0 \/ ~RangeWithinFile(e.phoff, Phnum(data), data)))
        /\ Shnum(data) # 0
        /\ RangeWithinFile(e.shoff, Shnum(data), data)
        /\ ~Garbled(data)
        /\ ~(Shstrndx(data) >= Shnum(data))
    BY DEF ParseError, Accepts
  <1> HIDE DEF e
  <1>8. HasShdr0(data) => data[e.shoff + 1][2] \in Shdrs
    <2>1. SUFFICES ASSUME HasShdr0(data) PROVE data[e.shoff + 1][2] \in Shdrs
      OBVIOUS
    <2>2. /\ e.shoff =< Len(data) /\ 1 =< Len(data) - e.shoff
          /\ data[e.shoff + 1][1] = "shdr"
      BY <2>1 DEF HasShdr0, RangeWithinFile, IsShdr, e
    <2>3. e.shoff + 1 \in 1 .. Len(data)
      BY <1>1, <1>6, <2>2, Within
    <2>4. QED
      BY <1>4, <2>2, <2>3 DEF Typed, Accepts
  <1>9. Shnum(data) \in Nat /\ Shnum(data) > 0
    <2>1. Shnum(data) \in Nat
      BY <1>6, <1>7, <1>8 DEF Shnum, Shdrs, e
    <2>2. QED
      BY <1>7, <2>1, Positive
  <1>10. Phnum(data) \in Nat
    BY <1>6, <1>7, <1>8 DEF Phnum, Shdrs, e
  <1>11. /\ e.shoff + Shnum(data) =< Len(data)
         /\ \A i \in 1 .. Shnum(data) : e.shoff + i \in 1 .. Len(data)
    <2>1. e.shoff =< Len(data) /\ Shnum(data) =< Len(data) - e.shoff
      BY <1>7 DEF RangeWithinFile
    <2>2. QED
      BY <1>1, <1>6, <1>9, <2>1, Within
  <1>12. Phnum(data) > 0 =>
           /\ e.phoff + Phnum(data) =< Len(data)
           /\ \A i \in 1 .. Phnum(data) : e.phoff + i \in 1 .. Len(data)
    <2>1. SUFFICES ASSUME Phnum(data) > 0
                   PROVE  /\ e.phoff + Phnum(data) =< Len(data)
                          /\ \A i \in 1 .. Phnum(data) : e.phoff + i \in 1 .. Len(data)
      OBVIOUS
    <2>2. e.phoff =< Len(data) /\ Phnum(data) =< Len(data) - e.phoff
      BY <1>7, <2>1 DEF RangeWithinFile
    <2>3. QED
      BY <1>1, <1>6, <1>10, <2>2, Within
  <1>13. ASSUME NEW i \in 1 .. Shnum(data) PROVE data[e.shoff + i][2] \in Shdrs
    <2>1. data[e.shoff + i][1] = "shdr"
      BY <1>7 DEF Garbled, e
    <2>2. e.shoff + i \in 1 .. Len(data)
      BY <1>11
    <2>3. QED
      BY <1>4, <2>1, <2>2 DEF Typed, Accepts
  <1>14. ASSUME NEW i \in 1 .. Phnum(data) PROVE data[e.phoff + i][2] \in Phdrs
    <2>1. data[e.phoff + i][1] = "phdr"
      BY <1>7 DEF Garbled, e
    <2>2. Phnum(data) > 0
      BY <1>10
    <2>3. e.phoff + i \in 1 .. Len(data)
      BY <1>12, <2>2
    <2>4. QED
      BY <1>4, <2>1, <2>3 DEF Typed, Accepts
  <1>15. Shstrndx(data) \in Nat /\ Shstrndx(data) < Shnum(data)
    <2>1. Shstrndx(data) \in Nat
      BY <1>6, <1>7, <1>8 DEF Shstrndx, Shdrs, e
    <2>2. QED
      BY <1>7, <1>9, <2>1, NotAbove
  <1>16. QED
    BY <1>1, <1>2, <1>3, <1>5, <1>9, <1>10, <1>11, <1>12, <1>13, <1>14, <1>15 DEF e

(* The headers and names of an image. *)
LEMMA ParsedHeaders ==
  ASSUME NEW data, Accepts(data),
         NEW f, f = Parse(data), NEW n, n = Shnum(data)
  PROVE  /\ f.data = data
         /\ Sequence(f.shdrs) /\ Len(f.shdrs) = n
         /\ \A i \in 1 .. n : f.shdrs[i] \in Shdrs
                              /\ f.shdrs[i] = data[Ehdr(data).shoff + i][2]
         /\ Sequence(f.names) /\ Len(f.names) = n
         /\ \A i \in 1 .. n :
              f.names[i] = StringTable(data)[f.shdrs[i].name + 1][2]
         /\ Sequence(f.phdrs) /\ Len(f.phdrs) = Phnum(data)
         /\ \A i \in 1 .. Phnum(data) : f.phdrs[i] \in Phdrs
                              /\ f.phdrs[i] = data[Ehdr(data).phoff + i][2]
         /\ f.ehdr \in Ehdrs
         /\ f.ehdr.shoff = Ehdr(data).shoff /\ f.ehdr.phoff = Ehdr(data).phoff
         /\ f.ehdr.phnum = Ehdr(data).phnum /\ f.ehdr.machine = Ehdr(data).machine
  <1>1. /\ n \in Nat /\ Phnum(data) \in Nat /\ Shstrndx(data) \in Nat
        /\ Ehdr(data) \in Ehdrs /\ XIndex \in Nat
    BY Accepted, LimitsAssumption
  <1>2. f.shdrs = SectionTable(data)
    BY DEF Parse
  <1>3. f.shdrs = [i \in 1 .. n |-> data[Ehdr(data).shoff + i][2]]
    BY <1>2 DEF SectionTable
  <1>4. f.names = [i \in 1 .. n |-> StringTable(data)[f.shdrs[i].name + 1][2]]
    BY DEF Parse
  <1>5. f.phdrs = [i \in 1 .. Phnum(data) |-> data[Ehdr(data).phoff + i][2]]
    BY DEF Parse
  <1>6. Sequence(f.shdrs) /\ Len(f.shdrs) = n
    BY <1>1, <1>3, FcnSeq
  <1>7. Sequence(f.names) /\ Len(f.names) = n
    BY <1>1, <1>4, FcnSeq
  <1>8. Sequence(f.phdrs) /\ Len(f.phdrs) = Phnum(data)
    BY <1>1, <1>5, FcnSeq
  <1>9. f.data = data
    BY DEF Parse
  <1>10. f.ehdr = [Ehdr(data) EXCEPT !.shnum = IF n >= XIndex THEN 0 ELSE n,
                                     !.shstrndx = IF Shstrndx(data) >= XIndex
                                                  THEN XIndex ELSE Shstrndx(data)]
    BY DEF Parse
  <1>11. /\ f.ehdr \in Ehdrs
         /\ f.ehdr.shoff = Ehdr(data).shoff /\ f.ehdr.phoff = Ehdr(data).phoff
         /\ f.ehdr.phnum = Ehdr(data).phnum /\ f.ehdr.machine = Ehdr(data).machine
    <2> DEFINE a == IF n >= XIndex THEN 0 ELSE n
               b == IF Shstrndx(data) >= XIndex THEN XIndex ELSE Shstrndx(data)
    <2>1. a \in Nat /\ b \in Nat
      BY <1>1
    <2>2. f.ehdr = [Ehdr(data) EXCEPT !.shnum = a, !.shstrndx = b]
      BY <1>10
    <2> HIDE DEF a, b
    <2>3. QED
      BY <1>1, <2>1, <2>2 DEF Ehdrs
  <1>12. \A i \in 1 .. n : f.shdrs[i] \in Shdrs
                           /\ f.shdrs[i] = data[Ehdr(data).shoff + i][2]
    BY <1>3, Accepted
  <1>13. \A i \in 1 .. Phnum(data) : f.phdrs[i] \in Phdrs
                           /\ f.phdrs[i] = data[Ehdr(data).phoff + i][2]
    BY <1>5, Accepted
  <1>14. \A i \in 1 .. n : f.names[i] = StringTable(data)[f.shdrs[i].name + 1][2]
    BY <1>4
  <1>15. QED
    BY <1>6, <1>7, <1>8, <1>9, <1>11, <1>12, <1>13, <1>14

(* Its string table lies within the file and holds names only. *)
LEMMA ParsedStrings ==
  ASSUME NEW data, Accepts(data),
         NEW f, f = Parse(data), NEW k, k = Shstrndx(data) + 1
  PROVE  /\ k \in 1 .. Len(f.shdrs)
         /\ f.shdrs[k].type # "NOBITS" /\ f.shdrs[k].size > 0
         /\ f.shdrs[k].off + f.shdrs[k].size =< Len(data)
         /\ StringTable(data) = Slice(data, f.shdrs[k].off, f.shdrs[k].size)
         /\ Sequence(StringTable(data)) /\ Len(StringTable(data)) = f.shdrs[k].size
         /\ \A i \in 1 .. Len(StringTable(data)) : StringTable(data)[i][1] = "name"
         /\ \A i \in 1 .. Len(f.shdrs) : f.shdrs[i].name + 1 \in 1 .. f.shdrs[k].size
  <1> DEFINE n == Shnum(data)
             sh == f.shdrs[k]
  <1>1. /\ n \in Nat /\ Shstrndx(data) \in Nat /\ Shstrndx(data) < n
        /\ Sequence(data) /\ Len(data) \in Nat
    BY Accepted
  <1>2. Len(f.shdrs) = n /\ \A i \in 1 .. n : f.shdrs[i] \in Shdrs
    BY ParsedHeaders
  <1>3. k \in 1 .. n
    BY <1>1
  <1>4. f.shdrs = SectionTable(data)
    BY DEF Parse
  <1>5. /\ ~(sh.type = "NOBITS" \/ ~RangeWithinFile(sh.off, sh.size, data))
        /\ ~(\E i \in 1 .. n : f.shdrs[i].name >= sh.size)
        /\ ~Garbled(data)
    BY <1>4 DEF ParseError, Accepts
  <1>6. sh \in Shdrs
    BY <1>2, <1>3
  <1>7. sh.off \in Nat /\ sh.size \in Nat /\ \A i \in 1 .. n : f.shdrs[i].name \in Nat
    BY <1>2, <1>6 DEF Shdrs
  <1>8. sh.off + sh.size =< Len(data)
    BY <1>1, <1>5, <1>7 DEF RangeWithinFile
  <1>9. \A i \in 1 .. n : f.shdrs[i].name < sh.size
    BY <1>5, <1>7
  <1>10. sh.size > 0
    BY <1>3, <1>7, <1>9
  <1>11. StringTable(data) = Slice(data, sh.off, sh.size)
    BY <1>4 DEF StringTable
  <1>12. Sequence(StringTable(data)) /\ Len(StringTable(data)) = sh.size
    BY <1>1, <1>7, <1>8, <1>11, Sliced
  <1>13. \A i \in 1 .. Len(StringTable(data)) : StringTable(data)[i][1] = "name"
    BY <1>1, <1>5 DEF Garbled
  <1>14. \A i \in 1 .. n : f.shdrs[i].name + 1 \in 1 .. sh.size
    BY <1>7, <1>9
  <1>15. QED
    BY <1>2, <1>3, <1>5, <1>8, <1>10, <1>11, <1>12, <1>13, <1>14

-----------------------------------------------------------------------------
(* The first, or the last, of the places where a search finds something.    *)
LEMMA FirstOf ==
  ASSUME NEW n \in Nat, NEW I, I \subseteq 1 .. n,
         NEW k, k = IF I # {} THEN Min(I) ELSE 0
  PROVE  /\ k \in 0 .. n
         /\ k = 0 <=> I = {}
         /\ k # 0 => k \in I /\ \A i \in 1 .. k - 1 : i \notin I
  <1>1. CASE I = {}
    <2>1. k = 0
      BY <1>1
    <2>2. 0 \in 0 .. n
      OBVIOUS
    <2>3. QED
      BY <1>1, <2>1, <2>2
  <1>2. CASE I # {}
    <2>1. I \subseteq Nat
      OBVIOUS
    <2>2. k \in I /\ \A i \in I : k =< i
      BY <1>2, <2>1, MinOf
    <2>3. k \in 1 .. n
      BY <2>2
    <2>4. \A i \in 1 .. k - 1 : ~(k =< i)
      BY <2>3
    <2>5. k # 0 /\ k \in 0 .. n
      BY <2>3
    <2>6. QED
      BY <1>2, <2>2, <2>4, <2>5
  <1>3. QED
    BY <1>1, <1>2

LEMMA LastOf ==
  ASSUME NEW n \in Nat, NEW I, I \subseteq 1 .. n,
         NEW k, k = IF I # {} THEN Max(I) ELSE 0
  PROVE  /\ k \in 0 .. n
         /\ k = 0 <=> I = {}
         /\ k # 0 => k \in I /\ \A i \in k + 1 .. n : i \notin I
  <1>1. CASE I = {}
    <2>1. k = 0
      BY <1>1
    <2>2. 0 \in 0 .. n
      OBVIOUS
    <2>3. QED
      BY <1>1, <2>1, <2>2
  <1>2. CASE I # {}
    <2>1. I \subseteq Nat /\ \A i \in I : i =< n
      OBVIOUS
    <2>2. k \in I /\ \A i \in I : i =< k
      BY <1>2, <2>1, MaxOf
    <2>3. k \in 1 .. n
      BY <2>2
    <2>4. \A i \in k + 1 .. n : ~(i =< k)
      BY <2>3
    <2>5. k # 0 /\ k \in 0 .. n
      BY <2>3
    <2>6. QED
      BY <1>2, <2>2, <2>4, <2>5
  <1>3. QED
    BY <1>1, <1>2

(* Whatever is first is what the search finds. *)
LEMMA FirstIs ==
  ASSUME NEW n \in Nat, NEW I, I \subseteq 1 .. n,
         NEW k \in I, \A i \in 1 .. k - 1 : i \notin I
  PROVE  I # {} /\ Min(I) = k
  <1>1. I \subseteq Nat
    OBVIOUS
  <1>2. Min(I) \in I /\ \A i \in I : Min(I) =< i
    BY <1>1, MinOf
  <1>3. Min(I) \in 1 .. n /\ k \in 1 .. n
    BY <1>2
  <1>4. Min(I) \notin 1 .. k - 1
    BY <1>2
  <1>5. Min(I) =< k
    BY <1>2
  <1>6. QED
    BY <1>3, <1>4, <1>5

LEMMA LastIs ==
  ASSUME NEW n \in Nat, NEW I, I \subseteq 1 .. n,
         NEW k \in I, \A i \in k + 1 .. n : i \notin I
  PROVE  I # {} /\ Max(I) = k
  <1>1. I \subseteq Nat /\ \A i \in I : i =< n
    OBVIOUS
  <1>2. Max(I) \in I /\ \A i \in I : i =< Max(I)
    BY <1>1, MaxOf
  <1>3. Max(I) \in 1 .. n /\ k \in 1 .. n
    BY <1>2
  <1>4. Max(I) \notin k + 1 .. n
    BY <1>2
  <1>5. k =< Max(I)
    BY <1>2
  <1>6. QED
    BY <1>3, <1>4, <1>5

-----------------------------------------------------------------------------
(* The order of the sections in what is written.  Sorted(f) says what       *)
(* Before, After and Shstrtab are.                                          *)
Sorted(f) ==
  LET n == Len(f.names)
      p == InsertPos(f)
  IN  /\ n \in Nat /\ p \in 1 .. n + 1
      /\ \A i \in 1 .. p - 1 : f.names[i] \notin {SYMTAB, STRTAB, SHSTRTAB}
      /\ p =< n => f.names[p] \in {SYMTAB, STRTAB, SHSTRTAB}
      /\ Collected(Before(f), n, {i \in Kept(f) : i < p})
      /\ Collected(After(f), n, {i \in Kept(f) : i >= p})
      /\ Shstrtab(f) \in 0 .. n
      /\ Shstrtab(f) # 0 => /\ f.names[Shstrtab(f)] = SHSTRTAB
                            /\ \A i \in Shstrtab(f) + 1 .. n : f.names[i] # SHSTRTAB

LEMMA Order ==
  ASSUME NEW f, Sequence(f.names)
  PROVE  Sorted(f)
  <1> DEFINE n == Len(f.names)
             p == InsertPos(f)
             I == {i \in 1 .. n : f.names[i] \in {SYMTAB, STRTAB, SHSTRTAB}}
             k == IF I # {} THEN Min(I) ELSE 0
             J == {i \in 1 .. n : f.names[i] = SHSTRTAB}
             s == Shstrtab(f)
  <1>1. n \in Nat
    BY SeqLen
  <1>2. p = IF k = 0 THEN n + 1 ELSE k
    BY DEF InsertPos, SelectInSeq
  <1>3. /\ k \in 0 .. n
        /\ k = 0 <=> I = {}
        /\ k # 0 => k \in I /\ \A i \in 1 .. k - 1 : i \notin I
    <2>1. I \subseteq 1 .. n
      OBVIOUS
    <2> HIDE DEF I, n
    <2>2. QED
      BY <1>1, <2>1, FirstOf
  <1> HIDE DEF k, p
  <1>4. p \in 1 .. n + 1 /\ \A i \in 1 .. p - 1 : i \in 1 .. n
    <2> HIDE DEF I, n
    <2>1. QED
      BY <1>1, <1>2, <1>3
  <1>5. \A i \in 1 .. p - 1 : i \notin I
    <2> HIDE DEF I, n
    <2>1. CASE k = 0
      BY <1>2, <1>3, <2>1
    <2>2. CASE k # 0
      BY <1>2, <1>3, <2>2
    <2>3. QED
      BY <2>1, <2>2
  <1>6. \A i \in 1 .. p - 1 : f.names[i] \notin {SYMTAB, STRTAB, SHSTRTAB}
    BY <1>4, <1>5
  <1>7. p =< n => f.names[p] \in {SYMTAB, STRTAB, SHSTRTAB}
    <2>1. p =< n => p \in I
      <3> HIDE DEF I, n
      <3>1. QED
        BY <1>1, <1>2, <1>3
    <2>2. QED
      BY <2>1
  <1>8. Collected(Before(f), n, {i \in Kept(f) : i < p})
    <2>1. {i \in 1 .. p - 1 : f.names[i] \notin {SIG, SHSTRTAB}} = {i \in Kept(f) : i < p}
      <3>1. \A i : i \in 1 .. p - 1 <=> (i \in 1 .. n /\ i < p)
        BY <1>1, <1>4
      <3> HIDE DEF n
      <3>2. QED
        BY <3>1 DEF Kept, n
    <2>2. Before(f) = Collect(n, {i \in Kept(f) : i < p})
      BY <2>1 DEF Before, p
    <2>3. QED
      BY <1>1, <2>2, CollectLoop
  <1>9. Collected(After(f), n, {i \in Kept(f) : i >= p})
    <2>1. {i \in p .. n : f.names[i] \notin {SIG, SHSTRTAB}} = {i \in Kept(f) : i >= p}
      <3>1. \A i : i \in p .. n <=> (i \in 1 .. n /\ i >= p)
        BY <1>1, <1>4
      <3> HIDE DEF n
      <3>2. QED
        BY <3>1 DEF Kept, n
    <2>2. After(f) = Collect(n, {i \in Kept(f) : i >= p})
      BY <2>1 DEF After, p
    <2>3. QED
      BY <1>1, <2>2, CollectLoop
  <1>10. s = IF J # {} THEN Max(J) ELSE 0
    BY DEF Shstrtab, SelectLastInSeq
  <1> HIDE DEF s
  <1>11. /\ s \in 0 .. n
         /\ s # 0 => s \in J /\ \A i \in s + 1 .. n : i \notin J
    <2>1. J \subseteq 1 .. n
      OBVIOUS
    <2> HIDE DEF J, n
    <2>2. QED
      BY <1>1, <1>10, <2>1, LastOf
  <1>12. s # 0 => f.names[s] = SHSTRTAB
    BY <1>11
  <1>13. s # 0 => \A i \in s + 1 .. n : f.names[i] # SHSTRTAB
    <2>1. \A i \in s + 1 .. n : i \in 1 .. n
      BY <1>1, <1>11
    <2>2. QED
      BY <1>11, <2>1
  <1>14. QED
    BY <1>1, <1>4, <1>6, <1>7, <1>8, <1>9, <1>11, <1>12, <1>13 DEF Sorted, p, s

-----------------------------------------------------------------------------
(* The content that stays ends within the file, behind the ELF header; and  *)
(* what stays lies before that end, unless the file ends there or the       *)
(* section-header table, at the end of the file, begins there.              *)
EndSound(f) ==
  LET c == ContentEnd(f)
  IN  /\ c \in 1 .. Len(f.data)
      /\ \/ c = Len(f.data)
         \/ c = f.ehdr.shoff /\ f.ehdr.shoff + Len(f.shdrs) = Len(f.data)
         \/ /\ \A i \in 1 .. Len(Before(f)) :
                 HasData(f.shdrs[Before(f)[i]]) =>
                   f.shdrs[Before(f)[i]].off + f.shdrs[Before(f)[i]].size =< c
            /\ \A i \in 1 .. Len(f.phdrs) :
                 f.phdrs[i].filesz # 0 => f.phdrs[i].off + f.phdrs[i].filesz =< c
            /\ f.ehdr.phoff > 0 => f.ehdr.phoff + Len(f.phdrs) =< c

LEMMA LeastOfTwo ==
  ASSUME NEW a \in Nat, NEW b \in Nat
  PROVE  Min({a, b}) \in Nat /\ Min({a, b}) =< a /\ Min({a, b}) =< b /\ Min({a, b}) \in {a, b}
  <1>1. {a, b} \subseteq Nat /\ {a, b} # {}
    OBVIOUS
  <1>2. QED
    BY <1>1, MinOf

(* Where what stays ends: the ELF header, the program headers, the sections *)
(* with data and the segments.                                              *)
Ends(f) ==
  {1, IF f.ehdr.phoff > 0 THEN f.ehdr.phoff + Len(f.phdrs) ELSE 1}
  \cup {f.shdrs[i].off + f.shdrs[i].size :
           i \in {j \in ToSet(Before(f)) : HasData(f.shdrs[j])}}
  \cup {h.off + h.filesz : h \in {g \in ToSet(f.phdrs) : g.filesz # 0}}

EndCells(data, f) ==
  LET n == Len(f.shdrs)
      m == Len(f.phdrs)
      B == Before(f)
  IN  /\ n \in Nat /\ m \in Nat /\ f.data = data /\ Len(data) \in Nat /\ Len(data) > 0
      /\ f.ehdr.phoff \in Nat /\ f.ehdr.shoff \in Nat /\ f.ehdr.shoff =< Len(data)
      /\ \A i \in 1 .. n : f.shdrs[i].off \in Nat /\ f.shdrs[i].size \in Nat
      /\ \A i \in 1 .. m : f.phdrs[i].off \in Nat /\ f.phdrs[i].filesz \in Nat
      /\ Len(f.names) = n /\ Sequence(f.names) /\ Sequence(f.phdrs)
      /\ Len(B) \in Nat /\ \A i \in 1 .. Len(B) : B[i] \in 1 .. n
      /\ ToSet(B) = {B[i] : i \in 1 .. Len(B)}
      /\ ToSet(f.phdrs) = {f.phdrs[i] : i \in 1 .. m}

LEMMA EndingCells ==
  ASSUME NEW data, Accepts(data), NEW f, f = Parse(data)
  PROVE  EndCells(data, f)
  <1> DEFINE B == Before(f)
             n == Len(f.shdrs)
             m == Len(f.phdrs)
             shoff == f.ehdr.shoff
  <1>1. /\ n \in Nat /\ m \in Nat /\ f.data = data /\ Len(data) \in Nat /\ Len(data) > 0
        /\ f.ehdr.phoff \in Nat /\ shoff \in Nat /\ shoff =< Len(data)
        /\ \A i \in 1 .. n : f.shdrs[i].off \in Nat /\ f.shdrs[i].size \in Nat
        /\ \A i \in 1 .. m : f.phdrs[i].off \in Nat /\ f.phdrs[i].filesz \in Nat
        /\ Len(f.names) = n /\ Sequence(f.names) /\ Sequence(f.phdrs)
    <2>1. f.ehdr.phoff \in Nat /\ f.ehdr.shoff \in Nat
      BY ParsedHeaders DEF Ehdrs
    <2>2. f.data = data /\ Len(data) \in Nat /\ Len(data) > 0
      BY ParsedHeaders, Accepted
    <2>3. n = Shnum(data) /\ m = Phnum(data) /\ n \in Nat /\ m \in Nat
      BY ParsedHeaders, Accepted
    <2>4. \A i \in 1 .. n : f.shdrs[i] \in Shdrs
      BY <2>3, ParsedHeaders
    <2>5. \A i \in 1 .. m : f.phdrs[i] \in Phdrs
      BY <2>3, ParsedHeaders
    <2>6. f.ehdr.shoff + n =< Len(data)
      BY <2>3, ParsedHeaders, Accepted
    <2>7. shoff =< Len(data)
      BY <2>1, <2>2, <2>3, <2>6
    <2>8. Len(f.names) = n /\ Sequence(f.names) /\ Sequence(f.phdrs)
      BY <2>3, ParsedHeaders
    <2>9. \A i \in 1 .. n : f.shdrs[i].off \in Nat /\ f.shdrs[i].size \in Nat
      BY <2>4 DEF Shdrs
    <2>10. \A i \in 1 .. m : f.phdrs[i].off \in Nat /\ f.phdrs[i].filesz \in Nat
      BY <2>5 DEF Phdrs
    <2>11. QED
      BY <2>1, <2>2, <2>3, <2>7, <2>8, <2>9, <2>10
  <1>2. /\ Len(B) \in Nat /\ \A i \in 1 .. Len(B) : B[i] \in 1 .. n
        /\ ToSet(B) = {B[i] : i \in 1 .. Len(B)}
    <2>1. Collected(B, n, {i \in Kept(f) : i < InsertPos(f)})
      BY <1>1, Order DEF Sorted
    <2>2. QED
      BY <2>1, InSeq, SeqLen DEF Collected
  <1>3. ToSet(f.phdrs) = {f.phdrs[i] : i \in 1 .. m}
    BY <1>1, SeqLen
  <1>4. QED
    BY <1>1, <1>2, <1>3 DEF EndCells

LEMMA FurthestEnd ==
  ASSUME NEW data, Accepts(data), NEW f, f = Parse(data)
  PROVE  /\ Ends(f) \subseteq Nat /\ Max(Ends(f)) \in Ends(f)
         /\ Max(Ends(f)) \in Nat /\ Max(Ends(f)) >= 1
         /\ \A x \in Ends(f) : x =< Max(Ends(f))
  <1> DEFINE B == Before(f)
             n == Len(f.shdrs)
             m == Len(f.phdrs)
             K == {f.shdrs[i].off + f.shdrs[i].size :
                     i \in {j \in ToSet(B) : HasData(f.shdrs[j])}}
             L == {h.off + h.filesz : h \in {g \in ToSet(f.phdrs) : g.filesz # 0}}
             t == IF f.ehdr.phoff > 0 THEN f.ehdr.phoff + m ELSE 1
             ends == {1, t} \cup K \cup L
  <1>1. /\ n \in Nat /\ m \in Nat /\ f.ehdr.phoff \in Nat
        /\ \A i \in 1 .. n : f.shdrs[i].off \in Nat /\ f.shdrs[i].size \in Nat
        /\ \A i \in 1 .. m : f.phdrs[i].off \in Nat /\ f.phdrs[i].filesz \in Nat
    BY EndingCells DEF EndCells
  <1>2. /\ Len(B) \in Nat /\ \A i \in 1 .. Len(B) : B[i] \in 1 .. n
        /\ ToSet(B) = {B[i] : i \in 1 .. Len(B)}
    BY EndingCells DEF EndCells
  <1>3. ToSet(f.phdrs) = {f.phdrs[i] : i \in 1 .. m}
    <2>1. EndCells(data, f)
      BY EndingCells
    <2>2. Sequence(f.phdrs)
      BY <2>1 DEF EndCells
    <2>3. QED
      BY <2>2, SeqLen
  <1>4. Ends(f) = ends
    BY DEF Ends
  <1>5. \E b \in Nat : \A x \in ends : x =< b
    <2> DEFINE u == [i \in 1 .. n |-> f.shdrs[i].off + f.shdrs[i].size]
               v == [i \in 1 .. m |-> f.phdrs[i].off + f.phdrs[i].filesz]
    <2>1. PICK b \in Nat : \A i \in 1 .. n : u[i] =< b
      <3>1. \A i \in 1 .. n : u[i] \in Nat
        BY <1>1
      <3> HIDE DEF u
      <3>2. QED
        BY <1>1, <3>1, Bounded
    <2>2. PICK c \in Nat : \A i \in 1 .. m : v[i] =< c
      <3>1. \A i \in 1 .. m : v[i] \in Nat
        BY <1>1
      <3> HIDE DEF v
      <3>2. QED
        BY <1>1, <3>1, Bounded
    <2>3. \A x \in K : \E i \in 1 .. n : x = u[i]
      BY <1>2
    <2>4. \A x \in L : \E i \in 1 .. m : x = v[i]
      BY <1>3
    <2>5. t \in Nat
      BY <1>1
    <2>6. \A x \in K : x \in Nat /\ x =< b
      <3>1. \A i \in 1 .. n : u[i] \in Nat
        BY <1>1
      <3> HIDE DEF u, K
      <3>2. QED
        BY <2>1, <2>3, <3>1
    <2>7. \A x \in L : x \in Nat /\ x =< c
      <3>1. \A i \in 1 .. m : v[i] \in Nat
        BY <1>1
      <3> HIDE DEF v, L
      <3>2. QED
        BY <2>2, <2>4, <3>1
    <2> HIDE DEF K, L, t, u, v
    <2>8. \A x \in ends : x =< 1 + t + b + c
      BY <2>5, <2>6, <2>7
    <2>9. 1 + t + b + c \in Nat
      BY <2>5
    <2>10. QED
      BY <2>8, <2>9
  <1>6. ends \subseteq Nat
    <2>1. t \in Nat
      BY <1>1
    <2>2. K \subseteq Nat
      BY <1>1, <1>2
    <2>3. L \subseteq Nat
      BY <1>1, <1>3
    <2>4. QED
      BY <2>1, <2>2, <2>3
  <1>7. /\ Max(ends) \in ends /\ Max(ends) \in Nat /\ Max(ends) >= 1
        /\ \A x \in ends : x =< Max(ends)
    <2>1. 1 \in ends
      OBVIOUS
    <2> HIDE DEF ends
    <2>2. Max(ends) \in ends /\ \A x \in ends : x =< Max(ends)
      BY <1>5, <1>6, <2>1, MaxOf
    <2>3. QED
      BY <1>6, <2>1, <2>2
  <1>8. QED
    BY <1>4, <1>6, <1>7

(* A section-header table at the end of the file does not stay. *)
EndOf(f) == Min({Max(Ends(f)), Len(f.data)})

LEMMA EndBefore ==
  ASSUME NEW f
  PROVE  LET shoff == f.ehdr.shoff
         IN  ContentEnd(f) = IF /\ shoff > 0 /\ shoff + Len(f.shdrs) = Len(f.data)
                                /\ shoff < EndOf(f)
                             THEN shoff ELSE EndOf(f)
  <1>1. {sh.off + sh.size : sh \in {f.shdrs[i] : i \in {j \in ToSet(Before(f)) : HasData(f.shdrs[j])}}}
        = {f.shdrs[i].off + f.shdrs[i].size : i \in {j \in ToSet(Before(f)) : HasData(f.shdrs[j])}}
    OBVIOUS
  <1>2. QED
    BY <1>1 DEF ContentEnd, Ends, EndOf

LEMMA ContentEnds ==
  ASSUME NEW data, Accepts(data), NEW f, f = Parse(data)
  PROVE  EndSound(f)
  <1> DEFINE B == Before(f)
             n == Len(f.shdrs)
             m == Len(f.phdrs)
             ends == Ends(f)
             end == EndOf(f)
             shoff == f.ehdr.shoff
  <1>1. /\ n \in Nat /\ m \in Nat /\ f.data = data /\ Len(data) \in Nat /\ Len(data) > 0
        /\ shoff \in Nat /\ shoff =< Len(data)
    BY EndingCells DEF EndCells
  <1>2. ToSet(B) = {B[i] : i \in 1 .. Len(B)}
    BY EndingCells DEF EndCells
  <1>3. ToSet(f.phdrs) = {f.phdrs[i] : i \in 1 .. m}
    <2>1. EndCells(data, f)
      BY EndingCells
    <2>2. Sequence(f.phdrs)
      BY <2>1 DEF EndCells
    <2>3. QED
      BY <2>2, SeqLen
  <1>4. ContentEnd(f) = IF shoff > 0 /\ shoff + n = Len(f.data) /\ shoff < end
                        THEN shoff ELSE end
    BY EndBefore
  <1>7. Max(ends) \in Nat /\ Max(ends) >= 1 /\ \A x \in ends : x =< Max(ends)
    BY FurthestEnd
  <1>8. /\ end \in 1 .. Len(data)
        /\ end = Len(data) \/ \A x \in ends : x =< end
    <2> HIDE DEF ends
    <2>0. end = Min({Max(ends), Len(data)})
      <3>1. f.data = data
        BY <1>1
      <3>2. QED
        BY ONLY <3>1 DEF EndOf, ends
    <2> HIDE DEF end
    <2>1. end \in {Max(ends), Len(data)} /\ end =< Len(data) /\ end =< Max(ends)
      BY <1>1, <1>7, <2>0, LeastOfTwo
    <2>2. CASE end = Max(ends)
      <3>1. end \in 1 .. Len(data)
        BY <1>1, <1>7, <2>1, <2>2
      <3>2. QED
        BY <1>7, <2>2, <3>1
    <2>3. CASE end = Len(data)
      BY <1>1, <2>3
    <2>4. QED
      BY <2>1, <2>2, <2>3
  <1> HIDE DEF end
  <1>9. CASE shoff > 0 /\ shoff + n = Len(f.data) /\ shoff < end
    <2>1. ContentEnd(f) = shoff
      BY <1>4, <1>9
    <2>2. shoff \in 1 .. Len(f.data)
      BY <1>1, <1>9
    <2>3. QED
      BY <1>9, <2>1, <2>2 DEF EndSound
  <1>10. CASE ~(shoff > 0 /\ shoff + n = Len(f.data) /\ shoff < end)
    <2>1. ContentEnd(f) = end
      BY <1>4, <1>10
    <2>2. CASE end = Len(data)
      BY <1>1, <1>8, <2>1, <2>2 DEF EndSound
    <2>3. CASE \A x \in ends : x =< end
      <3>1. \A i \in 1 .. Len(B) : HasData(f.shdrs[B[i]]) =>
              f.shdrs[B[i]].off + f.shdrs[B[i]].size \in ends
        BY <1>2 DEF Ends
      <3>2. \A i \in 1 .. m : f.phdrs[i].filesz # 0 =>
              f.phdrs[i].off + f.phdrs[i].filesz \in ends
        BY <1>3 DEF Ends
      <3>3. f.ehdr.phoff > 0 => f.ehdr.phoff + m \in ends
        BY DEF Ends
      <3> HIDE DEF ends
      <3>4. QED
        BY <1>1, <1>8, <2>1, <2>3, <3>1, <3>2, <3>3 DEF EndSound
    <2>4. QED
      BY <1>8, <2>2, <2>3
  <1>11. QED
    BY <1>9, <1>10

-----------------------------------------------------------------------------
(* b begins with a; d lies at offset o of s. *)
Begins(b, a) == Len(a) =< Len(b) /\ \A i \in 1 .. Len(a) : b[i] = a[i]

Lies(s, d, o) == o + Len(d) =< Len(s) /\ \A i \in 1 .. Len(d) : s[o + i] = d[i]

LEMMA BeginsConcat ==
  ASSUME NEW a, NEW b, Sequence(a), Sequence(b)
  PROVE  /\ Sequence(a \o b) /\ Len(a \o b) = Len(a) + Len(b)
         /\ Begins(a \o b, a) /\ Lies(a \o b, b, Len(a))
  <1>1. /\ Sequence(a \o b) /\ Len(a \o b) = Len(a) + Len(b)
        /\ \A i \in 1 .. Len(a) : (a \o b)[i] = a[i]
        /\ \A i \in 1 .. Len(b) : (a \o b)[Len(a) + i] = b[i]
    BY Concat
  <1>2. Len(a) \in Nat /\ Len(b) \in Nat
    BY SeqLen
  <1>3. QED
    BY <1>1, <1>2 DEF Begins, Lies

LEMMA BeginsTransitive ==
  ASSUME NEW a, NEW b, NEW c, Sequence(a), Sequence(b), Sequence(c),
         Begins(b, a), Begins(c, b)
  PROVE  Begins(c, a)
  <1>1. Len(a) \in Nat /\ Len(b) \in Nat /\ Len(c) \in Nat
    BY SeqLen
  <1>2. Len(a) =< Len(b) /\ Len(b) =< Len(c)
    BY DEF Begins
  <1>3. Len(a) =< Len(c) /\ \A i \in 1 .. Len(a) : i \in 1 .. Len(b)
    BY <1>1, <1>2
  <1>4. QED
    BY <1>3 DEF Begins

LEMMA BeginsLies ==
  ASSUME NEW a, NEW b, NEW d, NEW o \in Nat, Sequence(a), Sequence(b), Sequence(d),
         Lies(a, d, o), Begins(b, a)
  PROVE  Lies(b, d, o)
  <1>1. Len(a) \in Nat /\ Len(b) \in Nat /\ Len(d) \in Nat
    BY SeqLen
  <1>2. Len(a) =< Len(b) /\ o + Len(d) =< Len(a)
    BY DEF Begins, Lies
  <1>3. o + Len(d) =< Len(b) /\ \A i \in 1 .. Len(d) : o + i \in 1 .. Len(a)
    BY <1>1, <1>2
  <1>4. QED
    BY <1>3 DEF Begins, Lies

(* A slice is what lies there. *)
LEMMA SliceLies ==
  ASSUME NEW s, NEW d, NEW o \in Nat, Sequence(s), Sequence(d), Lies(s, d, o)
  PROVE  Slice(s, o, Len(d)) = d
  <1>1. Len(d) \in Nat /\ o + Len(d) =< Len(s)
    BY SeqLen DEF Lies
  <1>2. /\ Sequence(Slice(s, o, Len(d))) /\ Len(Slice(s, o, Len(d))) = Len(d)
        /\ \A i \in 1 .. Len(d) : Slice(s, o, Len(d))[i] = s[o + i]
    BY <1>1, Sliced
  <1>3. QED
    BY <1>2, SameSeq DEF Lies

(* Padding goes behind what is there, up to the alignment. *)
LEMMA Padding ==
  ASSUME NEW m \in Nat, NEW a \in Nat, a > 0
  PROVE  m % a \in 0 .. a - 1 /\ (m + (a - (m % a))) % a = 0
  <1>1. m % a \in 0 .. a - 1
    OBVIOUS
  <1>2. PICK q \in Int : m = a * q + (m % a)
    <2>1. m = a * (m \div a) + (m % a) /\ m \div a \in Int
      OBVIOUS
    <2>2. QED
      BY <2>1
  <1>3. m + (a - (m % a)) = a * (q + 1)
    BY <1>1, <1>2
  <1>4. (a * (q + 1)) % a = 0
    OBVIOUS
  <1>5. QED
    BY <1>1, <1>3, <1>4

LEMMA ZeroCells ==
  ASSUME NEW n \in Nat
  PROVE  Sequence(Zeroes(n)) /\ Len(Zeroes(n)) = n /\ \A i \in 1 .. n : Zeroes(n)[i] = ZeroCell
  <1>1. Zeroes(n) = [i \in 1 .. n |-> Zeroes(n)[i]]
    BY DEF Zeroes
  <1>2. Sequence(Zeroes(n)) /\ Len(Zeroes(n)) = n
    BY <1>1, FcnSeq
  <1>3. QED
    BY <1>2 DEF Zeroes

LEMMA Alignment ==
  ASSUME NEW T, NEW out \in Seq(T), NEW align \in Nat, ZeroCell \in T
  PROVE  /\ Aligned(out, align) \in Seq(T) /\ Sequence(Aligned(out, align))
         /\ Len(Aligned(out, align)) \in Nat /\ Begins(Aligned(out, align), out)
         /\ align > 0 => Len(Aligned(out, align)) % align = 0
  <1> DEFINE m == Len(out)
             o == Aligned(out, align)
  <1>0. Sequence(out)
    BY InSeq
  <1>1. m \in Nat
    BY InSeq
  <1>2. CASE align =< 1 \/ m % align = 0
    <2>1. o = out
      BY <1>2 DEF Aligned
    <2>2. align > 0 => m % align = 0
      BY <1>1, <1>2
    <2>3. QED
      BY <1>0, <1>1, <2>1, <2>2 DEF Begins
  <1>3. CASE ~(align =< 1 \/ m % align = 0)
    <2> DEFINE z == align - (m % align)
    <2>0. align > 0
      BY <1>3
    <2>1. /\ align > 0 /\ m % align \in 0 .. align - 1
          /\ (m + (align - (m % align))) % align = 0
      BY <1>1, <2>0, Padding
    <2>2. z \in Nat
      BY <2>1
    <2>3. o = out \o Zeroes(z)
      BY <1>3 DEF Aligned
    <2> HIDE DEF z
    <2>4. /\ Sequence(Zeroes(z)) /\ Len(Zeroes(z)) = z
          /\ \A i \in 1 .. z : Zeroes(z)[i] = ZeroCell
      BY <2>2, ZeroCells
    <2>5. Sequence(o) /\ Len(o) = m + z /\ Begins(o, out)
      BY <1>0, <2>3, <2>4, BeginsConcat
    <2>6. Zeroes(z) \in Seq(T)
      BY <2>4, SeqIn
    <2>7. o \in Seq(T)
      BY <2>3, <2>6, ConcatProperties
    <2>8. Len(o) % align = 0
      BY <2>1, <2>5 DEF z
    <2>9. QED
      BY <2>5, <2>7, <2>8, InSeq
  <1>4. QED
    BY <1>2, <1>3

-----------------------------------------------------------------------------
(* The data of a section that lies within the file. *)
LEMMA DataOfSection ==
  ASSUME NEW data, Accepts(data), NEW f, f = Parse(data),
         NEW i \in 1 .. Len(f.shdrs), DataReadable(f, i),
         NEW T, data \in Seq(T)
  PROVE  /\ SectionData(f, i) \in Seq(T) /\ Sequence(SectionData(f, i))
         /\ Len(SectionData(f, i)) = IF HasData(f.shdrs[i]) THEN f.shdrs[i].size ELSE 0
         /\ HasData(f.shdrs[i]) =>
              /\ f.shdrs[i].off + f.shdrs[i].size =< Len(data)
              /\ Lies(data, SectionData(f, i), f.shdrs[i].off)
  <1> DEFINE sh == f.shdrs[i]
  <1>1. sh.off \in Nat /\ sh.size \in Nat /\ f.data = data /\ Sequence(data) /\ Len(data) \in Nat
    BY ParsedHeaders, Accepted DEF Shdrs
  <1>2. CASE ~HasData(sh)
    <2>1. SectionData(f, i) = <<>>
      BY <1>2 DEF SectionData
    <2>2. <<>> \in Seq(T) /\ Len(<<>>) = 0
      BY EmptySeq
    <2>3. Sequence(<<>>)
      BY <2>2, InSeq
    <2>4. Len(SectionData(f, i)) = IF HasData(sh) THEN sh.size ELSE 0
      BY <1>2, <2>1, <2>2
    <2>5. QED
      BY <1>2, <2>1, <2>2, <2>3, <2>4
  <1>3. CASE HasData(sh)
    <2>1. SectionData(f, i) = Slice(data, sh.off, sh.size)
      BY <1>1, <1>3 DEF SectionData
    <2>2. sh.off =< Len(data) /\ sh.size =< Len(data) - sh.off
      BY <1>1, <1>3 DEF DataReadable, RangeWithinFile
    <2> DEFINE o == sh.off
               z == sh.size
    <2>3. o + z =< Len(data) /\ \A j \in 1 .. z : o + j \in 1 .. Len(data)
      BY <1>1, <2>2, Within
    <2>4. o \in Nat /\ z \in Nat
      BY <1>1
    <2> HIDE DEF o, z
    <2>5. /\ Sequence(Slice(data, o, z)) /\ Len(Slice(data, o, z)) = z
          /\ \A j \in 1 .. z : Slice(data, o, z)[j] = data[o + j]
      BY <1>1, <2>3, <2>4, Sliced
    <2>6. Lies(data, Slice(data, o, z), o)
      BY <2>3, <2>5 DEF Lies
    <2>7. Slice(data, o, z) \in Seq(T)
      <3>1. \A j \in 1 .. Len(data) : data[j] \in T
        BY ElementOfSeq
      <3>2. QED
        BY <2>3, <2>5, <3>1, SeqIn
    <2>8. QED
      BY <1>3, <2>1, <2>3, <2>5, <2>6, <2>7 DEF o, z
  <1>4. QED
    BY <1>2, <1>3

(* The sections behind the note: their data lies behind out, in order, and  *)
(* their new headers say where.                                             *)
Placed(f, out, k, p, T) ==
  /\ p.out \in Seq(T) /\ Begins(p.out, out)
  /\ p.hdrs \in Seq(Shdrs) /\ Len(p.hdrs) = k
  /\ \A j \in 1 .. k :
       /\ p.hdrs[j] = [f.shdrs[After(f)[j]] EXCEPT !.off = p.hdrs[j].off]
       /\ p.hdrs[j].off >= Len(out)
       /\ Lies(p.out, SectionData(f, After(f)[j]), p.hdrs[j].off)
  /\ \A i, j \in 1 .. k : i < j =>
       p.hdrs[i].off + Len(SectionData(f, After(f)[i])) =< p.hdrs[j].off

PlaceStep(f, k, p) ==
  LET sh == f.shdrs[After(f)[k]]
      o == Aligned(p.out, sh.align)
  IN  [out  |-> o \o SectionData(f, After(f)[k]),
       hdrs |-> Append(p.hdrs, [sh EXCEPT !.off = Len(o)])]

LEMMA PlacedType ==
  ASSUME NEW f, NEW T, NEW k, NEW p \in [out : Seq(T), hdrs : Seq(Shdrs)],
         ZeroCell \in T,
         f.shdrs[After(f)[k]] \in Shdrs, SectionData(f, After(f)[k]) \in Seq(T)
  PROVE  PlaceStep(f, k, p) \in [out : Seq(T), hdrs : Seq(Shdrs)]
  <1> DEFINE sh == f.shdrs[After(f)[k]]
             o == Aligned(p.out, sh.align)
             d == SectionData(f, After(f)[k])
  <1>1. sh.align \in Nat
    BY DEF Shdrs
  <1>2. p.out \in Seq(T) /\ Sequence(p.out) /\ p.hdrs \in Seq(Shdrs)
    BY InSeq
  <1>3. o \in Seq(T)
    BY <1>1, <1>2, Alignment
  <1>4. o \o d \in Seq(T)
    BY <1>3, ConcatProperties
  <1>5. Len(o) \in Nat
    BY <1>3, LenProperties
  <1>6. [sh EXCEPT !.off = Len(o)] \in Shdrs
    BY <1>5 DEF Shdrs
  <1>7. Append(p.hdrs, [sh EXCEPT !.off = Len(o)]) \in Seq(Shdrs)
    BY <1>2, <1>6, AppendProperties
  <1>8. QED
    BY <1>4, <1>7 DEF PlaceStep

LEMMA SumBelow ==
  ASSUME NEW a \in Nat, NEW b \in Nat, NEW c \in Nat, NEW d \in Nat, a + b =< c, c =< d
  PROVE  a + b =< d
  OBVIOUS

LEMMA PlacedNext ==
  ASSUME NEW f, NEW T, NEW out \in Seq(T), NEW k \in Nat, NEW p, NEW q,
         Placed(f, out, k, p, T), q = PlaceStep(f, k + 1, p),
         ZeroCell \in T,
         \A j \in 1 .. k + 1 : /\ f.shdrs[After(f)[j]] \in Shdrs
                               /\ SectionData(f, After(f)[j]) \in Seq(T)
  PROVE  Placed(f, out, k + 1, q, T)
  <1> DEFINE sh == f.shdrs[After(f)[k + 1]]
             o == Aligned(p.out, sh.align)
             d == SectionData(f, After(f)[k + 1])
             h == [sh EXCEPT !.off = Len(o)]
             D(j) == SectionData(f, After(f)[j])
  <1>1. /\ sh \in Shdrs /\ d \in Seq(T) /\ Sequence(d) /\ Sequence(out)
        /\ Len(d) \in Nat /\ Len(out) \in Nat
        /\ \A j \in 1 .. k : D(j) \in Seq(T) /\ Sequence(D(j)) /\ Len(D(j)) \in Nat
    <2>1. k + 1 \in 1 .. k + 1 /\ \A j \in 1 .. k : j \in 1 .. k + 1
      OBVIOUS
    <2>2. QED
      BY <2>1, InSeq
  <1>2. /\ p.out \in Seq(T) /\ Sequence(p.out) /\ Len(p.out) \in Nat /\ Begins(p.out, out)
        /\ p.hdrs \in Seq(Shdrs) /\ Sequence(p.hdrs) /\ Len(p.hdrs) = k
    BY InSeq DEF Placed
  <1>3. \A j \in 1 .. k : p.hdrs[j].off \in Nat
    <2>1. \A j \in 1 .. Len(p.hdrs) : p.hdrs[j] \in Shdrs
      BY <1>2, ElementOfSeq
    <2>2. \A j \in 1 .. k : p.hdrs[j] \in Shdrs
      BY <1>2, <2>1
    <2>3. QED
      BY <2>2 DEF Shdrs
  <1>4. o \in Seq(T) /\ Sequence(o) /\ Begins(o, p.out) /\ Len(o) \in Nat
    <2>1. sh.align \in Nat
      BY <1>1 DEF Shdrs
    <2>2. QED
      BY <1>2, <2>1, Alignment, InSeq
  <1>5. q.out = o \o d /\ q.hdrs = Append(p.hdrs, h)
    BY DEF PlaceStep
  <1>6. h \in Shdrs /\ h.off = Len(o) /\ h = [sh EXCEPT !.off = h.off]
    BY <1>1, <1>4 DEF Shdrs
  <1> HIDE DEF o, h, d, sh, D
  <1>7. q.out \in Seq(T) /\ Sequence(q.out) /\ Begins(q.out, o) /\ Lies(q.out, d, Len(o))
    BY <1>1, <1>4, <1>5, BeginsConcat, ConcatProperties
  <1>8. Begins(o, out) /\ Begins(q.out, p.out) /\ Begins(q.out, out)
    BY <1>1, <1>2, <1>4, <1>7, BeginsTransitive
  <1>9. /\ q.hdrs \in Seq(Shdrs) /\ Len(q.hdrs) = k + 1
        /\ \A j \in 1 .. k : q.hdrs[j] = p.hdrs[j]
        /\ q.hdrs[k + 1] = h
    <2>1. /\ Append(p.hdrs, h) \in Seq(Shdrs)
          /\ Len(Append(p.hdrs, h)) = Len(p.hdrs) + 1
          /\ \A j \in 1 .. Len(p.hdrs) : Append(p.hdrs, h)[j] = p.hdrs[j]
          /\ Append(p.hdrs, h)[Len(p.hdrs) + 1] = h
      BY <1>2, <1>6, AppendProperties
    <2>2. QED
      BY <1>2, <1>5, <2>1
  <1>10. ASSUME NEW j \in 1 .. k + 1
         PROVE  /\ q.hdrs[j] = [f.shdrs[After(f)[j]] EXCEPT !.off = q.hdrs[j].off]
                /\ q.hdrs[j].off >= Len(out)
                /\ Lies(q.out, D(j), q.hdrs[j].off)
    <2>1. CASE j = k + 1
      <3>1. q.hdrs[j] = h
        BY <1>9, <2>1
      <3>2. Len(o) >= Len(out)
        BY <1>1, <1>4, <1>8 DEF Begins
      <3>3. D(j) = d /\ f.shdrs[After(f)[j]] = sh
        BY <2>1 DEF D, d, sh
      <3>4. QED
        BY <1>6, <1>7, <3>1, <3>2, <3>3
    <2>2. CASE j # k + 1
      <3>1. j \in 1 .. k
        BY <2>2
      <3>2. q.hdrs[j] = p.hdrs[j]
        BY <1>9, <3>1
      <3>3. /\ p.hdrs[j] = [f.shdrs[After(f)[j]] EXCEPT !.off = p.hdrs[j].off]
            /\ p.hdrs[j].off >= Len(out)
            /\ Lies(p.out, D(j), p.hdrs[j].off)
        BY <3>1 DEF Placed, D
      <3>4. Lies(q.out, D(j), p.hdrs[j].off)
        BY <1>1, <1>2, <1>3, <1>7, <1>8, <3>1, <3>3, BeginsLies
      <3>5. QED
        BY <3>2, <3>3, <3>4
    <2>3. QED
      BY <2>1, <2>2
  <1>11. ASSUME NEW i \in 1 .. k + 1, NEW j \in 1 .. k + 1, i < j
         PROVE  q.hdrs[i].off + Len(D(i)) =< q.hdrs[j].off
    <2>1. i \in 1 .. k /\ q.hdrs[i] = p.hdrs[i]
      <3>1. i \in 1 .. k
        BY <1>11
      <3>2. QED
        BY <1>9, <3>1
    <2>2. CASE j = k + 1
      <3>1. q.hdrs[j].off = Len(o)
        BY <1>6, <1>9, <2>2
      <3>2. p.hdrs[i].off + Len(D(i)) =< Len(p.out)
        BY <2>1 DEF Placed, Lies, D
      <3>3. Len(p.out) =< Len(o)
        BY <1>4 DEF Begins
      <3>4. p.hdrs[i].off \in Nat /\ Len(D(i)) \in Nat
        BY <1>1, <1>3, <2>1
      <3>5. p.hdrs[i].off + Len(D(i)) =< Len(o)
        BY <1>2, <1>4, <3>2, <3>3, <3>4, SumBelow
      <3>6. QED
        BY <2>1, <3>1, <3>5
    <2>3. CASE j # k + 1
      <3>1. j \in 1 .. k
        BY <2>3
      <3>2. QED
        BY <1>9, <1>11, <2>1, <3>1 DEF Placed, D
    <2>4. QED
      BY <2>2, <2>3
  <1>12. QED
    BY <1>7, <1>8, <1>9, <1>10, <1>11 DEF Placed, D

(* What the loop has laid out after each section. *)
PlaceRun(f, out, m, c) ==
  /\ c[0] = [out |-> out, hdrs |-> <<>>]
  /\ \A k \in 1 .. m : c[k] = PlaceStep(f, k, c[k - 1])
  /\ PlaceAfter(f, out) = c[m]

LEMMA PlaceRuns ==
  ASSUME NEW f, NEW T, NEW out \in Seq(T), ZeroCell \in T,
         NEW m \in Nat, m = Len(After(f)),
         \A j \in 1 .. m : /\ f.shdrs[After(f)[j]] \in Shdrs
                           /\ SectionData(f, After(f)[j]) \in Seq(T)
  PROVE  \E c : PlaceRun(f, out, m, c)
  <1> DEFINE V == [out : Seq(T), hdrs : Seq(Shdrs)]
             start == [out |-> out, hdrs |-> <<>>]
             Body(c) == [k \in 0 .. m |-> IF k = 0 THEN start ELSE PlaceStep(f, k, c[k - 1])]
             F == [x \in (1 .. m) \X V |-> PlaceStep(f, x[1], x[2])]
             c == CHOOSE c : c = Body(c)
  <1>1. start \in V
    BY EmptySeq
  <1>2. \A k \in 1 .. m : \A p \in V : PlaceStep(f, k, p) \in V
    BY PlacedType
  <1>3. F \in [(1 .. m) \X V -> V]
    BY <1>2
  <1>4. PICK g : Runs(g, m, V, start, F)
    <2> HIDE DEF V, start, F
    <2>1. QED
      BY <1>1, <1>3, Loop
  <1>5. g = Body(g)
    <2>1. /\ g \in [0 .. m -> V] /\ g[0] = start
          /\ \A k \in 1 .. m : g[k] = F[<<k, g[k - 1]>>]
      BY <1>4 DEF Runs
    <2>2. ASSUME NEW k \in 1 .. m PROVE g[k] = PlaceStep(f, k, g[k - 1])
      <3>1. k - 1 \in 0 .. m
        OBVIOUS
      <3>2. g[k - 1] \in V
        BY <2>1, <3>1
      <3> HIDE DEF V
      <3>3. F[<<k, g[k - 1]>>] = PlaceStep(f, k, g[k - 1])
        BY <3>2
      <3>4. QED
        BY <2>1, <3>3
    <2>3. \A k \in 0 .. m : k = 0 \/ k \in 1 .. m
      OBVIOUS
    <2>4. \A k \in 0 .. m : g[k] = IF k = 0 THEN start ELSE PlaceStep(f, k, g[k - 1])
      BY <2>1, <2>2, <2>3
    <2>5. QED
      BY <2>1, <2>4
  <1>6. c = Body(c)
    <2>1. \E h : h = Body(h)
      BY <1>5
    <2> HIDE DEF Body
    <2>2. QED
      BY <2>1
  <1>7. PlaceAfter(f, out) = c[m]
    BY DEF PlaceAfter, PlaceStep
  <1> HIDE DEF c
  <1>8. c[0] = start
    BY <1>6
  <1>9. \A k \in 1 .. m : c[k] = PlaceStep(f, k, c[k - 1])
    <2>1. \A k \in 1 .. m : k \in 0 .. m /\ k # 0
      OBVIOUS
    <2> HIDE DEF start
    <2>2. QED
      BY <1>6, <2>1, Zenon
  <1>10. QED
    BY <1>7, <1>8, <1>9 DEF PlaceRun

LEMMA PlaceLoop ==
  ASSUME NEW f, NEW T, NEW out \in Seq(T), ZeroCell \in T,
         NEW m \in Nat, m = Len(After(f)),
         \A j \in 1 .. m : /\ f.shdrs[After(f)[j]] \in Shdrs
                           /\ SectionData(f, After(f)[j]) \in Seq(T)
  PROVE  Placed(f, out, m, PlaceAfter(f, out), T)
  <1> DEFINE start == [out |-> out, hdrs |-> <<>>]
  <1>6. PICK c : PlaceRun(f, out, m, c)
    BY PlaceRuns
  <1>7. PlaceAfter(f, out) = c[m]
    BY <1>6 DEF PlaceRun
  <1>8. c[0] = start
    BY <1>6 DEF PlaceRun
  <1>9. \A k \in 1 .. m : c[k] = PlaceStep(f, k, c[k - 1])
    BY <1>6 DEF PlaceRun
  <1> DEFINE S == {k \in Nat : k =< m => Placed(f, out, k, c[k], T)}
  <1>10. 0 \in S
    <2>1. start.out = out /\ start.hdrs = <<>>
      OBVIOUS
    <2>2. <<>> \in Seq(Shdrs) /\ Len(<<>>) = 0 /\ Len(out) \in Nat
      BY EmptySeq, InSeq
    <2> HIDE DEF start
    <2>3. Placed(f, out, 0, start, T)
      BY <2>1, <2>2 DEF Placed, Begins
    <2>4. QED
      BY <1>8, <2>3
  <1>11. ASSUME NEW k \in Nat, k \in S PROVE k + 1 \in S
    <2>1. SUFFICES ASSUME k + 1 =< m PROVE Placed(f, out, k + 1, c[k + 1], T)
      OBVIOUS
    <2>2. k + 1 \in 1 .. m /\ (k + 1) - 1 = k /\ k =< m /\ \A j \in 1 .. k + 1 : j \in 1 .. m
      BY <2>1
    <2>3. Placed(f, out, k, c[k], T)
      BY <1>11, <2>2
    <2>4. c[k + 1] = PlaceStep(f, k + 1, c[k])
      BY <1>9, <2>2
    <2>5. QED
      BY <2>2, <2>3, <2>4, PlacedNext
  <1>12. m \in S
    <2> HIDE DEF S
    <2>1. Nat \subseteq S
      BY <1>10, <1>11, SetInduction
    <2>2. QED
      BY <2>1
  <1>13. QED
    BY <1>7, <1>12

-----------------------------------------------------------------------------
(* The string table with the signature's name in it. *)
LEMMA Naming ==
  ASSUME NEW T, NEW old \in Seq(T), NameCell(SIG) \in T
  PROVE  LET strings == EnsureName(old)
         IN  /\ strings \in Seq(T) /\ Sequence(strings) /\ Begins(strings, old)
             /\ NameOffset(strings) \in Nat
             /\ NameOffset(strings) + 1 \in 1 .. Len(strings)
             /\ strings[NameOffset(strings) + 1] = NameCell(SIG)
             /\ \A i \in 1 .. Len(strings) :
                  strings[i] = NameCell(SIG) \/ (i \in 1 .. Len(old) /\ strings[i] = old[i])
  <1> DEFINE strings == EnsureName(old)
             n == Len(strings)
             I == {i \in 1 .. n : strings[i] = NameCell(SIG)}
             k == IF I # {} THEN Min(I) ELSE 0
  <1>1. Len(old) \in Nat /\ Sequence(old)
    BY InSeq
  <1>2. /\ strings \in Seq(T) /\ Begins(strings, old) /\ I # {}
        /\ \A i \in 1 .. n :
             strings[i] = NameCell(SIG) \/ (i \in 1 .. Len(old) /\ strings[i] = old[i])
    <2>1. CASE Contains(old, NameCell(SIG))
      <3>1. strings = old
        BY <2>1 DEF EnsureName
      <3>2. \E i \in 1 .. Len(old) : old[i] = NameCell(SIG)
        BY <2>1 DEF Contains
      <3>3. QED
        BY <1>1, <3>1, <3>2 DEF Begins
    <2>2. CASE ~Contains(old, NameCell(SIG))
      <3>1. strings = Append(old, NameCell(SIG))
        BY <2>2 DEF EnsureName
      <3>2. /\ strings \in Seq(T) /\ n = Len(old) + 1
            /\ \A i \in 1 .. Len(old) : strings[i] = old[i]
            /\ strings[Len(old) + 1] = NameCell(SIG)
        BY <3>1, AppendProperties
      <3> HIDE DEF strings
      <3>3. Begins(strings, old)
        BY <1>1, <3>2 DEF Begins
      <3>4. \A i \in 1 .. n : i \in 1 .. Len(old) \/ i = Len(old) + 1
        BY <1>1, <3>2
      <3>5. Len(old) + 1 \in 1 .. n
        BY <1>1, <3>2
      <3>6. QED
        BY <3>2, <3>3, <3>4, <3>5
    <2>3. QED
      BY <2>1, <2>2
  <1>3. NameOffset(strings) = k - 1
    BY DEF NameOffset, SelectInSeq
  <1>4. n \in Nat /\ Sequence(strings)
    BY <1>2, InSeq
  <1>5. k \in I
    <2>1. I \subseteq 1 .. n
      OBVIOUS
    <2> HIDE DEF I, n
    <2>2. QED
      BY <1>2, <1>4, <2>1, FirstOf
  <1>6. k \in 1 .. n /\ strings[k] = NameCell(SIG)
    BY <1>5
  <1> HIDE DEF k, strings
  <1>7. NameOffset(strings) \in Nat /\ NameOffset(strings) + 1 = k
    BY <1>3, <1>4, <1>6
  <1>8. QED
    BY <1>2, <1>4, <1>6, <1>7 DEF strings

(* New section numbers. *)
LEMMA Ordering ==
  ASSUME NEW f, Sequence(f.names)
  PROVE  /\ NewOrder(f) \in Seq(Nat)
         /\ Len(NewOrder(f)) = Len(Before(f)) + Len(After(f)) + 2
         /\ Len(Before(f)) \in Nat /\ Len(After(f)) \in Nat
         /\ \A i \in 1 .. Len(Before(f)) : NewOrder(f)[i] = Before(f)[i]
         /\ NewOrder(f)[Len(Before(f)) + 1] = 0
         /\ \A i \in 1 .. Len(After(f)) : NewOrder(f)[Len(Before(f)) + 1 + i] = After(f)[i]
         /\ NewOrder(f)[Len(Before(f)) + Len(After(f)) + 2] = Shstrtab(f)
  <1> DEFINE B == Before(f)
             A == After(f)
             s == Shstrtab(f)
             BN == B \o <<0>>
             BA == BN \o A
  <1>1. Collected(B, Len(f.names), {i \in Kept(f) : i < InsertPos(f)})
        /\ Collected(A, Len(f.names), {i \in Kept(f) : i >= InsertPos(f)})
        /\ s \in 0 .. Len(f.names) /\ Len(f.names) \in Nat
    BY Order DEF Sorted
  <1>2. B \in Seq(Nat) /\ A \in Seq(Nat) /\ s \in Nat
    BY <1>1, SeqMonotonic DEF Collected
  <1>3. Sequence(B) /\ Len(B) \in Nat /\ Sequence(A) /\ Len(A) \in Nat
    BY <1>2, InSeq
  <1>4. NewOrder(f) = BA \o <<s>>
    BY DEF NewOrder
  <1> HIDE DEF B, A, s
  <1>5. /\ Sequence(BN) /\ Len(BN) = Len(B) + 1
        /\ \A i \in 1 .. Len(B) : BN[i] = B[i]
        /\ BN[Len(B) + 1] = 0
    BY <1>3, Concat, Single
  <1> HIDE DEF BN
  <1>6. /\ Sequence(BA) /\ Len(BA) = Len(B) + 1 + Len(A)
        /\ \A i \in 1 .. Len(B) + 1 : BA[i] = BN[i]
        /\ \A i \in 1 .. Len(A) : BA[Len(B) + 1 + i] = A[i]
    <2>1. /\ Sequence(BA) /\ Len(BA) = Len(BN) + Len(A)
          /\ \A i \in 1 .. Len(BN) : BA[i] = BN[i]
          /\ \A i \in 1 .. Len(A) : BA[Len(BN) + i] = A[i]
      BY <1>3, <1>5, Concat
    <2>2. QED
      BY <1>5, <2>1
  <1> HIDE DEF BA
  <1> DEFINE N == NewOrder(f)
  <1>7. /\ Sequence(N) /\ Len(N) = Len(B) + Len(A) + 2
        /\ \A i \in 1 .. Len(B) + 1 + Len(A) : N[i] = BA[i]
        /\ N[Len(B) + Len(A) + 2] = s
    <2>1. /\ Sequence(N) /\ Len(N) = Len(BA) + 1
          /\ \A i \in 1 .. Len(BA) : N[i] = BA[i]
          /\ N[Len(BA) + 1] = s
      BY <1>4, <1>6, Concat, Single
    <2>2. Len(BA) + 1 = Len(B) + Len(A) + 2
      BY <1>3, <1>6
    <2>3. QED
      BY <1>6, <2>1, <2>2
  <1> HIDE DEF N
  <1>8. /\ \A i \in 1 .. Len(B) : i \in 1 .. Len(B) + 1 /\ i \in 1 .. Len(B) + 1 + Len(A)
        /\ Len(B) + 1 \in 1 .. Len(B) + 1 + Len(A) /\ Len(B) + 1 \in 1 .. Len(B) + 1
        /\ \A i \in 1 .. Len(A) : Len(B) + 1 + i \in 1 .. Len(B) + 1 + Len(A)
    BY <1>3
  <1>9. /\ \A i \in 1 .. Len(B) : N[i] = B[i]
        /\ N[Len(B) + 1] = 0
        /\ \A i \in 1 .. Len(A) : N[Len(B) + 1 + i] = A[i]
    BY <1>5, <1>6, <1>7, <1>8
  <1>10. N \in Seq(Nat)
    <2>1. ASSUME NEW j \in 1 .. Len(N) PROVE N[j] \in Nat
      <3>1. \/ j \in 1 .. Len(B) \/ j = Len(B) + 1
            \/ j - (Len(B) + 1) \in 1 .. Len(A) /\ Len(B) + 1 + (j - (Len(B) + 1)) = j
            \/ j = Len(B) + Len(A) + 2
        BY <1>3, <1>7
      <3>2. \A i \in 1 .. Len(B) : B[i] \in Nat
        BY <1>2, ElementOfSeq
      <3>3. \A i \in 1 .. Len(A) : A[i] \in Nat
        BY <1>2, ElementOfSeq
      <3>4. CASE j \in 1 .. Len(B)
        BY <1>9, <3>2, <3>4
      <3>5. CASE j = Len(B) + 1
        BY <1>9, <3>5
      <3>6. CASE j - (Len(B) + 1) \in 1 .. Len(A) /\ Len(B) + 1 + (j - (Len(B) + 1)) = j
        BY <1>9, <3>3, <3>6
      <3>7. CASE j = Len(B) + Len(A) + 2
        BY <1>2, <1>7, <3>7
      <3>8. QED
        BY <3>1, <3>4, <3>5, <3>6, <3>7
    <2>2. QED
      BY <1>7, <2>1, SeqIn
  <1>11. QED
    BY <1>3, <1>7, <1>9, <1>10 DEF N, B, A, s

LEMMA Renumbered ==
  ASSUME NEW f, Sequence(f.names), NEW k \in Nat
  PROVE  /\ NewIndex(f, k) \in Nat
         /\ NewIndex(f, 0) = 0
         /\ k # 0 /\ (\E i \in 1 .. Len(NewOrder(f)) : NewOrder(f)[i] = k + 1) =>
              /\ NewIndex(f, k) + 1 \in 1 .. Len(NewOrder(f))
              /\ NewOrder(f)[NewIndex(f, k) + 1] = k + 1
  <1> DEFINE I == {i \in 1 .. Len(NewOrder(f)) : NewOrder(f)[i] = k + 1}
             n == IF I # {} THEN Min(I) ELSE 0
             m == Len(NewOrder(f))
  <1>1. NewIndex(f, k) = IF k = 0 \/ n = 0 THEN k ELSE n - 1
    BY DEF NewIndex, SelectInSeq
  <1>2. m \in Nat
    BY Ordering, InSeq
  <1>3. n \in 0 .. m /\ (n = 0 <=> I = {}) /\ (n # 0 => n \in I)
    <2>1. I \subseteq 1 .. m
      OBVIOUS
    <2> HIDE DEF I, m
    <2>2. QED
      BY <1>2, <2>1, FirstOf
  <1>4. n # 0 => n \in 1 .. m /\ NewOrder(f)[n] = k + 1
    BY <1>3
  <1>5. (\E i \in 1 .. m : NewOrder(f)[i] = k + 1) => n # 0
    BY <1>3
  <1>6. NewIndex(f, 0) = 0
    BY DEF NewIndex
  <1> HIDE DEF n, m
  <1>7. NewIndex(f, k) \in Nat
    BY <1>1, <1>2, <1>3
  <1>8. k # 0 /\ n # 0 => NewIndex(f, k) + 1 = n
    BY <1>1, <1>2, <1>3
  <1>9. QED
    BY <1>4, <1>5, <1>6, <1>7, <1>8 DEF m

-----------------------------------------------------------------------------
(* What saveELFSignature gets: an image parseELF accepts whose .shstrtab is *)
(* the section e_shstrndx names, not refused, and a bundle.                 *)
Input(data, f, b) ==
  /\ Accepts(data) /\ f = Parse(data) /\ ~Refuses(f)
  /\ Shstrtab(f) = Shstrndx(data) + 1
  /\ b.len \in Nat /\ b.len > 0

(* The cells it writes, section headers aside. *)
Cells(data, b) ==
  ToSet(data) \cup ToSet(CreateNote(b)) \cup {ZeroCell, NameCell(SIG)}

LEMMA InputFacts ==
  ASSUME NEW data, NEW f, NEW b, Input(data, f, b)
  PROVE  /\ Accepts(data) /\ f = Parse(data) /\ f.data = data
         /\ b.len \in Nat /\ b.len > 0
         /\ Sequence(data) /\ Len(data) \in Nat /\ data \in Seq(Cells(data, b))
         /\ Sequence(f.names) /\ Len(f.names) = Len(f.shdrs) /\ Len(f.shdrs) \in Nat
         /\ \A i \in 1 .. Len(f.shdrs) : f.shdrs[i] \in Shdrs
         /\ Sorted(f) /\ EndSound(f)
         /\ \A i \in 1 .. Len(Before(f)) : Before(f)[i] \in 1 .. Len(f.shdrs)
         /\ \A i \in 1 .. Len(After(f)) : After(f)[i] \in 1 .. Len(f.shdrs)
                                          /\ DataReadable(f, After(f)[i])
         /\ Shstrtab(f) \in 1 .. Len(f.shdrs) /\ DataReadable(f, Shstrtab(f))
         /\ Sequence(CreateNote(b)) /\ Len(CreateNote(b)) = b.len
         /\ CreateNote(b) \in Seq(Cells(data, b))
         /\ \A i \in 1 .. b.len : CreateNote(b)[i] = <<"note", i, b>>
  <1>1. /\ Accepts(data) /\ f = Parse(data) /\ ~Refuses(f)
        /\ Shstrtab(f) = Shstrndx(data) + 1
        /\ b.len \in Nat /\ b.len > 0
    BY DEF Input
  <1>2. Sequence(data) /\ Len(data) \in Nat
    BY <1>1, Accepted
  <1>3. data \in Seq(Cells(data, b))
    <2>1. ToSet(data) \subseteq Cells(data, b)
      BY DEF Cells
    <2>2. QED
      BY <1>2, <2>1, SeqMonotonic DEF Sequence
  <1>4. /\ f.data = data /\ Sequence(f.names) /\ Len(f.names) = Shnum(data)
        /\ Len(f.shdrs) = Shnum(data) /\ Shnum(data) \in Nat
        /\ \A i \in 1 .. Len(f.shdrs) : f.shdrs[i] \in Shdrs
    BY <1>1, ParsedHeaders, Accepted
  <1>5. Sorted(f) /\ EndSound(f)
    BY <1>1, <1>4, Order, ContentEnds
  <1>6. /\ \A i \in 1 .. Len(Before(f)) : Before(f)[i] \in 1 .. Len(f.shdrs)
        /\ \A i \in 1 .. Len(After(f)) : After(f)[i] \in 1 .. Len(f.shdrs)
        /\ After(f) \in Seq(1 .. Len(f.names))
    BY <1>4, <1>5 DEF Sorted, Collected
  <1>7. \A i \in 1 .. Len(After(f)) : DataReadable(f, After(f)[i])
    <2>1. ToSet(After(f)) = {After(f)[i] : i \in 1 .. Len(After(f))}
      BY <1>6, InSeq, SeqLen
    <2>2. \A i \in 1 .. Len(After(f)) : After(f)[i] \in {j \in Kept(f) : j >= InsertPos(f)}
      BY <1>5 DEF Sorted, Collected
    <2>3. \A i \in 1 .. Len(After(f)) :
            After(f)[i] \in InsertPos(f) .. Len(f.names) /\ f.names[After(f)[i]] # SIG
      <3>1. InsertPos(f) \in Nat /\ Len(f.names) \in Nat
        BY <1>5 DEF Sorted
      <3>2. QED
        BY <2>2, <3>1 DEF Kept
    <2>4. QED
      BY <1>1, <2>3 DEF Refuses
  <1>8. Shstrtab(f) \in 1 .. Len(f.shdrs) /\ DataReadable(f, Shstrtab(f))
    <2>1. Shstrtab(f) \in 1 .. Len(f.shdrs)
      BY <1>1, ParsedStrings
    <2>2. f.names[Shstrtab(f)] = SHSTRTAB /\ Shstrtab(f) \in 1 .. Len(f.names)
      BY <1>4, <1>5, <2>1 DEF Sorted
    <2>3. /\ \A i \in 1 .. InsertPos(f) - 1 : f.names[i] # SHSTRTAB
          /\ InsertPos(f) \in Nat /\ InsertPos(f) >= 1 /\ Len(f.names) \in Nat
      BY <1>5 DEF Sorted
    <2>4. Shstrtab(f) \in InsertPos(f) .. Len(f.names)
      BY <2>2, <2>3
    <2>5. f.names[Shstrtab(f)] # SIG
      BY <2>2 DEF SIG, SHSTRTAB
    <2>6. QED
      BY <1>1, <2>1, <2>4, <2>5 DEF Refuses
  <1>9. /\ Sequence(CreateNote(b)) /\ Len(CreateNote(b)) = b.len
        /\ \A i \in 1 .. b.len : CreateNote(b)[i] = <<"note", i, b>>
    <2>1. CreateNote(b) = [i \in 1 .. b.len |-> CreateNote(b)[i]]
      BY DEF CreateNote
    <2>2. Sequence(CreateNote(b)) /\ Len(CreateNote(b)) = b.len
      BY <1>1, <2>1, FcnSeq
    <2>3. QED
      BY <2>2 DEF CreateNote
  <1>10. CreateNote(b) \in Seq(Cells(data, b))
    <2>1. ToSet(CreateNote(b)) \subseteq Cells(data, b)
      BY DEF Cells
    <2>2. QED
      BY <1>9, <2>1, SeqMonotonic DEF Sequence
  <1>11. QED
    BY <1>1, <1>2, <1>3, <1>4, <1>5, <1>6, <1>7, <1>8, <1>9, <1>10

(* The headers of Layout. *)
SigHdr(f, b) ==
  [name |-> NameOffset(NewStrings(f)), type |-> "NOTE", alloc |-> FALSE,
   off |-> ContentEnd(f), size |-> b.len, link |-> 0, info |-> 0, align |-> 1]

StrHdr(f, b) ==
  [f.shdrs[Shstrtab(f)] EXCEPT !.off = Len(StrOut(f, b)), !.size = Len(NewStrings(f))]

NewHdrs(f, b) ==
  [i \in 1 .. Len(Before(f)) |-> f.shdrs[Before(f)[i]]] \o <<SigHdr(f, b)>>
  \o Moved(f, b).hdrs \o <<StrHdr(f, b)>>

LEMMA LayoutParts ==
  ASSUME NEW f, NEW b
  PROVE  /\ Layout(f, b).out = Aligned(StrOut(f, b) \o NewStrings(f), ShdrAlign)
         /\ Layout(f, b).shdrs =
              [i \in 1 .. Len(NewHdrs(f, b)) |-> Relinked(f, NewHdrs(f, b)[i])]
  BY DEF Layout, Base, Moved, NewStrings, StrOut, SigHdr, StrHdr, NewHdrs

(* The string table is the old one, perhaps with the signature's name.      *)
LEMMA NewNames ==
  ASSUME NEW data, NEW f, NEW b, Input(data, f, b)
  PROVE  /\ NewStrings(f) = EnsureName(StringTable(data))
         /\ NewStrings(f) \in Seq(Cells(data, b)) /\ Sequence(NewStrings(f))
         /\ Len(NewStrings(f)) \in Nat
         /\ Begins(NewStrings(f), StringTable(data)) /\ Sequence(StringTable(data))
         /\ NameOffset(NewStrings(f)) \in Nat
         /\ NameOffset(NewStrings(f)) + 1 \in 1 .. Len(NewStrings(f))
         /\ NewStrings(f)[NameOffset(NewStrings(f)) + 1] = NameCell(SIG)
         /\ \A i \in 1 .. Len(NewStrings(f)) : NewStrings(f)[i][1] = "name"
         /\ \A i \in 1 .. Len(f.shdrs) :
              /\ f.shdrs[i].name + 1 \in 1 .. Len(NewStrings(f))
              /\ NewStrings(f)[f.shdrs[i].name + 1][2] = f.names[i]
  <1> DEFINE s == Shstrtab(f)
             old == StringTable(data)
             T == Cells(data, b)
  <1>1. Accepts(data) /\ f = Parse(data) /\ s = Shstrndx(data) + 1 /\ data \in Seq(T)
        /\ f.data = data
    BY InputFacts DEF Input
  <1>2. /\ s \in 1 .. Len(f.shdrs)
        /\ f.shdrs[s].type # "NOBITS" /\ f.shdrs[s].size > 0
        /\ f.shdrs[s].off + f.shdrs[s].size =< Len(data)
        /\ old = Slice(data, f.shdrs[s].off, f.shdrs[s].size)
        /\ Sequence(old) /\ Len(old) = f.shdrs[s].size
        /\ \A i \in 1 .. Len(old) : old[i][1] = "name"
        /\ \A i \in 1 .. Len(f.shdrs) : f.shdrs[i].name + 1 \in 1 .. f.shdrs[s].size
    BY <1>1, ParsedStrings
  <1>3. f.shdrs[s] \in Shdrs
    BY <1>2, InputFacts
  <1>4. f.shdrs[s].size \in Nat /\ f.shdrs[s].size # 0
    BY <1>2, <1>3 DEF Shdrs
  <1>5. HasData(f.shdrs[s])
    BY <1>2, <1>4 DEF HasData
  <1>6. SectionData(f, s) = old
    BY <1>1, <1>2, <1>5 DEF SectionData
  <1>7. old # <<>>
    <2>1. Len(old) # 0 /\ Len(<<>>) = 0
      BY <1>2, <1>4, EmptySeq
    <2>2. QED
      BY <2>1
  <1>8. NewStrings(f) = EnsureName(old)
    BY <1>6, <1>7 DEF NewStrings
  <1>9. DataReadable(f, s)
    BY InputFacts
  <1>10. old \in Seq(T)
    BY <1>1, <1>2, <1>6, <1>9, DataOfSection
  <1>11. NameCell(SIG) \in T
    BY DEF Cells
  <1> DEFINE new == NewStrings(f)
  <1>12. /\ new \in Seq(T) /\ Sequence(new) /\ Begins(new, old)
         /\ NameOffset(new) \in Nat
         /\ NameOffset(new) + 1 \in 1 .. Len(new)
         /\ new[NameOffset(new) + 1] = NameCell(SIG)
         /\ \A i \in 1 .. Len(new) :
              new[i] = NameCell(SIG) \/ (i \in 1 .. Len(old) /\ new[i] = old[i])
    BY <1>8, <1>10, <1>11, Naming
  <1>13. \A i \in 1 .. Len(new) : new[i][1] = "name"
    <2>1. NameCell(SIG)[1] = "name"
      BY DEF NameCell
    <2>2. QED
      BY <1>2, <1>12, <2>1
  <1>14. ASSUME NEW i \in 1 .. Len(f.shdrs)
         PROVE  f.shdrs[i].name + 1 \in 1 .. Len(new) /\ new[f.shdrs[i].name + 1][2] = f.names[i]
    <2> DEFINE k == f.shdrs[i].name + 1
    <2>1. k \in 1 .. Len(old)
      BY <1>2
    <2>2. f.names[i] = old[k][2]
      BY <1>1, ParsedHeaders
    <2> HIDE DEF k
    <2>3. new[k] = old[k]
      BY <1>12, <2>1 DEF Begins
    <2>4. k \in 1 .. Len(new)
      <3>1. Len(old) =< Len(new) /\ Len(old) \in Nat /\ Len(new) \in Nat
        BY <1>2, <1>12, SeqLen DEF Begins
      <3>2. QED
        BY <2>1, <3>1
    <2>5. QED
      BY <2>2, <2>3, <2>4 DEF k
  <1>15. Len(new) \in Nat
    BY <1>12, SeqLen
  <1>16. QED
    BY <1>2, <1>8, <1>12, <1>13, <1>14, <1>15

-----------------------------------------------------------------------------
(* What saveELFSignature lays out: the content that stays, the note, the    *)
(* data that moves, the string table.                                       *)
LEMMA LaidBase ==
  ASSUME NEW data, NEW f, NEW b, Input(data, f, b)
  PROVE  /\ Base(f, b) \in Seq(Cells(data, b)) /\ Sequence(Base(f, b))
         /\ Len(Base(f, b)) = ContentEnd(f) + b.len
         /\ ContentEnd(f) \in 1 .. Len(data)
         /\ \A i \in 1 .. ContentEnd(f) : Base(f, b)[i] = data[i]
         /\ Lies(Base(f, b), CreateNote(b), ContentEnd(f))
  <1> DEFINE c == ContentEnd(f)
             T == Cells(data, b)
             kept == Slice(data, 0, c)
  <1>1. /\ Sequence(data) /\ Len(data) \in Nat /\ data \in Seq(T) /\ f.data = data
        /\ Sequence(CreateNote(b)) /\ Len(CreateNote(b)) = b.len
        /\ CreateNote(b) \in Seq(T) /\ b.len \in Nat
    BY InputFacts
  <1>2. c \in 1 .. Len(data)
    BY InputFacts DEF EndSound
  <1> HIDE DEF c, T
  <1>3. /\ Sequence(kept) /\ Len(kept) = c /\ \A i \in 1 .. c : kept[i] = data[i]
    <2>1. 0 \in Nat /\ c \in Nat /\ 0 + c =< Len(data) /\ \A i \in 1 .. c : 0 + i = i
      BY <1>1, <1>2
    <2>2. /\ Sequence(kept) /\ Len(kept) = c
          /\ \A i \in 1 .. c : kept[i] = data[0 + i]
      BY <1>1, <2>1, Sliced
    <2>3. QED
      BY <2>1, <2>2
  <1>4. kept \in Seq(T)
    <2>1. \A i \in 1 .. Len(data) : data[i] \in T
      BY <1>1, ElementOfSeq
    <2>2. \A i \in 1 .. c : i \in 1 .. Len(data)
      BY <1>1, <1>2
    <2>3. QED
      BY <1>3, <2>1, <2>2, SeqIn
  <1>5. Base(f, b) = kept \o CreateNote(b)
    BY <1>1 DEF Base, c
  <1> HIDE DEF kept
  <1>6. /\ Sequence(Base(f, b)) /\ Len(Base(f, b)) = c + b.len
        /\ Begins(Base(f, b), kept) /\ Lies(Base(f, b), CreateNote(b), c)
    BY <1>1, <1>3, <1>5, BeginsConcat
  <1>7. Base(f, b) \in Seq(T)
    BY <1>1, <1>4, <1>5, ConcatProperties
  <1>8. \A i \in 1 .. c : Base(f, b)[i] = data[i]
    BY <1>3, <1>6 DEF Begins
  <1>9. QED
    BY <1>2, <1>6, <1>7, <1>8 DEF c, T

LEMMA LaidMoved ==
  ASSUME NEW data, NEW f, NEW b, Input(data, f, b)
  PROVE  /\ Placed(f, Base(f, b), Len(After(f)), Moved(f, b), Cells(data, b))
         /\ Len(After(f)) \in Nat
  <1> DEFINE T == Cells(data, b)
             m == Len(After(f))
  <1>1. /\ Accepts(data) /\ f = Parse(data) /\ data \in Seq(T)
        /\ \A i \in 1 .. m : After(f)[i] \in 1 .. Len(f.shdrs) /\ DataReadable(f, After(f)[i])
        /\ \A i \in 1 .. Len(f.shdrs) : f.shdrs[i] \in Shdrs
    BY InputFacts
  <1>2. m \in Nat
    BY InputFacts, Ordering
  <1>3. ZeroCell \in T
    BY DEF Cells
  <1>4. Base(f, b) \in Seq(T)
    BY LaidBase
  <1>5. \A j \in 1 .. m : /\ f.shdrs[After(f)[j]] \in Shdrs
                          /\ SectionData(f, After(f)[j]) \in Seq(T)
    BY <1>1, DataOfSection
  <1>6. Placed(f, Base(f, b), m, PlaceAfter(f, Base(f, b)), T)
    <2> HIDE DEF T, m
    <2>1. m = Len(After(f))
      BY DEF m
    <2>2. QED
      BY <1>2, <1>3, <1>4, <1>5, <2>1, PlaceLoop
  <1>7. QED
    BY <1>2, <1>6 DEF Moved

(* The whole: out is what is written before the section headers.            *)
LaidOut(data, f, b, out) ==
  /\ out \in Seq(Cells(data, b)) /\ Sequence(out) /\ Len(out) \in Nat
  /\ Begins(out, Base(f, b)) /\ Begins(out, Moved(f, b).out)
  /\ Len(Base(f, b)) =< Len(Moved(f, b).out)
  /\ Len(Moved(f, b).out) =< Len(StrOut(f, b))
  /\ Len(StrOut(f, b)) \in Nat
  /\ Lies(out, NewStrings(f), Len(StrOut(f, b)))
  /\ Len(out) % ShdrAlign = 0

LEMMA LaidAll ==
  ASSUME NEW data, NEW f, NEW b, Input(data, f, b)
  PROVE  LaidOut(data, f, b, Layout(f, b).out)
  <1> DEFINE T == Cells(data, b)
             so == StrOut(f, b)
             str == NewStrings(f)
             pre == so \o str
             out == Layout(f, b).out
             mo == Moved(f, b).out
             al == f.shdrs[Shstrtab(f)].align
  <1>1. Base(f, b) \in Seq(T) /\ Sequence(Base(f, b)) /\ ZeroCell \in T
    BY LaidBase DEF Cells
  <1>2. mo \in Seq(T) /\ Sequence(mo) /\ Begins(mo, Base(f, b))
    BY LaidMoved, InSeq DEF Placed
  <1>3. al \in Nat
    <2>1. f.shdrs[Shstrtab(f)] \in Shdrs
      BY InputFacts
    <2>2. QED
      BY <2>1 DEF Shdrs
  <1>4. str \in Seq(T) /\ Sequence(str)
    BY NewNames
  <1>5. so = Aligned(mo, al)
    BY DEF StrOut
  <1>6. out = Aligned(pre, ShdrAlign)
    BY LayoutParts
  <1> HIDE DEF T, so, str, out, mo, al
  <1>7. so \in Seq(T) /\ Sequence(so) /\ Begins(so, mo) /\ Len(so) \in Nat
    BY <1>1, <1>2, <1>3, <1>5, Alignment
  <1>8. /\ Sequence(pre) /\ Begins(pre, so) /\ Lies(pre, str, Len(so))
        /\ pre \in Seq(T)
    BY <1>4, <1>7, BeginsConcat, ConcatProperties
  <1> HIDE DEF pre
  <1>9. ShdrAlign \in Nat /\ ShdrAlign > 0
    BY LimitsAssumption
  <1>10. /\ out \in Seq(T) /\ Sequence(out) /\ Begins(out, pre) /\ Len(out) \in Nat
         /\ Len(out) % ShdrAlign = 0
    BY <1>1, <1>6, <1>8, <1>9, Alignment
  <1>11. Lies(out, str, Len(so))
    BY <1>4, <1>7, <1>8, <1>10, BeginsLies
  <1>12. Begins(out, so)
    BY <1>7, <1>8, <1>10, BeginsTransitive
  <1>13. Begins(out, mo)
    BY <1>2, <1>7, <1>10, <1>12, BeginsTransitive
  <1>14. Begins(out, Base(f, b))
    BY <1>1, <1>2, <1>10, <1>13, BeginsTransitive
  <1>15. Len(Base(f, b)) =< Len(mo) /\ Len(mo) =< Len(so)
    BY <1>2, <1>7 DEF Begins
  <1>16. QED
    BY <1>7, <1>10, <1>11, <1>13, <1>14, <1>15 DEF LaidOut, T, so, str, out, mo

LEMMA NoteFields ==
  ASSUME NEW x \in Nat, NEW c \in Nat, NEW l \in Nat
  PROVE  [name |-> x, type |-> "NOTE", alloc |-> FALSE, off |-> c,
          size |-> l, link |-> 0, info |-> 0, align |-> 1] \in Shdrs
  <1>1. "NOTE" \in ShdrTypes
    BY DEF ShdrTypes
  <1>2. QED
    BY <1>1 DEF Shdrs

(* The new headers: the sections that stay, the note, those that move and   *)
(* .shstrtab, each with its links renumbered.                               *)
HdrsLaid(f, b, hd, nb, na, n) ==
  /\ nb \in Nat /\ na \in Nat /\ n \in Nat
  /\ Sequence(hd) /\ Len(hd) = n /\ hd \in Seq(Shdrs)
  /\ \A i \in 1 .. nb : hd[i] = Relinked(f, f.shdrs[Before(f)[i]])
  /\ hd[nb + 1] = Relinked(f, SigHdr(f, b))
  /\ \A i \in 1 .. na : hd[nb + 1 + i] = Relinked(f, Moved(f, b).hdrs[i])
  /\ hd[n] = Relinked(f, StrHdr(f, b))

LEMMA LaidHeaders ==
  ASSUME NEW data, NEW f, NEW b, Input(data, f, b),
         NEW hd, hd = Layout(f, b).shdrs,
         NEW nb, nb = Len(Before(f)), NEW na, na = Len(After(f)), NEW n, n = nb + na + 2
  PROVE  HdrsLaid(f, b, hd, nb, na, n)
  <1> DEFINE h1 == [i \in 1 .. nb |-> f.shdrs[Before(f)[i]]]
             h2 == h1 \o <<SigHdr(f, b)>>
             mh == Moved(f, b).hdrs
             h3 == h2 \o mh
             h4 == NewHdrs(f, b)
  <1>1. nb \in Nat /\ na \in Nat /\ n \in Nat
    BY InputFacts, Ordering
  <1>2. \A i \in 1 .. Len(f.shdrs) : f.shdrs[i] \in Shdrs
    BY InputFacts
  <1>3. Sequence(h1) /\ Len(h1) = nb /\ \A i \in 1 .. nb : h1[i] = f.shdrs[Before(f)[i]]
    <2>1. h1 = [i \in 1 .. nb |-> h1[i]]
      OBVIOUS
    <2>2. \A i \in 1 .. nb : h1[i] = f.shdrs[Before(f)[i]]
      OBVIOUS
    <2> HIDE DEF h1
    <2>3. QED
      BY <1>1, <2>1, <2>2, FcnSeq
  <1>4. Sequence(mh) /\ Len(mh) = na /\ mh \in Seq(Shdrs)
    BY LaidMoved, InSeq DEF Placed
  <1>5. h4 = h3 \o <<StrHdr(f, b)>>
    BY DEF NewHdrs
  <1> HIDE DEF h1, mh, h4
  <1>6. /\ Sequence(h2) /\ Len(h2) = nb + 1 /\ \A i \in 1 .. nb : h2[i] = h1[i]
        /\ h2[nb + 1] = SigHdr(f, b)
    BY <1>1, <1>3, Concat, Single
  <1> HIDE DEF h2
  <1>7. /\ Sequence(h3) /\ Len(h3) = nb + 1 + na
        /\ \A i \in 1 .. nb + 1 : h3[i] = h2[i]
        /\ \A i \in 1 .. na : h3[nb + 1 + i] = mh[i]
    <2>1. /\ Sequence(h3) /\ Len(h3) = Len(h2) + Len(mh)
          /\ \A i \in 1 .. Len(h2) : h3[i] = h2[i]
          /\ \A i \in 1 .. Len(mh) : h3[Len(h2) + i] = mh[i]
      BY <1>4, <1>6, Concat
    <2>2. QED
      BY <1>4, <1>6, <2>1
  <1> HIDE DEF h3
  <1>8. /\ Sequence(h4) /\ Len(h4) = n
        /\ \A i \in 1 .. nb + 1 + na : h4[i] = h3[i]
        /\ h4[n] = StrHdr(f, b)
    <2>1. /\ Sequence(h4) /\ Len(h4) = Len(h3) + 1
          /\ \A i \in 1 .. Len(h3) : h4[i] = h3[i]
          /\ h4[Len(h3) + 1] = StrHdr(f, b)
      <3> DEFINE e == StrHdr(f, b)
      <3>1. Sequence(<<e>>) /\ Len(<<e>>) = 1 /\ <<e>>[1] = e
        BY Single
      <3>2. h4 = h3 \o <<e>> /\ Sequence(h3)
        BY <1>5, <1>7
      <3> HIDE DEF e
      <3>3. QED
        BY <3>1, <3>2, Concat DEF e
    <2>2. Len(h3) + 1 = n
      BY <1>1, <1>7
    <2>3. QED
      BY <1>7, <2>1, <2>2
  <1>9. /\ \A i \in 1 .. nb : i \in 1 .. nb + 1 /\ i \in 1 .. nb + 1 + na /\ i \in 1 .. n
        /\ nb + 1 \in 1 .. nb + 1 + na /\ nb + 1 \in 1 .. nb + 1 /\ nb + 1 \in 1 .. n
        /\ \A i \in 1 .. na : nb + 1 + i \in 1 .. nb + 1 + na /\ nb + 1 + i \in 1 .. n
        /\ n \in 1 .. n
    BY <1>1
  <1>10. /\ \A i \in 1 .. nb : h4[i] = f.shdrs[Before(f)[i]]
         /\ h4[nb + 1] = SigHdr(f, b)
         /\ \A i \in 1 .. na : h4[nb + 1 + i] = mh[i]
    BY <1>3, <1>6, <1>7, <1>8, <1>9
  <1>11. hd = [i \in 1 .. n |-> Relinked(f, h4[i])]
    BY <1>8, LayoutParts DEF h4
  <1>12. Sequence(hd) /\ Len(hd) = n /\ \A i \in 1 .. n : hd[i] = Relinked(f, h4[i])
    <2>1. \A i \in 1 .. n : hd[i] = Relinked(f, h4[i])
      BY <1>11
    <2>2. hd = [i \in 1 .. n |-> hd[i]]
      BY <1>11
    <2>3. QED
      BY <1>1, <2>1, <2>2, FcnSeq
  <1>13. \A i \in 1 .. n : h4[i] \in Shdrs
    <2>1. \A i \in 1 .. nb : h4[i] \in Shdrs
      BY <1>2, <1>10, InputFacts
    <2>2. SigHdr(f, b) \in Shdrs
      <3>1. NameOffset(NewStrings(f)) \in Nat /\ ContentEnd(f) \in Nat /\ b.len \in Nat
        <4>1. NameOffset(NewStrings(f)) \in Nat
          BY NewNames
        <4>2. ContentEnd(f) \in 1 .. Len(data)
          BY LaidBase
        <4>3. QED
          BY <4>1, <4>2, InputFacts
      <3> DEFINE x == NameOffset(NewStrings(f))
                 c == ContentEnd(f)
                 l == b.len
      <3>2. x \in Nat /\ c \in Nat /\ l \in Nat
        BY <3>1
      <3>3. SigHdr(f, b) = [name |-> x, type |-> "NOTE", alloc |-> FALSE, off |-> c,
                            size |-> l, link |-> 0, info |-> 0, align |-> 1]
        BY DEF SigHdr
      <3> HIDE DEF x, c, l
      <3>4. QED
        BY <3>2, <3>3, NoteFields
    <2>3. StrHdr(f, b) \in Shdrs
      <3>1. f.shdrs[Shstrtab(f)] \in Shdrs
        BY InputFacts
      <3>2. Len(StrOut(f, b)) \in Nat /\ Len(NewStrings(f)) \in Nat
        BY LaidAll, NewNames DEF LaidOut
      <3>3. QED
        BY <3>1, <3>2 DEF StrHdr, Shdrs
    <2>4. \A i \in 1 .. na : mh[i] \in Shdrs
      BY <1>4, ElementOfSeq
    <2>5. ASSUME NEW i \in 1 .. n PROVE h4[i] \in Shdrs
      <3>1. \/ i \in 1 .. nb \/ i = nb + 1
            \/ i - (nb + 1) \in 1 .. na /\ nb + 1 + (i - (nb + 1)) = i
            \/ i = n
        BY <1>1
      <3>2. CASE i \in 1 .. nb
        BY <2>1, <3>2
      <3>3. CASE i = nb + 1
        BY <1>10, <2>2, <3>3
      <3>4. CASE i - (nb + 1) \in 1 .. na /\ nb + 1 + (i - (nb + 1)) = i
        BY <1>10, <2>4, <3>4
      <3>5. CASE i = n
        BY <1>8, <2>3, <3>5
      <3>6. QED
        BY <3>1, <3>2, <3>3, <3>4, <3>5
    <2>6. QED
      BY <2>5
  <1>14. hd \in Seq(Shdrs)
    <2>1. Sequence(f.names)
      BY InputFacts
    <2>2. ASSUME NEW h \in Shdrs PROVE Relinked(f, h) \in Shdrs
      <3>1. h.link \in Nat /\ h.info \in Nat
        BY DEF Shdrs
      <3>2. NewIndex(f, h.link) \in Nat /\ NewIndex(f, h.info) \in Nat
        BY <2>1, <3>1, Renumbered
      <3>3. QED
        BY <3>1, <3>2 DEF Relinked, Shdrs
    <2>3. QED
      BY <1>12, <1>13, <2>2, SeqIn
  <1>15. QED
    BY <1>1, <1>8, <1>9, <1>10, <1>12, <1>14 DEF mh, HdrsLaid

(* The same, of the table itself. *)
Table(f, b) == Layout(f, b).shdrs

TableLaid(f, b) ==
  LET nb == Len(Before(f))
      na == Len(After(f))
  IN  /\ nb \in Nat /\ na \in Nat
      /\ Sequence(Table(f, b)) /\ Len(Table(f, b)) = nb + na + 2
      /\ Table(f, b) \in Seq(Shdrs)
      /\ \A i \in 1 .. nb : Table(f, b)[i] = Relinked(f, f.shdrs[Before(f)[i]])
      /\ Table(f, b)[nb + 1] = Relinked(f, SigHdr(f, b))
      /\ \A i \in 1 .. na : Table(f, b)[nb + 1 + i] = Relinked(f, Moved(f, b).hdrs[i])
      /\ Table(f, b)[nb + na + 2] = Relinked(f, StrHdr(f, b))

LEMMA TableParts ==
  ASSUME NEW data, NEW f, NEW b, Input(data, f, b)
  PROVE  TableLaid(f, b)
  <1>1. PICK nb, na : nb = Len(Before(f)) /\ na = Len(After(f))
    OBVIOUS
  <1>2. PICK n : n = nb + na + 2
    OBVIOUS
  <1>3. PICK hd : hd = Table(f, b)
    OBVIOUS
  <1>4. hd = Layout(f, b).shdrs
    BY <1>3 DEF Table
  <1>5. HdrsLaid(f, b, hd, nb, na, n)
    BY ONLY <1>1, <1>2, <1>4, Input(data, f, b), LaidHeaders
  <1>6. QED
    BY <1>1, <1>2, <1>3, <1>5 DEF TableLaid, HdrsLaid

-----------------------------------------------------------------------------
(* What saveELFSignature writes when it does not give up.                   *)
Saving(data, f, b) == Input(data, f, b) /\ ~CannotEncode(Table(f, b))

(* The headers as written: the counts may be in section 0.                  *)
Count0(f, b) ==
  LET n == Len(Table(f, b))
  IN  [Table(f, b)[1] EXCEPT !.size = n, !.link = n - 1]

SavedHdrs(f, b) ==
  IF Len(Table(f, b)) >= XIndex THEN [Table(f, b) EXCEPT ![1] = Count0(f, b)]
                                ELSE Table(f, b)

SavedEhdr(f, b) ==
  LET n == Len(Table(f, b))
  IN  [f.ehdr EXCEPT !.shoff = Len(Layout(f, b).out),
                     !.shnum = IF n >= XIndex THEN 0 ELSE n,
                     !.shstrndx = IF n >= XIndex THEN XIndex ELSE n - 1]

OutSaved(f, b) == [Layout(f, b).out EXCEPT ![1] = EhdrCell(SavedEhdr(f, b))]

Back(f, b) == [i \in 1 .. Len(Table(f, b)) |-> ShdrCell(SavedHdrs(f, b)[i])]

LEMMA SaveParts ==
  ASSUME NEW f, NEW b
  PROVE  Save(f, b) = OutSaved(f, b) \o Back(f, b)
  <1>1. SavedHdrs(f, b) =
          LET hd == Table(f, b)
              n == Len(hd)
          IN  IF n >= XIndex THEN [hd EXCEPT ![1].size = n, ![1].link = n - 1] ELSE hd
    BY DEF SavedHdrs, Count0
  <1>2. QED
    BY <1>1 DEF Save, WriteTables, SavedEhdr, Table, OutSaved, Back

LEMMA Overwritten ==
  ASSUME NEW T, NEW s \in Seq(T), NEW e \in T, 1 \in 1 .. Len(s),
         NEW r, r = [s EXCEPT ![1] = e]
  PROVE  /\ r \in Seq(T) /\ Len(r) = Len(s) /\ r[1] = e
         /\ \A i \in 2 .. Len(s) : r[i] = s[i]
  <1>1. r \in Seq(T) /\ Len(r) = Len(s) /\ \A i \in 1 .. Len(s) : r[i] = IF i = 1 THEN e ELSE s[i]
    BY ExceptSeq
  <1>2. Len(s) \in Nat
    BY InSeq
  <1>3. \A i \in 2 .. Len(s) : i \in 1 .. Len(s) /\ i # 1
    BY <1>2
  <1>4. QED
    BY <1>1, <1>3

HdrsSaved(f, b) ==
  LET n == Len(Table(f, b))
  IN  /\ n \in Nat /\ n >= 2
      /\ Sequence(SavedHdrs(f, b)) /\ Len(SavedHdrs(f, b)) = n
      /\ SavedHdrs(f, b) \in Seq(Shdrs)
      /\ \A i \in 2 .. n : SavedHdrs(f, b)[i] = Table(f, b)[i]
      /\ n < XIndex => SavedHdrs(f, b) = Table(f, b)
      /\ ~(n < XIndex) => /\ n >= XIndex /\ SavedHdrs(f, b)[1] = Count0(f, b)
                          /\ Len(Before(f)) >= 1 /\ Table(f, b)[1].type = "NULL"

LEMMA SavedHeaders ==
  ASSUME NEW data, NEW f, NEW b, Saving(data, f, b)
  PROVE  HdrsSaved(f, b)
  <1> DEFINE nb == Len(Before(f))
             na == Len(After(f))
             hd == Table(f, b)
             n == Len(hd)
  <1>1. /\ nb \in Nat /\ na \in Nat /\ n = nb + na + 2
        /\ Sequence(hd) /\ hd \in Seq(Shdrs)
        /\ hd[nb + 1] = Relinked(f, SigHdr(f, b))
    BY TableParts DEF Saving, TableLaid
  <1>2. n \in Nat /\ n >= 2 /\ 1 \in 1 .. n /\ n - 1 \in Nat
    BY <1>1
  <1>3. XIndex \in Nat
    BY LimitsAssumption
  <1>4. CASE n < XIndex
    <2>1. ~(n >= XIndex)
      BY <1>2, <1>3, <1>4
    <2>2. SavedHdrs(f, b) = hd
      BY <2>1 DEF SavedHdrs
    <2>3. QED
      BY <1>1, <1>2, <1>4, <2>2 DEF HdrsSaved
  <1>5. CASE ~(n < XIndex)
    <2>1. n >= XIndex
      BY <1>2, <1>3, <1>5
    <2>2. hd[1].type = "NULL"
      BY <2>1 DEF Saving, CannotEncode
    <2>3. nb # 0
      <3>1. Relinked(f, SigHdr(f, b)).type = "NOTE"
        BY DEF Relinked, SigHdr
      <3>2. nb = 0 => hd[1] = Relinked(f, SigHdr(f, b))
        BY <1>1
      <3>3. QED
        BY <2>2, <3>1, <3>2
    <2>4. Count0(f, b) \in Shdrs
      <3>1. hd[1] \in Shdrs
        BY <1>1, <1>2, ElementOfSeq
      <3>2. QED
        BY <1>2, <3>1 DEF Count0, Shdrs
    <2>5. SavedHdrs(f, b) = [hd EXCEPT ![1] = Count0(f, b)]
      BY <2>1 DEF SavedHdrs
    <2>6. /\ SavedHdrs(f, b) \in Seq(Shdrs) /\ Len(SavedHdrs(f, b)) = n
          /\ SavedHdrs(f, b)[1] = Count0(f, b)
          /\ \A i \in 2 .. n : SavedHdrs(f, b)[i] = hd[i]
      <3>1. hd \in Seq(Shdrs) /\ 1 \in 1 .. Len(hd)
        BY <1>1, <1>2
      <3>2. QED
        BY ONLY <2>4, <2>5, <3>1, Overwritten
    <2>7. Sequence(SavedHdrs(f, b))
      BY <2>6, InSeq
    <2>8. nb >= 1
      BY <1>1, <2>3
    <2>9. QED
      BY <1>2, <1>5, <2>1, <2>2, <2>6, <2>7, <2>8 DEF HdrsSaved
  <1>6. QED
    BY <1>4, <1>5

(* The cells of what is written: only the ELF header is written over. *)
Written(g, out, e, t) ==
  /\ Sequence(g) /\ Len(g) = Len(out) + Len(t) /\ Len(out) \in Nat /\ Len(t) \in Nat
  /\ g[1] = e
  /\ \A i \in 2 .. Len(out) : g[i] = out[i]
  /\ \A i \in 1 .. Len(t) : g[Len(out) + i] = t[i]
  /\ \A d : \A o \in Nat \ {0} : Sequence(d) /\ Lies(out, d, o) => Lies(g, d, o)

LEMMA Writing ==
  ASSUME NEW out, NEW e, NEW t, Sequence(out), Sequence(t), 1 \in 1 .. Len(out),
         NEW w, w = [out EXCEPT ![1] = e]
  PROVE  Written(w \o t, out, e, t)
  <1> DEFINE g == w \o t
  <1>1. Len(out) \in Nat /\ Len(t) \in Nat
    BY SeqLen
  <1>2. /\ Sequence(w) /\ Len(w) = Len(out)
        /\ w[1] = e /\ \A i \in 2 .. Len(out) : w[i] = out[i]
    <2> DEFINE T == ToSet(out) \cup {e}
    <2>1. \A i \in 1 .. Len(out) : out[i] \in T
      BY SeqLen
    <2>2. out \in Seq(T) /\ e \in T
      BY <2>1, SeqIn
    <2> HIDE DEF T
    <2>3. /\ w \in Seq(T) /\ Len(w) = Len(out) /\ w[1] = e
          /\ \A i \in 2 .. Len(out) : w[i] = out[i]
      BY <2>2, Overwritten
    <2>4. QED
      BY <2>3, InSeq
  <1>3. /\ Sequence(g) /\ Len(g) = Len(w) + Len(t)
        /\ \A i \in 1 .. Len(w) : g[i] = w[i]
        /\ \A i \in 1 .. Len(t) : g[Len(w) + i] = t[i]
    BY <1>2, Concat
  <1> HIDE DEF g
  <1>4. \A i \in 2 .. Len(out) : i \in 1 .. Len(out) /\ i # 1
    BY <1>1
  <1>5. g[1] = e /\ \A i \in 2 .. Len(out) : g[i] = out[i]
    BY <1>1, <1>2, <1>3, <1>4
  <1>6. ASSUME NEW d, NEW o \in Nat \ {0}, Sequence(d), Lies(out, d, o)
        PROVE  Lies(g, d, o)
    <2>1. Len(d) \in Nat /\ o + Len(d) =< Len(out)
      BY <1>6, SeqLen DEF Lies
    <2>2. o + Len(d) =< Len(g) /\ \A i \in 1 .. Len(d) : o + i \in 2 .. Len(out)
      BY <1>1, <1>2, <1>3, <2>1
    <2>3. \A i \in 1 .. Len(d) : g[o + i] = d[i]
      BY <1>5, <1>6, <2>2 DEF Lies
    <2>4. QED
      BY <2>2, <2>3 DEF Lies
  <1>7. QED
    BY <1>1, <1>2, <1>3, <1>5, <1>6 DEF Written, g

LEMMA SavedCells ==
  ASSUME NEW data, NEW f, NEW b, Saving(data, f, b)
  PROVE  /\ Written(Save(f, b), Layout(f, b).out, EhdrCell(SavedEhdr(f, b)), Back(f, b))
         /\ Len(Layout(f, b).out) \in Nat /\ Len(Layout(f, b).out) >= 1
         /\ Sequence(Back(f, b)) /\ Len(Back(f, b)) = Len(Table(f, b))
         /\ \A i \in 1 .. Len(Table(f, b)) : Back(f, b)[i] = ShdrCell(SavedHdrs(f, b)[i])
  <1> DEFINE out == Layout(f, b).out
             n == Len(Table(f, b))
  <1>0. Input(data, f, b)
    BY DEF Saving
  <1>1. Sequence(out) /\ Len(out) \in Nat /\ Len(out) >= 1
    <2>1. Sequence(out) /\ Len(out) \in Nat /\ Begins(out, Base(f, b))
      BY <1>0, LaidAll DEF LaidOut
    <2>2. Len(Base(f, b)) = ContentEnd(f) + b.len /\ ContentEnd(f) \in 1 .. Len(data)
          /\ b.len \in Nat /\ Len(data) \in Nat
      BY <1>0, LaidBase, InputFacts
    <2>3. Len(Base(f, b)) =< Len(out)
      BY <2>1 DEF Begins
    <2>4. QED
      BY <2>1, <2>2, <2>3
  <1>2. n \in Nat
    BY SavedHeaders DEF HdrsSaved
  <1>3. /\ Back(f, b) = [i \in 1 .. n |-> Back(f, b)[i]]
        /\ \A i \in 1 .. n : Back(f, b)[i] = ShdrCell(SavedHdrs(f, b)[i])
    BY DEF Back
  <1>4. Sequence(Back(f, b)) /\ Len(Back(f, b)) = n
    BY <1>2, <1>3, FcnSeq
  <1>5. 1 \in 1 .. Len(out)
    BY <1>1
  <1>6. Written(Save(f, b), out, EhdrCell(SavedEhdr(f, b)), Back(f, b))
    <2>1. OutSaved(f, b) = [out EXCEPT ![1] = EhdrCell(SavedEhdr(f, b))]
      BY DEF OutSaved
    <2>2. Save(f, b) = OutSaved(f, b) \o Back(f, b)
      BY SaveParts
    <2>3. Written(OutSaved(f, b) \o Back(f, b), out, EhdrCell(SavedEhdr(f, b)), Back(f, b))
      BY ONLY <1>1, <1>4, <1>5, <2>1, Writing
    <2>4. QED
      BY <2>2, <2>3
  <1>7. QED
    BY <1>1, <1>3, <1>4, <1>6

-----------------------------------------------------------------------------
(* What parseELF reads back from it. *)
ReadBack(f, b, g) ==
  LET n == Len(Table(f, b))
      h == Parse(g)
  IN  /\ n \in Nat /\ n >= 2
      /\ Ehdr(g) = SavedEhdr(f, b) /\ Shnum(g) = n /\ Shstrndx(g) = n - 1
      /\ h.data = g
      /\ Sequence(h.shdrs) /\ Len(h.shdrs) = n
      /\ \A i \in 1 .. n : h.shdrs[i] = SavedHdrs(f, b)[i]
      /\ StringTable(g) = NewStrings(f)
      /\ Sequence(h.names) /\ Len(h.names) = n
      /\ \A i \in 1 .. n : h.names[i] = NewStrings(f)[SavedHdrs(f, b)[i].name + 1][2]

LEMMA ReadingBack ==
  ASSUME NEW data, NEW f, NEW b, Saving(data, f, b)
  PROVE  ReadBack(f, b, Save(f, b))
  <1> DEFINE g == Save(f, b)
             out == Layout(f, b).out
             m == Len(out)
             n == Len(Table(f, b))
             h == Parse(g)
             sh == SavedHdrs(f, b)
  <1>0. Input(data, f, b)
    BY DEF Saving
  <1>1. /\ n \in Nat /\ n >= 2 /\ n # 0 /\ n - 1 \in Nat /\ (n - 1) + 1 = n
        /\ 1 \in 1 .. n /\ n \in 2 .. n /\ n \in 1 .. n
    <2>1. n \in Nat /\ n >= 2
      BY SavedHeaders DEF HdrsSaved
    <2>2. QED
      BY <2>1
  <1>2. /\ m \in Nat /\ g[1] = EhdrCell(SavedEhdr(f, b))
        /\ \A i \in 1 .. n : g[m + i] = ShdrCell(sh[i])
        /\ \A d : \A o \in Nat \ {0} : Sequence(d) /\ Lies(out, d, o) => Lies(g, d, o)
        /\ Sequence(g)
    BY SavedCells DEF Written
  <1>3. Ehdr(g) = SavedEhdr(f, b)
    BY <1>2 DEF Ehdr, EhdrCell
  <1>4. /\ Ehdr(g).shoff = m
        /\ Ehdr(g).shnum = IF n >= XIndex THEN 0 ELSE n
        /\ Ehdr(g).shstrndx = IF n >= XIndex THEN XIndex ELSE n - 1
    <2>1. f.ehdr \in Ehdrs
      BY <1>0, InputFacts, ParsedHeaders
    <2>2. QED
      BY <1>3, <2>1 DEF SavedEhdr, Ehdrs
  <1>5. \A i \in 1 .. n : g[m + i][2] = sh[i]
    <2>1. \A x : ShdrCell(x)[2] = x
      BY DEF ShdrCell
    <2>2. \A i \in 1 .. n : g[m + i][2] = ShdrCell(sh[i])[2]
      BY <1>2
    <2> HIDE DEF m, n, sh, g
    <2>3. QED
      BY ONLY <2>1, <2>2
  <1>6. n >= XIndex => sh[1].size = n /\ sh[1].link = n - 1
    <2>1. n >= XIndex => ~(n < XIndex)
      BY <1>1, LimitsAssumption
    <2>2. n >= XIndex => sh[1] = Count0(f, b)
      BY <2>1, SavedHeaders DEF HdrsSaved
    <2>3. Table(f, b)[1] \in Shdrs
      <3>1. Table(f, b) \in Seq(Shdrs)
        BY <1>0, TableParts DEF TableLaid
      <3>2. QED
        BY <1>1, <3>1, ElementOfSeq
    <2>4. Count0(f, b).size = n /\ Count0(f, b).link = n - 1
      BY <2>3 DEF Count0, Shdrs
    <2>5. QED
      BY <2>2, <2>4
  <1>7. Shnum(g) = n /\ Shstrndx(g) = n - 1
    <2>1. CASE n >= XIndex
      BY <1>1, <1>4, <1>5, <1>6, <2>1 DEF Shnum, Shstrndx
    <2>2. CASE ~(n >= XIndex)
      BY <1>1, <1>4, <2>2 DEF Shnum, Shstrndx
    <2>3. QED
      BY <2>1, <2>2
  <1> HIDE DEF m, n, h, sh, g
  <1>8. /\ SectionTable(g) = [i \in 1 .. n |-> g[m + i][2]]
        /\ \A i \in 1 .. n : SectionTable(g)[i] = sh[i]
    BY <1>4, <1>5, <1>7 DEF SectionTable
  <1>9. /\ h.data = g /\ h.shdrs = SectionTable(g)
        /\ h.names = [i \in 1 .. n |-> StringTable(g)[SectionTable(g)[i].name + 1][2]]
    BY <1>7 DEF Parse, h
  <1>10. Sequence(h.shdrs) /\ Len(h.shdrs) = n
    <2>1. h.shdrs = [i \in 1 .. n |-> h.shdrs[i]]
      BY <1>8, <1>9
    <2>2. QED
      BY <1>1, <2>1, FcnSeq
  <1>11. Sequence(h.names) /\ Len(h.names) = n
    <2>1. h.names = [i \in 1 .. n |-> h.names[i]]
      BY <1>9
    <2>2. QED
      BY <1>1, <2>1, FcnSeq
  <1>12. StringTable(g) = NewStrings(f)
    <2> DEFINE o == Len(StrOut(f, b))
               l == Len(NewStrings(f))
               s == NewStrings(f)
    <2>1. sh[n] = Relinked(f, StrHdr(f, b))
      <3>1. sh[n] = Table(f, b)[n]
        BY <1>1, SavedHeaders DEF HdrsSaved, sh, n
      <3>2. TableLaid(f, b)
        BY <1>0, TableParts
      <3>3. Table(f, b)[n] = Relinked(f, StrHdr(f, b))
        BY <3>2 DEF TableLaid, n
      <3>4. QED
        BY <3>1, <3>3
    <2>2. sh[n].off = o /\ sh[n].size = l
      <3>1. f.shdrs[Shstrtab(f)] \in Shdrs
        BY <1>0, InputFacts
      <3>2. QED
        BY <2>1, <3>1 DEF Relinked, StrHdr, Shdrs
    <2>3. SectionTable(g)[Shstrndx(g) + 1] = sh[n]
      BY <1>1, <1>7, <1>8
    <2>4. StringTable(g) = Slice(g, o, l)
      BY <2>2, <2>3 DEF StringTable
    <2>5. Lies(out, s, o) /\ o \in Nat \ {0} /\ Sequence(s)
      <3>1. /\ Lies(out, s, o) /\ o \in Nat /\ Len(Base(f, b)) =< Len(Moved(f, b).out)
            /\ Len(Moved(f, b).out) =< o /\ Moved(f, b).out \in Seq(Cells(data, b))
        BY <1>0, LaidAll, LaidMoved DEF LaidOut, Placed
      <3>2. Len(Base(f, b)) = ContentEnd(f) + b.len /\ ContentEnd(f) \in 1 .. Len(data)
            /\ b.len \in Nat /\ Len(data) \in Nat
        BY <1>0, LaidBase, InputFacts
      <3>3. Len(Moved(f, b).out) \in Nat
        BY <3>1, InSeq
      <3> HIDE DEF o
      <3>4. o # 0
        BY <3>1, <3>2, <3>3
      <3>5. Sequence(s)
        BY <1>0, NewNames
      <3>6. QED
        BY <3>1, <3>4, <3>5
    <2>6. Lies(g, s, o)
      BY <1>2, <2>5
    <2> HIDE DEF o, s
    <2>7. Slice(g, o, Len(s)) = s
      BY <1>2, <2>5, <2>6, SliceLies
    <2>8. QED
      BY <2>4, <2>7 DEF s
  <1>13. \A i \in 1 .. n : h.shdrs[i] = sh[i] /\ h.names[i] = NewStrings(f)[sh[i].name + 1][2]
    BY <1>8, <1>9, <1>12
  <1>14. QED
    BY <1>1, <1>3, <1>7, <1>9, <1>10, <1>11, <1>12, <1>13 DEF ReadBack, n, h, sh, g

(* The sections keep their names; the note and .shstrtab have theirs.       *)
NamesBack(f, h) ==
  LET nb == Len(Before(f))
      na == Len(After(f))
  IN  /\ nb \in Nat /\ na \in Nat
      /\ Sequence(h.names) /\ Len(h.names) = nb + na + 2
      /\ Sequence(h.shdrs) /\ Len(h.shdrs) = nb + na + 2
      /\ \A i \in 1 .. nb : h.names[i] = f.names[Before(f)[i]]
      /\ h.names[nb + 1] = SIG
      /\ \A i \in 1 .. na : h.names[nb + 1 + i] = f.names[After(f)[i]]
      /\ h.names[nb + na + 2] = SHSTRTAB

LEMMA NameKept ==
  ASSUME NEW data, NEW f, NEW b, Saving(data, f, b),
         NEW i \in 1 .. Len(Table(f, b))
  PROVE  SavedHdrs(f, b)[i].name = Table(f, b)[i].name
  <1>1. CASE Len(Table(f, b)) < XIndex
    BY <1>1, SavedHeaders DEF HdrsSaved
  <1>2. CASE ~(Len(Table(f, b)) < XIndex) /\ i = 1
    <2>1. SavedHdrs(f, b)[1] = Count0(f, b)
      BY <1>2, SavedHeaders DEF HdrsSaved
    <2>2. Table(f, b)[1] \in Shdrs
      <3>1. Table(f, b) \in Seq(Shdrs)
        BY TableParts DEF Saving, TableLaid
      <3>2. QED
        BY <1>2, <3>1, ElementOfSeq
    <2>3. Count0(f, b).name = Table(f, b)[1].name
      BY <2>2 DEF Count0, Shdrs
    <2>4. QED
      BY <1>2, <2>1, <2>3
  <1>3. CASE i # 1
    <2>1. Len(Table(f, b)) \in Nat
      BY SavedHeaders DEF HdrsSaved
    <2>2. i \in 2 .. Len(Table(f, b))
      BY <1>3, <2>1
    <2>3. QED
      BY <2>2, SavedHeaders DEF HdrsSaved
  <1>4. QED
    BY <1>1, <1>2, <1>3

LEMMA NamingBack ==
  ASSUME NEW data, NEW f, NEW b, Saving(data, f, b)
  PROVE  NamesBack(f, Parse(Save(f, b)))
  <1> DEFINE h == Parse(Save(f, b))
             nb == Len(Before(f))
             na == Len(After(f))
             n == Len(Table(f, b))
             s == NewStrings(f)
  <1>0. Input(data, f, b)
    BY DEF Saving
  <1>1. /\ Sequence(h.names) /\ Len(h.names) = n /\ Sequence(h.shdrs) /\ Len(h.shdrs) = n
        /\ \A i \in 1 .. n : h.names[i] = s[SavedHdrs(f, b)[i].name + 1][2]
    BY ReadingBack DEF ReadBack
  <1>2. /\ nb \in Nat /\ na \in Nat /\ n = nb + na + 2
        /\ \A i \in 1 .. nb : Table(f, b)[i] = Relinked(f, f.shdrs[Before(f)[i]])
        /\ Table(f, b)[nb + 1] = Relinked(f, SigHdr(f, b))
        /\ \A i \in 1 .. na : Table(f, b)[nb + 1 + i] = Relinked(f, Moved(f, b).hdrs[i])
        /\ Table(f, b)[nb + na + 2] = Relinked(f, StrHdr(f, b))
    BY <1>0, TableParts DEF TableLaid
  <1> HIDE DEF h, nb, na, n, s
  <1>3. /\ \A i \in 1 .. nb : i \in 1 .. n
        /\ nb + 1 \in 1 .. n /\ nb + na + 2 \in 1 .. n
        /\ \A i \in 1 .. na : nb + 1 + i \in 1 .. n
    BY <1>2
  <1>4. \A i \in 1 .. n : h.names[i] = s[Table(f, b)[i].name + 1][2]
    BY <1>1, NameKept DEF n
  <1>5. \A i \in 1 .. Len(f.shdrs) : s[f.shdrs[i].name + 1][2] = f.names[i]
    BY <1>0, NewNames DEF s
  <1>6. \A x \in Shdrs : Relinked(f, x).name = x.name
    BY DEF Relinked, Shdrs
  <1>7. ASSUME NEW i \in 1 .. nb PROVE h.names[i] = f.names[Before(f)[i]]
    <2>1. Before(f)[i] \in 1 .. Len(f.shdrs) /\ f.shdrs[Before(f)[i]] \in Shdrs
      BY <1>0, InputFacts DEF nb
    <2>2. Table(f, b)[i].name = f.shdrs[Before(f)[i]].name
      BY <1>2, <1>6, <2>1
    <2>3. h.names[i] = s[f.shdrs[Before(f)[i]].name + 1][2]
      BY <1>3, <1>4, <2>2
    <2>4. QED
      BY <1>5, <2>1, <2>3
  <1>8. h.names[nb + 1] = SIG
    <2>1. SigHdr(f, b).name = NameOffset(s)
      BY DEF SigHdr, s
    <2>2. Table(f, b)[nb + 1].name = NameOffset(s)
      BY <1>2, <2>1 DEF Relinked, SigHdr
    <2>3. s[NameOffset(s) + 1] = NameCell(SIG)
      BY <1>0, NewNames DEF s
    <2>4. NameCell(SIG)[2] = SIG
      BY DEF NameCell
    <2>5. h.names[nb + 1] = s[NameOffset(s) + 1][2]
      BY <1>3, <1>4, <2>2
    <2>6. QED
      BY <2>3, <2>4, <2>5
  <1>9. ASSUME NEW i \in 1 .. na PROVE h.names[nb + 1 + i] = f.names[After(f)[i]]
    <2>1. After(f)[i] \in 1 .. Len(f.shdrs) /\ f.shdrs[After(f)[i]] \in Shdrs
      BY <1>0, InputFacts DEF na
    <2> DEFINE x == Moved(f, b).hdrs[i]
    <2>2. x = [f.shdrs[After(f)[i]] EXCEPT !.off = x.off] /\ x \in Shdrs
      <3>1. Placed(f, Base(f, b), na, Moved(f, b), Cells(data, b))
        BY <1>0, LaidMoved DEF na
      <3>2. Moved(f, b).hdrs \in Seq(Shdrs) /\ Len(Moved(f, b).hdrs) = na
        BY <3>1 DEF Placed
      <3>3. x \in Shdrs
        BY <3>2, ElementOfSeq
      <3>4. QED
        BY <3>1, <3>3 DEF Placed
    <2>3. x.name = f.shdrs[After(f)[i]].name
      BY <2>1, <2>2 DEF Shdrs
    <2>4. Table(f, b)[nb + 1 + i].name = f.shdrs[After(f)[i]].name
      BY <1>2, <1>6, <2>2, <2>3
    <2>5. h.names[nb + 1 + i] = s[f.shdrs[After(f)[i]].name + 1][2]
      BY <1>3, <1>4, <2>4
    <2>6. QED
      BY <1>5, <2>1, <2>5
  <1>10. h.names[nb + na + 2] = SHSTRTAB
    <2> DEFINE x == f.shdrs[Shstrtab(f)]
    <2>1. Shstrtab(f) \in 1 .. Len(f.shdrs) /\ x \in Shdrs
      BY <1>0, InputFacts
    <2>2. f.names[Shstrtab(f)] = SHSTRTAB
      <3>1. Sorted(f) /\ Shstrtab(f) # 0
        BY <1>0, <2>1, InputFacts
      <3>2. QED
        BY <3>1 DEF Sorted
    <2>3. Relinked(f, StrHdr(f, b)).name = x.name
      BY <2>1 DEF StrHdr, Relinked, Shdrs
    <2>4. Table(f, b)[nb + na + 2].name = x.name
      BY <1>2, <2>3
    <2>5. h.names[nb + na + 2] = s[x.name + 1][2]
      BY <1>3, <1>4, <2>4
    <2>6. QED
      BY <1>5, <2>1, <2>2, <2>5
  <1>11. Len(h.names) = nb + na + 2 /\ Len(h.shdrs) = nb + na + 2
    BY <1>1, <1>2
  <1>12. QED
    BY <1>1, <1>2, <1>7, <1>8, <1>9, <1>10, <1>11 DEF NamesBack, nb, na, h

(* Every header but a null section 0 that holds the counts is as laid out.  *)
LEMMA HeaderKept ==
  ASSUME NEW data, NEW f, NEW b, Saving(data, f, b),
         NEW i \in 1 .. Len(Table(f, b)), i # 1 \/ Len(Before(f)) = 0
  PROVE  SavedHdrs(f, b)[i] = Table(f, b)[i]
  <1>1. CASE Len(Table(f, b)) < XIndex
    BY <1>1, SavedHeaders DEF HdrsSaved
  <1>2. CASE ~(Len(Table(f, b)) < XIndex)
    <2>1. Len(Table(f, b)) \in Nat /\ Len(Before(f)) >= 1
      BY <1>2, SavedHeaders DEF HdrsSaved
    <2>2. i \in 2 .. Len(Table(f, b))
      BY <2>1
    <2>3. QED
      BY <2>2, SavedHeaders DEF HdrsSaved
  <1>3. QED
    BY <1>1, <1>2

(* The note is found, and it is the bundle that was saved. *)
NoteBack(f, b, h) ==
  LET k == Len(Before(f)) + 1
  IN  /\ FindSection(h, SIG) = k
      /\ {i \in 1 .. Len(h.names) : h.names[i] = SIG} = {k}
      /\ DataReadable(h, k) /\ SectionData(h, k) = CreateNote(b)
      /\ GetSignature(h) = b

LEMMA OneNote ==
  ASSUME NEW f, NEW h, Sorted(f), NamesBack(f, h), NEW k, k = Len(Before(f)) + 1
  PROVE  k \in 1 .. Len(h.names) /\ {i \in 1 .. Len(h.names) : h.names[i] = SIG} = {k}
  <1> DEFINE nb == Len(Before(f))
             na == Len(After(f))
  <1>1. /\ nb \in Nat /\ na \in Nat /\ Len(h.names) = nb + na + 2
        /\ \A i \in 1 .. nb : h.names[i] = f.names[Before(f)[i]]
        /\ h.names[nb + 1] = SIG
        /\ \A i \in 1 .. na : h.names[nb + 1 + i] = f.names[After(f)[i]]
        /\ h.names[nb + na + 2] = SHSTRTAB
    BY DEF NamesBack
  <1>2. /\ \A i \in 1 .. nb : Before(f)[i] \in Kept(f)
        /\ \A i \in 1 .. na : After(f)[i] \in Kept(f)
    BY DEF Sorted, Collected
  <1> HIDE DEF nb, na
  <1>3. \A i \in Kept(f) : f.names[i] # SIG
    BY DEF Kept
  <1>4. SHSTRTAB # SIG
    BY DEF SHSTRTAB, SIG
  <1>5. k = nb + 1 /\ k \in 1 .. Len(h.names)
    BY <1>1 DEF nb
  <1>6. ASSUME NEW i \in 1 .. Len(h.names), i # k PROVE h.names[i] # SIG
    <2>1. \/ i \in 1 .. nb
          \/ i - (nb + 1) \in 1 .. na /\ nb + 1 + (i - (nb + 1)) = i
          \/ i = nb + na + 2
      BY <1>1, <1>5, <1>6
    <2>2. CASE i \in 1 .. nb
      BY <1>1, <1>2, <1>3, <2>2
    <2>3. CASE i - (nb + 1) \in 1 .. na /\ nb + 1 + (i - (nb + 1)) = i
      <3>1. PICK j \in 1 .. na : i = nb + 1 + j
        BY <2>3
      <3>2. h.names[i] = f.names[After(f)[j]]
        BY <1>1, <3>1
      <3>3. QED
        BY <1>2, <1>3, <3>2
    <2>4. CASE i = nb + na + 2
      BY <1>1, <1>4, <2>4
    <2>5. QED
      BY <2>1, <2>2, <2>3, <2>4
  <1>7. QED
    BY <1>1, <1>5, <1>6

LEMMA FindingBack ==
  ASSUME NEW data, NEW f, NEW b, Saving(data, f, b)
  PROVE  NoteBack(f, b, Parse(Save(f, b)))
  <1> DEFINE g == Save(f, b)
             out == Layout(f, b).out
             h == Parse(g)
             k == Len(Before(f)) + 1
             c == ContentEnd(f)
             d == CreateNote(b)
             l == b.len
  <1>0. Input(data, f, b) /\ Sorted(f)
    BY InputFacts DEF Saving
  <1>1. k \in 1 .. Len(h.names) /\ {i \in 1 .. Len(h.names) : h.names[i] = SIG} = {k}
    <2>1. NamesBack(f, h)
      BY NamingBack
    <2>2. QED
      BY <1>0, <2>1, OneNote
  <1>2. /\ h.data = g /\ \A i \in 1 .. Len(Table(f, b)) : h.shdrs[i] = SavedHdrs(f, b)[i]
        /\ Len(h.names) = Len(Table(f, b))
    BY ReadingBack DEF ReadBack
  <1>3. h.shdrs[k] = Relinked(f, SigHdr(f, b))
    <2>1. /\ Len(Before(f)) \in Nat
          /\ Table(f, b)[k] = Relinked(f, SigHdr(f, b))
      BY <1>0, TableParts DEF TableLaid
    <2>2. k \in 1 .. Len(Table(f, b))
      BY <1>1, <1>2
    <2>3. k # 1 \/ Len(Before(f)) = 0
      BY <2>1
    <2> HIDE DEF k
    <2>4. SavedHdrs(f, b)[k] = Table(f, b)[k]
      BY <2>2, <2>3, HeaderKept
    <2>5. QED
      BY <1>2, <2>1, <2>2, <2>4
  <1>4. h.shdrs[k].type = "NOTE" /\ h.shdrs[k].off = c /\ h.shdrs[k].size = l
    BY <1>3 DEF Relinked, SigHdr
  <1>5. /\ l \in Nat /\ l > 0 /\ Sequence(d) /\ Len(d) = l
        /\ \A i \in 1 .. l : d[i] = <<"note", i, b>>
        /\ c \in Nat \ {0} /\ Len(data) \in Nat
    <2>1. /\ l \in Nat /\ l > 0 /\ Sequence(d) /\ Len(d) = l /\ Len(data) \in Nat
          /\ \A i \in 1 .. l : d[i] = <<"note", i, b>>
      BY <1>0, InputFacts
    <2>2. c \in 1 .. Len(data)
      BY <1>0, LaidBase
    <2>3. QED
      BY <2>1, <2>2
  <1>6. Sequence(g) /\ Lies(g, d, c)
    <2>1. Begins(out, Base(f, b)) /\ Sequence(out) /\ Lies(Base(f, b), d, c) /\ Sequence(Base(f, b))
      BY <1>0, LaidAll, LaidBase DEF LaidOut
    <2>2. Lies(out, d, c)
      BY <1>5, <2>1, BeginsLies
    <2>3. QED
      BY <1>5, <2>2, SavedCells DEF Written
  <1> HIDE DEF g, h, k, c, d, l, out
  <1>7. HasData(h.shdrs[k])
    BY <1>4, <1>5 DEF HasData
  <1>8. DataReadable(h, k)
    <2>1. c + l =< Len(g) /\ Len(g) \in Nat
      BY <1>5, <1>6, SeqLen DEF Lies
    <2>2. c =< Len(g) /\ l =< Len(g) - c
      BY <1>5, <2>1
    <2>3. QED
      BY <1>2, <1>4, <2>2 DEF DataReadable, RangeWithinFile
  <1>9. SectionData(h, k) = d
    <2>1. SectionData(h, k) = Slice(g, c, l)
      BY <1>2, <1>4, <1>7 DEF SectionData
    <2>2. Slice(g, c, Len(d)) = d
      BY <1>5, <1>6, SliceLies
    <2>3. QED
      BY <1>5, <2>1, <2>2
  <1>10. IsNote(d) /\ d[1][3] = b
    <2>1. 1 \in 1 .. l
      BY <1>5
    <2>2. d[1] = <<"note", 1, b>>
      BY <1>5, <2>1
    <2>3. d[1][1] = "note" /\ d[1][3] = b
      BY <2>2
    <2>4. d # <<>>
      <3>1. Len(<<>>) = 0
        OBVIOUS
      <3>2. Len(d) # 0
        BY <1>5
      <3>3. QED
        BY <3>1, <3>2
    <2>5. Slice(d, 0, l) = d
      <3>1. Lies(d, d, 0)
        BY <1>5 DEF Lies
      <3>2. Slice(d, 0, Len(d)) = d
        BY <1>5, <3>1, SliceLies
      <3>3. QED
        BY <1>5, <3>2
    <2>6. b.len =< Len(d) /\ Slice(d, 0, b.len) = CreateNote(b)
      BY <1>5, <2>5 DEF d, l
    <2>7. QED
      BY <2>3, <2>4, <2>6 DEF IsNote
  <1>11. FindSection(h, SIG) = k
    <2> DEFINE I == {i \in 1 .. Len(h.names) : h.names[i] = SIG}
    <2>1. FindSection(h, SIG) = IF I # {} THEN Min(I) ELSE 0
      BY DEF FindSection, SelectInSeq
    <2>2. I = {k}
      BY <1>1
    <2>3. Min(I) \in I
      <3>1. {k} \subseteq Nat /\ {k} # {}
        BY <1>1
      <3> HIDE DEF I
      <3>2. QED
        BY <2>2, <3>1, MinOf
    <2> HIDE DEF I
    <2>4. QED
      BY <2>1, <2>2, <2>3
  <1>12. k # 0
    BY <1>1
  <1>13. GetSignature(h) = b
    BY <1>8, <1>9, <1>10, <1>11, <1>12 DEF GetSignature
  <1>14. QED
    BY <1>1, <1>8, <1>9, <1>11, <1>13 DEF NoteBack, h, k, d, g

-----------------------------------------------------------------------------
(* Sections are not lost, and the count can always be encoded in an image   *)
(* that was well-formed.                                                    *)
LEMMA Interval ==
  ASSUME NEW n \in Nat
  PROVE  IsFiniteSet(1 .. n) /\ Cardinality(1 .. n) = n
  <1>1. n \in Int /\ 1 \in Int
    OBVIOUS
  <1>2. IsFiniteSet(1 .. n) /\ Cardinality(1 .. n) = IF 1 > n THEN 0 ELSE n - 1 + 1
    BY <1>1, FS_Interval
  <1>3. QED
    BY <1>2

LEMMA CountKept ==
  ASSUME NEW f, Sorted(f), Sequence(f.names)
  PROVE  /\ IsFiniteSet(Kept(f)) /\ Cardinality(Kept(f)) \in Nat
         /\ Len(Before(f)) + Len(After(f)) =< Cardinality(Kept(f))
  <1> DEFINE n == Len(f.names)
             B == Before(f)
             A == After(f)
             nb == Len(B)
             na == Len(A)
             p == InsertPos(f)
             M == [j \in 1 .. nb + na |-> IF j =< nb THEN B[j] ELSE A[j - nb]]
  <1>1. /\ n \in Nat /\ p \in Nat /\ nb \in Nat /\ na \in Nat
        /\ \A i \in 1 .. nb : B[i] \in Kept(f) /\ B[i] \in 1 .. n /\ B[i] < p
        /\ \A i, j \in 1 .. nb : i < j => B[i] < B[j]
        /\ \A i \in 1 .. na : A[i] \in Kept(f) /\ A[i] \in 1 .. n /\ A[i] >= p
        /\ \A i, j \in 1 .. na : i < j => A[i] < A[j]
    BY DEF Sorted, Collected
  <1>2. IsFiniteSet(Kept(f)) /\ Cardinality(Kept(f)) \in Nat
    <2>1. IsFiniteSet(1 .. n)
      BY <1>1, Interval
    <2>2. Kept(f) \in SUBSET (1 .. n)
      BY DEF Kept
    <2>3. QED
      BY <2>1, <2>2, FS_Subset, FS_CardinalityType
  <1> HIDE DEF n, B, A, nb, na, p
  <1>3. \A j \in 1 .. nb + na : j \in 1 .. nb \/ (~(j =< nb) /\ j - nb \in 1 .. na)
    BY <1>1
  <1>4. ASSUME NEW j \in 1 .. nb + na PROVE M[j] \in Kept(f)
    <2>1. CASE j =< nb
      BY <1>1, <1>3, <2>1
    <2>2. CASE ~(j =< nb)
      BY <1>1, <1>3, <2>2
    <2>3. QED
      BY <2>1, <2>2
  <1>5. ASSUME NEW i \in 1 .. nb + na, NEW j \in 1 .. nb + na, i < j PROVE M[i] # M[j]
    <2>1. i \in Nat /\ j \in Nat
      BY <1>1
    <2>2. CASE j =< nb
      <3>1. i \in 1 .. nb /\ j \in 1 .. nb /\ i =< nb
        BY <1>1, <1>5, <2>1, <2>2
      <3>2. M[i] = B[i] /\ M[j] = B[j] /\ B[i] < B[j] /\ B[i] \in 1 .. n /\ B[j] \in 1 .. n
        BY <1>1, <1>5, <2>2, <3>1
      <3> HIDE DEF M
      <3>3. QED
        BY <1>1, <3>2
    <2>3. CASE ~(j =< nb) /\ i =< nb
      <3>1. i \in 1 .. nb /\ j - nb \in 1 .. na
        BY <1>1, <1>3, <2>1, <2>3
      <3>2. /\ M[i] = B[i] /\ M[j] = A[j - nb] /\ B[i] < p /\ A[j - nb] >= p
            /\ B[i] \in 1 .. n /\ A[j - nb] \in 1 .. n
        BY <1>1, <2>3, <3>1
      <3> HIDE DEF M
      <3>3. QED
        BY <1>1, <3>2
    <2>4. CASE ~(i =< nb)
      <3>1. i - nb \in 1 .. na /\ j - nb \in 1 .. na /\ ~(j =< nb) /\ i - nb < j - nb
        BY <1>1, <1>5, <2>1, <2>4
      <3>2. /\ M[i] = A[i - nb] /\ M[j] = A[j - nb] /\ A[i - nb] < A[j - nb]
            /\ A[i - nb] \in 1 .. n /\ A[j - nb] \in 1 .. n
        BY <1>1, <2>4, <3>1
      <3> HIDE DEF M
      <3>3. QED
        BY <1>1, <3>2
    <2>5. QED
      BY <2>2, <2>3, <2>4
  <1>6. M \in Injection(1 .. nb + na, Kept(f))
    <2>1. M \in [1 .. nb + na -> Kept(f)] /\ DOMAIN M = 1 .. nb + na
      BY <1>4
    <2> HIDE DEF M
    <2>2. \A i, j \in 1 .. nb + na : M[i] = M[j] => i = j
      <3>1. \A i, j \in 1 .. nb + na : i = j \/ i < j \/ j < i
        BY <1>1
      <3>2. QED
        BY <1>5, <3>1
    <2>3. QED
      BY <2>1, <2>2 DEF Injection, IsInjective
  <1> HIDE DEF M
  <1>7. Cardinality(1 .. nb + na) =< Cardinality(Kept(f))
    BY <1>2, <1>6, FS_Injection
  <1>8. Cardinality(1 .. nb + na) = nb + na
    <2>1. nb + na \in Nat
      BY <1>1
    <2>2. QED
      BY <2>1, Interval
  <1>9. nb + na =< Cardinality(Kept(f))
    BY <1>7, <1>8
  <1>10. QED
    BY <1>2, <1>9 DEF nb, na, B, A

(* A null section 0 stays first. *)
LEMMA NullStays ==
  ASSUME NEW f, Sorted(f), Sequence(f.names), Len(f.names) > 0, NullFirst(f)
  PROVE  Len(Before(f)) >= 1 /\ Before(f)[1] = 1
  <1> DEFINE n == Len(f.names)
             B == Before(f)
             p == InsertPos(f)
  <1>1. /\ n \in Nat /\ p \in 1 .. n + 1 /\ Len(B) \in Nat
        /\ p =< n => f.names[p] \in {SYMTAB, STRTAB, SHSTRTAB}
        /\ \A i \in 1 .. Len(B) : B[i] \in 1 .. n
        /\ \A x \in {i \in Kept(f) : i < p} : x \in 1 .. n => \E i \in 1 .. Len(B) : B[i] = x
        /\ \A i, j \in 1 .. Len(B) : i < j => B[i] < B[j]
    BY DEF Sorted, Collected
  <1>2. 1 \in Kept(f) /\ 1 \in 1 .. n
    BY <1>1 DEF NullFirst, Kept
  <1>3. p # 1
    BY <1>1 DEF NullFirst
  <1> HIDE DEF n, B, p
  <1>4. 1 < p
    BY <1>1, <1>3
  <1>5. PICK i \in 1 .. Len(B) : B[i] = 1
    BY <1>1, <1>2, <1>4
  <1>6. 1 \in 1 .. Len(B) /\ Len(B) >= 1
    BY <1>1, <1>5
  <1>7. i = 1
    <2>1. i # 1 => 1 < i
      BY <1>1, <1>5
    <2>2. i # 1 => B[1] < 1
      BY <1>1, <1>5, <1>6, <2>1
    <2>3. B[1] \in 1 .. n
      BY <1>1, <1>6
    <2>4. QED
      BY <1>1, <2>2, <2>3
  <1>8. QED
    BY <1>5, <1>6, <1>7 DEF B

(* saveELFSignature then does not give up (writer.go:169).                  *)
LEMMA Encodable ==
  ASSUME NEW data, NEW f, NEW b, Input(data, f, b),
         Cardinality(Kept(f)) + 2 >= XIndex => NullFirst(f)
  PROVE  ~CannotEncode(Table(f, b))
  <1> DEFINE nb == Len(Before(f))
             na == Len(After(f))
             n == Len(Table(f, b))
             c == Cardinality(Kept(f))
  <1>1. SUFFICES ASSUME n >= XIndex PROVE Table(f, b)[1].type = "NULL"
    BY DEF CannotEncode
  <1>2. /\ Sorted(f) /\ Sequence(f.names) /\ Len(f.names) = Len(f.shdrs)
        /\ Len(f.shdrs) \in Nat /\ \A i \in 1 .. Len(f.shdrs) : f.shdrs[i] \in Shdrs
        /\ Shstrtab(f) \in 1 .. Len(f.shdrs)
    BY InputFacts
  <1>3. /\ nb \in Nat /\ na \in Nat /\ n = nb + na + 2
        /\ \A i \in 1 .. nb : Table(f, b)[i] = Relinked(f, f.shdrs[Before(f)[i]])
    BY TableParts DEF TableLaid
  <1>4. c \in Nat /\ nb + na =< c
    BY <1>2, CountKept
  <1> HIDE DEF nb, na, n, c
  <1>5. c + 2 >= XIndex
    BY <1>1, <1>3, <1>4, LimitsAssumption
  <1>6. NullFirst(f)
    BY <1>5 DEF c
  <1>7. Len(f.names) > 0 /\ 1 \in 1 .. Len(f.shdrs)
    BY <1>2
  <1>8. nb >= 1 /\ Before(f)[1] = 1
    BY <1>2, <1>6, <1>7, NullStays DEF nb
  <1>9. 1 \in 1 .. nb
    BY <1>3, <1>8
  <1>10. Table(f, b)[1] = Relinked(f, f.shdrs[1])
    BY <1>3, <1>8, <1>9
  <1>11. f.shdrs[1].type = "NULL"
    BY <1>6 DEF NullFirst
  <1>12. QED
    BY <1>2, <1>7, <1>10, <1>11 DEF Relinked, Shdrs

(* A set of section numbers that lacks two of them.                         *)
LEMMA TwoFewer ==
  ASSUME NEW n \in Nat, NEW k \in 1 .. n, k # n,
         NEW K, K \subseteq ((1 .. n) \ {n}) \ {k}
  PROVE  Cardinality(K) \in Nat /\ Cardinality(K) + 2 =< n
  <1> DEFINE S == 1 .. n
             T == S \ {n}
             U == T \ {k}
  <1>1. IsFiniteSet(S) /\ Cardinality(S) = n
    BY Interval
  <1>2. IsFiniteSet(T) /\ Cardinality(T) = n - 1
    <2>1. n \in S
      OBVIOUS
    <2> HIDE DEF S
    <2>2. QED
      BY <1>1, <2>1, FS_RemoveElement
  <1>3. IsFiniteSet(U) /\ Cardinality(U) = n - 1 - 1
    <2>1. k \in T
      OBVIOUS
    <2> HIDE DEF T
    <2>2. QED
      BY <1>2, <2>1, FS_RemoveElement
  <1>4. K \in SUBSET U
    OBVIOUS
  <1> HIDE DEF U
  <1>5. Cardinality(K) =< Cardinality(U) /\ Cardinality(K) \in Nat
    BY <1>3, <1>4, FS_Subset, FS_CardinalityType
  <1>6. QED
    BY <1>3, <1>5

(* What is written is well-formed again. *)
LEMMA WellFormedBack ==
  ASSUME NEW data, NEW f, NEW b, Saving(data, f, b), NEW h, h = Parse(Save(f, b))
  PROVE  /\ Shstrtab(h) = Shstrndx(Save(f, b)) + 1
         /\ Cardinality(Kept(h)) + 2 >= XIndex => NullFirst(h)
  <1> DEFINE g == Save(f, b)
             nb == Len(Before(f))
             na == Len(After(f))
             n == Len(Table(f, b))
             c == Cardinality(Kept(h))
  <1>0. Input(data, f, b) /\ Sorted(f)
    BY InputFacts DEF Saving
  <1>1. /\ nb \in Nat /\ na \in Nat /\ n = nb + na + 2
        /\ \A i \in 1 .. nb : Table(f, b)[i] = Relinked(f, f.shdrs[Before(f)[i]])
    BY <1>0, TableParts DEF TableLaid
  <1>2. /\ Len(h.names) = n
        /\ \A i \in 1 .. nb : h.names[i] = f.names[Before(f)[i]]
        /\ h.names[nb + 1] = SIG /\ h.names[n] = SHSTRTAB
    <2>1. NamesBack(f, h)
      BY NamingBack
    <2>2. QED
      BY <1>1, <2>1 DEF NamesBack
  <1>3. /\ Shstrndx(g) = n - 1 /\ Len(h.shdrs) = n
        /\ \A i \in 1 .. n : h.shdrs[i] = SavedHdrs(f, b)[i]
    BY ReadingBack DEF ReadBack
  <1> HIDE DEF nb, na, n, c, g
  <1>4. n \in Nat /\ n >= 2 /\ n \in 1 .. n /\ nb + 1 \in 1 .. n /\ nb + 1 # n
        /\ (n - 1) + 1 = n
    BY <1>1
  <1>5. Shstrtab(h) = n
    <2> DEFINE I == {i \in 1 .. Len(h.names) : h.names[i] = SHSTRTAB}
    <2>1. Shstrtab(h) = IF I # {} THEN Max(I) ELSE 0
      BY DEF Shstrtab, SelectLastInSeq
    <2>2. n \in I /\ I \subseteq 1 .. n
      BY <1>2, <1>4
    <2> HIDE DEF I
    <2>3. \A i \in n + 1 .. n : i \notin I
      BY <1>4
    <2>4. I # {} /\ Max(I) = n
      BY <1>4, <2>2, <2>3, LastIs
    <2>5. QED
      BY <2>1, <2>4
  <1>6. Shstrtab(h) = Shstrndx(g) + 1
    BY <1>3, <1>4, <1>5
  <1>7. c + 2 =< n
    <2>1. SIG # SHSTRTAB
      BY DEF SIG, SHSTRTAB
    <2>2. Kept(h) \subseteq ((1 .. n) \ {n}) \ {nb + 1}
      BY <1>2, <2>1 DEF Kept
    <2>3. QED
      BY <1>4, <2>2, TwoFewer DEF c
  <1>8. ASSUME c + 2 >= XIndex PROVE NullFirst(h)
    <2>1. n >= XIndex /\ ~(n < XIndex)
      <3>1. c \in Nat
        <4>1. IsFiniteSet(1 .. n) /\ Kept(h) \in SUBSET (1 .. n)
          BY <1>2, <1>4, Interval DEF Kept
        <4>2. QED
          BY <4>1, FS_Subset, FS_CardinalityType DEF c
      <3>2. QED
        BY <1>4, <1>7, <1>8, <3>1, LimitsAssumption
    <2>2. nb >= 1 /\ Table(f, b)[1].type = "NULL" /\ SavedHdrs(f, b)[1] = Count0(f, b)
      BY <2>1, SavedHeaders DEF HdrsSaved, n, nb
    <2>3. h.shdrs[1] = Count0(f, b)
      BY <1>3, <1>4, <2>2
    <2>4. Table(f, b)[1] \in Shdrs
      <3>1. Table(f, b) \in Seq(Shdrs) /\ 1 \in 1 .. n /\ Len(Table(f, b)) = n
        BY <1>0, <1>4, TableParts DEF TableLaid, n
      <3>2. QED
        BY <3>1, ElementOfSeq
    <2>5. h.shdrs[1].type = "NULL"
      BY <2>2, <2>3, <2>4 DEF Count0, Shdrs
    <2>6. 1 \in 1 .. nb
      BY <1>1, <2>2
    <2>7. h.names[1] = f.names[Before(f)[1]]
      BY <1>2, <2>6
    <2>8. f.names[Before(f)[1]] \notin {SIG, SYMTAB, STRTAB, SHSTRTAB}
      <3> DEFINE x == Before(f)[1]
                 p == InsertPos(f)
      <3>1. x \in Kept(f) /\ x < p /\ x \in 1 .. Len(f.names)
        BY <1>0, <2>6 DEF Sorted, Collected, nb
      <3>2. p \in 1 .. Len(f.names) + 1 /\ Len(f.names) \in Nat
            /\ \A i \in 1 .. p - 1 : f.names[i] \notin {SYMTAB, STRTAB, SHSTRTAB}
        BY <1>0 DEF Sorted
      <3>3. f.names[x] # SIG
        BY <3>1 DEF Kept
      <3> HIDE DEF x, p
      <3>4. x \in 1 .. p - 1
        BY <3>1, <3>2
      <3>5. f.names[x] \notin {SYMTAB, STRTAB, SHSTRTAB}
        BY <3>2, <3>4
      <3>6. QED
        BY <3>3, <3>5 DEF x
    <2>9. QED
      BY <2>5, <2>7, <2>8 DEF NullFirst
  <1>9. QED
    BY <1>6, <1>8 DEF c, g

(* A cell that is a header holds the fields of one. *)
HeaderCell(c) ==
  /\ c[1] = "ehdr" => c[2] \in Ehdrs
  /\ c[1] = "phdr" => c[2] \in Phdrs
  /\ c[1] = "shdr" => c[2] \in Shdrs

LEMMA WrittenCells ==
  ASSUME NEW data, NEW f, NEW b, Input(data, f, b), NEW c \in Cells(data, b)
  PROVE  HeaderCell(c)
  <1>1. CASE c \in ToSet(data)
    BY <1>1, InputFacts DEF Accepts, Typed, HeaderCell
  <1>2. CASE c \in ToSet(CreateNote(b))
    <2>1. /\ ToSet(CreateNote(b)) = {CreateNote(b)[i] : i \in 1 .. b.len}
          /\ \A i \in 1 .. b.len : CreateNote(b)[i] = <<"note", i, b>>
      BY InputFacts, SeqLen
    <2>2. PICK i \in 1 .. b.len : c = <<"note", i, b>>
      BY <1>2, <2>1
    <2>3. c[1] = "note"
      BY <2>2
    <2>4. QED
      BY <2>3 DEF HeaderCell
  <1>3. CASE c \in {ZeroCell, NameCell(SIG)}
    <2>1. c[1] = "zero" \/ c[1] = "name"
      BY <1>3 DEF ZeroCell, NameCell
    <2>2. QED
      BY <2>1 DEF HeaderCell
  <1>4. QED
    BY <1>1, <1>2, <1>3 DEF Cells

LEMMA TypedBack ==
  ASSUME NEW data, NEW f, NEW b, Saving(data, f, b)
  PROVE  Typed(Save(f, b))
  <1> DEFINE g == Save(f, b)
             out == Layout(f, b).out
             m == Len(out)
             n == Len(Table(f, b))
             e == SavedEhdr(f, b)
  <1>0. Input(data, f, b)
    BY DEF Saving
  <1>1. /\ Sequence(g) /\ Len(g) = m + n /\ m \in Nat /\ m >= 1
        /\ n \in Nat /\ n >= 2 /\ n - 1 \in Nat
        /\ g[1] = EhdrCell(e)
        /\ \A i \in 2 .. m : g[i] = out[i]
        /\ \A i \in 1 .. n : g[m + i] = ShdrCell(SavedHdrs(f, b)[i])
    <2>1. n \in Nat /\ n >= 2
      BY SavedHeaders DEF HdrsSaved
    <2>2. n - 1 \in Nat
      BY <2>1
    <2>3. /\ Written(g, out, EhdrCell(e), Back(f, b)) /\ m \in Nat /\ m >= 1
          /\ Len(Back(f, b)) = n
          /\ \A i \in 1 .. n : Back(f, b)[i] = ShdrCell(SavedHdrs(f, b)[i])
      BY SavedCells
    <2> HIDE DEF g, out, m, n, e
    <2>4. /\ Sequence(g) /\ Len(g) = Len(out) + n /\ g[1] = EhdrCell(e)
          /\ \A i \in 2 .. Len(out) : g[i] = out[i]
          /\ \A i \in 1 .. n : g[Len(out) + i] = Back(f, b)[i]
      BY <2>3 DEF Written
    <2>5. QED
      BY <2>1, <2>2, <2>3, <2>4 DEF m
  <1>2. out \in Seq(Cells(data, b))
    BY <1>0, LaidAll DEF LaidOut
  <1>3. \A i \in 1 .. n : SavedHdrs(f, b)[i] \in Shdrs
    <2>1. SavedHdrs(f, b) \in Seq(Shdrs) /\ Len(SavedHdrs(f, b)) = n
      BY SavedHeaders DEF HdrsSaved
    <2>2. QED
      BY <2>1, ElementOfSeq
  <1>4. e \in Ehdrs
    <2>1. f.ehdr \in Ehdrs
      BY <1>0, InputFacts, ParsedHeaders
    <2>2. /\ m \in Nat
          /\ (IF n >= XIndex THEN 0 ELSE n) \in Nat
          /\ (IF n >= XIndex THEN XIndex ELSE n - 1) \in Nat
      BY <1>1, LimitsAssumption
    <2> DEFINE u == IF n >= XIndex THEN 0 ELSE n
               v == IF n >= XIndex THEN XIndex ELSE n - 1
    <2>3. e = [f.ehdr EXCEPT !.shoff = m, !.shnum = u, !.shstrndx = v]
      BY DEF SavedEhdr
    <2>4. m \in Nat /\ u \in Nat /\ v \in Nat
      BY <2>2
    <2> HIDE DEF m, n, e, u, v
    <2>5. QED
      BY <2>1, <2>3, <2>4 DEF Ehdrs
  <1> HIDE DEF g, m, n, e, out
  <1>5. ASSUME NEW i \in 1 .. Len(g) PROVE HeaderCell(g[i])
    <2>1. \/ i = 1 \/ i \in 2 .. m
          \/ \E j \in 1 .. n : i = m + j
      <3>1. i \in Nat /\ i >= 1 /\ i =< m + n
        BY <1>1
      <3>2. i > m => i - m \in 1 .. n /\ i = m + (i - m)
        BY <1>1, <3>1
      <3>3. QED
        BY <1>1, <3>1, <3>2
    <2>2. CASE i = 1
      <3>1. g[i][1] = "ehdr" /\ g[i][2] = e
        BY <1>1, <2>2 DEF EhdrCell
      <3>2. QED
        BY <1>4, <3>1 DEF HeaderCell
    <2>3. CASE i \in 2 .. m
      <3>1. i \in 1 .. m
        BY <1>1, <2>3
      <3>2. out[i] \in Cells(data, b)
        BY <1>2, <3>1, ElementOfSeq DEF m
      <3>3. QED
        BY <1>0, <1>1, <2>3, <3>2, WrittenCells
    <2>4. ASSUME NEW j \in 1 .. n, i = m + j PROVE HeaderCell(g[i])
      <3>1. g[i] = ShdrCell(SavedHdrs(f, b)[j])
        BY <1>1, <2>4
      <3>2. g[i][1] = "shdr" /\ g[i][2] = SavedHdrs(f, b)[j]
        BY <3>1 DEF ShdrCell
      <3>3. QED
        BY <1>3, <3>2 DEF HeaderCell
    <2>5. QED
      BY <2>1, <2>2, <2>3, <2>4
  <1>6. ToSet(g) = {g[i] : i \in 1 .. Len(g)}
    BY <1>1, SeqLen
  <1>7. QED
    BY <1>1, <1>5, <1>6 DEF Typed, HeaderCell, Sequence, g

-----------------------------------------------------------------------------
(* Which old section a new one is. *)
Old(f, i) == NewOrder(f)[i]

(* The kept sections are the new ones, in order, but the note and           *)
(* .shstrtab.                                                               *)
OldInOrder(f) ==
  LET nb == Len(Before(f))
      na == Len(After(f))
      n  == nb + na + 2
  IN  /\ nb \in Nat /\ na \in Nat
      /\ Old(f, nb + 1) = 0 /\ Old(f, n) = Shstrtab(f)
      /\ \A i \in 1 .. n : Old(f, i) \in Kept(f) <=> i # nb + 1 /\ i # n
      /\ \A i \in 1 .. nb : Old(f, i) = Before(f)[i]
      /\ \A i \in 1 .. na : Old(f, nb + 1 + i) = After(f)[i]
      /\ \A i, j \in 1 .. n :
           Old(f, i) \in Kept(f) /\ Old(f, j) \in Kept(f) /\ i < j => Old(f, i) < Old(f, j)
      /\ \A k \in Kept(f) : \E i \in 1 .. n : Old(f, i) = k

LEMMA OldOrder ==
  ASSUME NEW f, Sorted(f), Sequence(f.names)
  PROVE  OldInOrder(f)
  <1> DEFINE nb == Len(Before(f))
             na == Len(After(f))
             n  == nb + na + 2
             m  == Len(f.names)
             p  == InsertPos(f)
             B  == Before(f)
             A  == After(f)
             K  == Kept(f)
  <1>1. /\ nb \in Nat /\ na \in Nat /\ n \in Nat /\ m \in Nat /\ p \in Nat
        /\ \A i \in 1 .. nb : Old(f, i) = B[i]
        /\ Old(f, nb + 1) = 0
        /\ \A i \in 1 .. na : Old(f, nb + 1 + i) = A[i]
        /\ Old(f, n) = Shstrtab(f)
    BY Ordering DEF Old, Sorted
  <1>2. /\ \A i \in 1 .. nb : B[i] \in K /\ B[i] < p /\ B[i] \in 1 .. m
        /\ \A x \in K : x < p /\ x \in 1 .. m => \E i \in 1 .. nb : B[i] = x
        /\ \A i, j \in 1 .. nb : i < j => B[i] < B[j]
    BY DEF Sorted, Collected
  <1>3. /\ \A i \in 1 .. na : A[i] \in K /\ A[i] >= p /\ A[i] \in 1 .. m
        /\ \A x \in K : x >= p /\ x \in 1 .. m => \E i \in 1 .. na : A[i] = x
        /\ \A i, j \in 1 .. na : i < j => A[i] < A[j]
    BY DEF Sorted, Collected
  <1>4. /\ \A x \in K : x \in 1 .. m /\ x # 0
        /\ Shstrtab(f) \notin K
    <2>1. \A x \in K : x \in 1 .. m /\ f.names[x] # SHSTRTAB
      BY DEF Kept
    <2>2. Shstrtab(f) # 0 => f.names[Shstrtab(f)] = SHSTRTAB
      BY DEF Sorted
    <2>3. \A x \in K : x # 0
      BY <1>1, <2>1
    <2>4. QED
      BY <2>1, <2>2, <2>3
  <1> HIDE DEF nb, na, n, m, p, B, A, K
  <1>5. \A i \in 1 .. n : \/ i \in 1 .. nb
                          \/ i = nb + 1 /\ i # n
                          \/ \E j \in 1 .. na : i = nb + 1 + j
                          \/ i = n /\ i # nb + 1
    <2>1. \A i \in 1 .. n : i > nb + 1 /\ i < n => i - (nb + 1) \in 1 .. na
                                                   /\ i = nb + 1 + (i - (nb + 1))
      BY <1>1 DEF n
    <2>2. \A i \in 1 .. n : i \in 1 .. nb \/ i = nb + 1 \/ i = n \/ (i > nb + 1 /\ i < n)
      BY <1>1 DEF n
    <2>3. nb + 1 # n
      BY <1>1 DEF n
    <2>4. QED
      BY <2>1, <2>2, <2>3
  <1>6. /\ \A i \in 1 .. nb : i # nb + 1 /\ i # n /\ i \in 1 .. n
        /\ \A i \in 1 .. na : nb + 1 + i # nb + 1 /\ nb + 1 + i # n /\ nb + 1 + i \in 1 .. n
    BY <1>1 DEF n
  <1>7. ASSUME NEW i \in 1 .. n PROVE Old(f, i) \in K <=> i # nb + 1 /\ i # n
    <2>1. CASE i \in 1 .. nb
      BY <1>1, <1>2, <1>6, <2>1
    <2>2. CASE i = nb + 1 /\ i # n
      BY <1>1, <1>4, <2>2
    <2>3. CASE \E j \in 1 .. na : i = nb + 1 + j
      <3>1. PICK j \in 1 .. na : i = nb + 1 + j
        BY <2>3
      <3>2. Old(f, i) = A[j] /\ A[j] \in K
        BY <1>1, <1>3, <3>1
      <3>3. i # nb + 1 /\ i # n
        BY <1>6, <3>1
      <3>4. QED
        BY <3>2, <3>3
    <2>4. CASE i = n /\ i # nb + 1
      BY <1>1, <1>4, <2>4
    <2>5. QED
      BY <1>5, <2>1, <2>2, <2>3, <2>4
  <1>8. ASSUME NEW i \in 1 .. n, NEW j \in 1 .. n, Old(f, i) \in K, Old(f, j) \in K, i < j
        PROVE  Old(f, i) < Old(f, j)
    <2>1. /\ i \in 1 .. nb \/ \E k \in 1 .. na : i = nb + 1 + k
          /\ j \in 1 .. nb \/ \E k \in 1 .. na : j = nb + 1 + k
      BY <1>5, <1>7, <1>8
    <2>2. CASE i \in 1 .. nb /\ j \in 1 .. nb
      BY <1>1, <1>2, <1>8, <2>2
    <2>3. ASSUME i \in 1 .. nb, NEW k \in 1 .. na, j = nb + 1 + k PROVE Old(f, i) < Old(f, j)
      <3>1. Old(f, i) = B[i] /\ Old(f, j) = A[k]
        BY <1>1, <2>3
      <3>2. B[i] < p /\ A[k] >= p /\ B[i] \in 1 .. m /\ A[k] \in 1 .. m
        BY <1>2, <1>3, <2>3
      <3>3. QED
        BY <1>1, <3>1, <3>2
    <2>4. ASSUME NEW k \in 1 .. na, i = nb + 1 + k, j \in 1 .. nb PROVE FALSE
      BY <1>1, <1>8, <2>4
    <2>5. ASSUME NEW k \in 1 .. na, i = nb + 1 + k, NEW l \in 1 .. na, j = nb + 1 + l
          PROVE  Old(f, i) < Old(f, j)
      <3>1. k < l
        BY <1>1, <1>8, <2>5
      <3>2. QED
        BY <1>1, <1>3, <2>5, <3>1
    <2>6. QED
      BY <2>1, <2>2, <2>3, <2>4, <2>5
  <1>9. ASSUME NEW k \in K PROVE \E i \in 1 .. n : Old(f, i) = k
    <2>1. k \in 1 .. m
      BY <1>4
    <2>2. CASE k < p
      <3>1. PICK i \in 1 .. nb : B[i] = k
        BY <1>2, <2>1, <2>2
      <3>2. QED
        BY <1>1, <1>6, <3>1
    <2>3. CASE ~(k < p)
      <3>1. k >= p
        BY <1>1, <2>1, <2>3
      <3>2. PICK i \in 1 .. na : A[i] = k
        BY <1>3, <2>1, <3>1
      <3>3. QED
        BY <1>1, <1>6, <3>2
    <2>4. QED
      BY <2>2, <2>3
  <1>10. QED
    BY <1>1, <1>7, <1>8, <1>9 DEF OldInOrder, nb, na, n, K, B, A

(* What a loop collects is determined by the set, and two sets in           *)
(* order-preserving correspondence are collected in correspondence.         *)
Increasing(c, m) == \A i, j \in 1 .. m : i < j => c[i] < c[j]

Agree(c, d, m, l) == m =< l /\ \A i \in 1 .. m : c[i] = d[i]

LEMMA SameUpTo ==
  ASSUME NEW m \in Nat, NEW l \in Nat, NEW c, NEW d,
         \A i \in 1 .. m : c[i] \in Nat, \A i \in 1 .. l : d[i] \in Nat,
         Increasing(c, m), Increasing(d, l),
         \A i \in 1 .. m : \E j \in 1 .. l : d[j] = c[i],
         \A i \in 1 .. l : \E j \in 1 .. m : c[j] = d[i]
  PROVE  Agree(c, d, m, l)
  <1> DEFINE S == {k \in Nat : k =< m => k =< l /\ \A i \in 1 .. k : c[i] = d[i]}
  <1>1. 0 \in S
    OBVIOUS
  <1>2. ASSUME NEW k \in Nat, k \in S PROVE k + 1 \in S
    <2>1. SUFFICES ASSUME k + 1 =< m
                   PROVE  k + 1 =< l /\ \A i \in 1 .. k + 1 : c[i] = d[i]
      OBVIOUS
    <2>2. k =< m /\ k =< l /\ (\A i \in 1 .. k : c[i] = d[i]) /\ k + 1 \in 1 .. m
      BY <1>2, <2>1
    <2> HIDE DEF S
    <2>3. PICK j \in 1 .. l : d[j] = c[k + 1]
      BY <2>2
    <2>4. ~(j =< k)
      <3>1. SUFFICES ASSUME j =< k PROVE FALSE
        OBVIOUS
      <3>2. j \in 1 .. k /\ j \in 1 .. m /\ j < k + 1
        BY <2>2, <3>1
      <3>3. c[j] < c[k + 1] /\ c[j] = d[j] /\ c[j] \in Nat
        BY <2>2, <3>2 DEF Increasing
      <3>4. QED
        BY <2>3, <3>3
    <2>5. k + 1 =< j /\ k + 1 \in 1 .. l /\ k + 1 =< l
      BY <2>3, <2>4
    <2>6. d[k + 1] =< c[k + 1]
      <3>1. k + 1 = j \/ k + 1 < j
        BY <2>5
      <3>2. k + 1 < j => d[k + 1] < d[j]
        BY <2>5 DEF Increasing
      <3>3. d[k + 1] \in Nat /\ d[j] \in Nat
        BY <2>5
      <3>4. QED
        BY <2>3, <3>1, <3>2, <3>3
    <2>7. PICK i \in 1 .. m : c[i] = d[k + 1]
      BY <2>5
    <2>8. ~(i =< k)
      <3>1. SUFFICES ASSUME i =< k PROVE FALSE
        OBVIOUS
      <3>2. i \in 1 .. k /\ i \in 1 .. l /\ i < k + 1
        BY <2>2, <3>1
      <3>3. d[i] < d[k + 1] /\ c[i] = d[i] /\ d[i] \in Nat
        BY <2>2, <2>5, <3>2 DEF Increasing
      <3>4. QED
        BY <2>7, <3>3
    <2>9. c[k + 1] =< d[k + 1]
      <3>1. k + 1 = i \/ k + 1 < i
        BY <2>7, <2>8
      <3>2. k + 1 < i => c[k + 1] < c[i]
        BY <2>2 DEF Increasing
      <3>3. c[k + 1] \in Nat /\ c[i] \in Nat
        BY <2>2
      <3>4. QED
        BY <2>7, <3>1, <3>2, <3>3
    <2>10. c[k + 1] = d[k + 1]
      <3>1. c[k + 1] \in Nat /\ d[k + 1] \in Nat
        BY <2>2, <2>5
      <3>2. QED
        BY <2>6, <2>9, <3>1
    <2>11. \A i0 \in 1 .. k + 1 : i0 \in 1 .. k \/ i0 = k + 1
      OBVIOUS
    <2>12. QED
      BY <2>2, <2>5, <2>10, <2>11
  <1>3. m \in S
    <2> HIDE DEF S
    <2>1. QED
      BY <1>1, <1>2, SetInduction
  <1>4. QED
    BY <1>3 DEF Agree

Corresponding(o, n, S, m, T) ==
  /\ n \in Nat /\ m \in Nat /\ S \subseteq 1 .. n /\ T \subseteq 1 .. m
  /\ \A i \in S : o[i] \in T
  /\ \A i, j \in S : i < j => o[i] < o[j]
  /\ \A k \in T : \E i \in S : o[i] = k

LEMMA CollectSame ==
  ASSUME NEW o, NEW n, NEW S, NEW m, NEW T, Corresponding(o, n, S, m, T)
  PROVE  /\ Len(Collect(n, S)) = Len(Collect(m, T))
         /\ Len(Collect(n, S)) \in Nat
         /\ \A i \in 1 .. Len(Collect(n, S)) :
              /\ Collect(n, S)[i] \in S /\ Collect(m, T)[i] \in T
              /\ Collect(m, T)[i] = o[Collect(n, S)[i]]
  <1> DEFINE c == Collect(n, S)
             d == Collect(m, T)
             e == [i \in 1 .. Len(c) |-> o[c[i]]]
             l == Len(c)
             k == Len(d)
  <1>1. /\ n \in Nat /\ m \in Nat /\ S \subseteq 1 .. n /\ T \subseteq 1 .. m
        /\ \A i \in S : o[i] \in T
        /\ \A i, j \in S : i < j => o[i] < o[j]
        /\ \A x \in T : \E i \in S : o[i] = x
    BY DEF Corresponding
  <1>2. /\ l \in Nat
        /\ \A i \in 1 .. l : c[i] \in S
        /\ \A x \in S : x \in 1 .. n => \E i \in 1 .. l : c[i] = x
        /\ \A i, j \in 1 .. l : i < j => c[i] < c[j]
    BY <1>1, CollectLoop DEF Collected
  <1>3. /\ k \in Nat
        /\ \A i \in 1 .. k : d[i] \in T
        /\ \A x \in T : x \in 1 .. m => \E i \in 1 .. k : d[i] = x
        /\ \A i, j \in 1 .. k : i < j => d[i] < d[j]
    <2>1. Collected(d, m, T)
      BY <1>1, CollectLoop
    <2> HIDE DEF d
    <2>2. QED
      BY <2>1 DEF Collected
  <1>4. \A i \in 1 .. l : e[i] = o[c[i]]
    OBVIOUS
  <1> HIDE DEF c, d, e, l, k
  <1>5. (\A i \in 1 .. l : e[i] \in Nat) /\ (\A i \in 1 .. k : d[i] \in Nat)
    <2>1. T \subseteq Nat
      BY <1>1
    <2>2. QED
      BY <1>1, <1>2, <1>3, <1>4, <2>1
  <1>6. Increasing(e, l) /\ Increasing(d, k)
    BY <1>1, <1>2, <1>3, <1>4 DEF Increasing
  <1>7. \A i \in 1 .. l : \E j \in 1 .. k : d[j] = e[i]
    BY <1>1, <1>2, <1>3, <1>4
  <1>8. \A i \in 1 .. k : \E j \in 1 .. l : e[j] = d[i]
    <2>1. ASSUME NEW i \in 1 .. k PROVE \E j \in 1 .. l : e[j] = d[i]
      <3>1. PICK x \in S : o[x] = d[i]
        BY <1>1, <1>3
      <3>2. PICK j \in 1 .. l : c[j] = x
        BY <1>1, <1>2
      <3>3. QED
        BY <1>4, <3>1, <3>2
    <2>2. QED
      BY <2>1
  <1>9. l =< k /\ \A i \in 1 .. l : e[i] = d[i]
    <2>1. l \in Nat /\ k \in Nat
      BY <1>2, <1>3
    <2>2. Agree(e, d, l, k)
      BY ONLY <2>1, <1>5, <1>6, <1>7, <1>8, SameUpTo
    <2>3. QED
      BY <2>2 DEF Agree
  <1>10. k =< l
    <2>1. l \in Nat /\ k \in Nat
      BY <1>2, <1>3
    <2>2. Agree(d, e, k, l)
      BY ONLY <2>1, <1>5, <1>6, <1>7, <1>8, SameUpTo
    <2>3. QED
      BY <2>2 DEF Agree
  <1>11. l = k
    BY <1>2, <1>3, <1>9, <1>10
  <1>12. \A i \in 1 .. l : c[i] \in S /\ d[i] \in T /\ d[i] = o[c[i]]
    BY <1>2, <1>3, <1>4, <1>9, <1>11
  <1>13. QED
    BY <1>2, <1>11, <1>12 DEF c, d, l, k

(* A kept section keeps its name and its header, but for where it lies and  *)
(* the section numbers in it, and for the count in section 0.               *)
LEMMA FieldsKept ==
  ASSUME NEW data, NEW f, NEW b, Saving(data, f, b),
         NEW i \in 1 .. Len(Table(f, b)),
         NEW t, t = Table(f, b)[i], NEW y, y = SavedHdrs(f, b)[i]
  PROVE  /\ t \in Shdrs /\ y \in Shdrs
         /\ y.name = t.name /\ y.type = t.type /\ y.alloc = t.alloc /\ y.off = t.off
         /\ y.info = t.info /\ y.align = t.align
         /\ i # 1 \/ Len(Before(f)) = 0 => y = t
  <1>1. Table(f, b) \in Seq(Shdrs)
    BY TableParts DEF Saving, TableLaid
  <1>2. t \in Shdrs
    BY <1>1, ElementOfSeq
  <1>3. CASE i # 1 \/ Len(Before(f)) = 0
    <2>1. y = t
      BY <1>3, HeaderKept
    <2>2. QED
      BY <1>2, <2>1
  <1>4. CASE ~(i # 1 \/ Len(Before(f)) = 0)
    <2>1. CASE Len(Table(f, b)) < XIndex
      <3>1. y = t
        BY <2>1, SavedHeaders DEF HdrsSaved
      <3>2. QED
        BY <1>2, <3>1
    <2>2. CASE ~(Len(Table(f, b)) < XIndex)
      <3>1. y = Count0(f, b) /\ i = 1 /\ Len(Table(f, b)) \in Nat /\ Len(Table(f, b)) >= 2
        BY <1>4, <2>2, SavedHeaders DEF HdrsSaved
      <3>2. PICK n : n = Len(Table(f, b)) /\ n \in Nat /\ n - 1 \in Nat
        BY <3>1
      <3>3. y = [t EXCEPT !.size = n, !.link = n - 1]
        BY <3>1, <3>2 DEF Count0
      <3>4. n \in Nat /\ n - 1 \in Nat
        BY <3>2
      <3>5. /\ y \in Shdrs
            /\ y.name = t.name /\ y.type = t.type /\ y.alloc = t.alloc /\ y.off = t.off
            /\ y.info = t.info /\ y.align = t.align
        BY ONLY <1>2, <3>3, <3>4 DEF Shdrs
      <3>6. QED
        BY <1>2, <1>4, <3>5
    <2>3. QED
      BY <2>1, <2>2
  <1>5. QED
    BY <1>3, <1>4

SectionKept(f, b, g, i) ==
  LET h  == Parse(g)
      x  == f.shdrs[Old(f, i)]
      y  == h.shdrs[i]
      nb == Len(Before(f))
  IN  /\ h.names[i] = f.names[Old(f, i)]
      /\ x \in Shdrs /\ y \in Shdrs
      /\ y.name = x.name /\ y.type = x.type /\ y.alloc = x.alloc /\ y.align = x.align
      /\ y.info = IF x.type = "REL" THEN NewIndex(f, x.info) ELSE x.info
      /\ i # 1 \/ nb = 0 => y.size = x.size /\ y.link = NewIndex(f, x.link)
      /\ i =< nb => y.off = x.off
      /\ ~(i =< nb) => /\ \E j \in 1 .. Len(After(f)) :
                            i = nb + 1 + j /\ y.off = Moved(f, b).hdrs[j].off
                       /\ y.off >= ContentEnd(f) + b.len
                       /\ Lies(g, SectionData(f, Old(f, i)), y.off)

LEMMA KeepingSections ==
  ASSUME NEW data, NEW f, NEW b, Saving(data, f, b), NEW g, g = Save(f, b),
         NEW i \in 1 .. Len(Table(f, b)), Old(f, i) \in Kept(f)
  PROVE  SectionKept(f, b, g, i)
  <1> DEFINE h  == Parse(g)
             x  == f.shdrs[Old(f, i)]
             y  == h.shdrs[i]
             t  == Table(f, b)[i]
             nb == Len(Before(f))
             na == Len(After(f))
  <1>0. Input(data, f, b)
    BY DEF Saving
  <1>1. OldInOrder(f)
    BY <1>0, InputFacts, OldOrder
  <1>2. TableLaid(f, b)
    BY <1>0, TableParts
  <1>3. i # nb + 1 /\ i # nb + na + 2 /\ i \in 1 .. nb + na + 2 /\ nb \in Nat /\ na \in Nat
    BY <1>1, <1>2 DEF OldInOrder, TableLaid
  <1>4. NamesBack(f, h)
    BY NamingBack
  <1>5. y = SavedHdrs(f, b)[i]
    BY ReadingBack DEF ReadBack
  <1>6. x \in Shdrs
    <2>1. Old(f, i) \in 1 .. Len(f.shdrs)
      BY <1>0, InputFacts DEF Kept
    <2>2. QED
      BY <1>0, <2>1, InputFacts
  <1>7. /\ t \in Shdrs /\ y \in Shdrs
        /\ y.name = t.name /\ y.type = t.type /\ y.alloc = t.alloc /\ y.off = t.off
        /\ y.info = t.info /\ y.align = t.align
        /\ i # 1 \/ nb = 0 => y = t
    <2> HIDE DEF y, t, nb
    <2>1. t = Table(f, b)[i]
      BY DEF t
    <2>2. QED
      BY <1>5, <2>1, FieldsKept DEF nb
  <1>8. CASE i \in 1 .. nb
    <2>1. Old(f, i) = Before(f)[i] /\ h.names[i] = f.names[Before(f)[i]]
      BY <1>1, <1>4, <1>8 DEF OldInOrder, NamesBack
    <2>2. t = Relinked(f, x)
      BY <1>2, <1>8, <2>1 DEF TableLaid
    <2>3. /\ t.name = x.name /\ t.type = x.type /\ t.alloc = x.alloc /\ t.off = x.off
          /\ t.size = x.size /\ t.align = x.align /\ t.link = NewIndex(f, x.link)
          /\ t.info = IF x.type = "REL" THEN NewIndex(f, x.info) ELSE x.info
      <3> HIDE DEF x, t
      <3>1. QED
        BY <1>6, <2>2 DEF Relinked, Shdrs
    <2>4. i =< nb
      BY <1>8
    <2> HIDE DEF x, y, t, nb, h
    <2>5. QED
      BY <1>6, <1>7, <2>1, <2>3, <2>4 DEF SectionKept, x, y, h, nb
  <1>9. CASE i \notin 1 .. nb
    <2>1. PICK j \in 1 .. na : i = nb + 1 + j
      <3>1. i - (nb + 1) \in 1 .. na /\ i = nb + 1 + (i - (nb + 1))
        BY <1>3, <1>9
      <3>2. QED
        BY <3>1
    <2> DEFINE v == Moved(f, b).hdrs[j]
               d == SectionData(f, Old(f, i))
    <2>2. Old(f, i) = After(f)[j] /\ h.names[i] = f.names[After(f)[j]]
      BY <1>1, <1>4, <2>1 DEF OldInOrder, NamesBack
    <2>3. t = Relinked(f, v)
      BY <1>2, <2>1 DEF TableLaid
    <2>4. /\ v \in Shdrs /\ v = [x EXCEPT !.off = v.off] /\ v.off >= Len(Base(f, b))
          /\ Lies(Moved(f, b).out, d, v.off) /\ Moved(f, b).out \in Seq(Cells(data, b))
      <3>1. Placed(f, Base(f, b), na, Moved(f, b), Cells(data, b))
        BY <1>0, LaidMoved
      <3>2. Moved(f, b).hdrs \in Seq(Shdrs) /\ Len(Moved(f, b).hdrs) = na
        BY <3>1 DEF Placed
      <3>3. v \in Shdrs
        BY <3>2, ElementOfSeq
      <3>4. QED
        BY <2>2, <3>1, <3>3 DEF Placed
    <2>5. /\ t.name = x.name /\ t.type = x.type /\ t.alloc = x.alloc /\ t.off = v.off
          /\ t.size = x.size /\ t.align = x.align /\ t.link = NewIndex(f, x.link)
          /\ t.info = IF x.type = "REL" THEN NewIndex(f, x.info) ELSE x.info
      <3> HIDE DEF x, t, v
      <3>1. v.off \in Nat
        BY <2>4 DEF Shdrs
      <3>2. /\ v.name = x.name /\ v.type = x.type /\ v.alloc = x.alloc /\ v.link = x.link
            /\ v.size = x.size /\ v.align = x.align /\ v.info = x.info
        BY <1>6, <2>4, <3>1 DEF Shdrs
      <3>3. /\ t.name = v.name /\ t.type = v.type /\ t.alloc = v.alloc /\ t.off = v.off
            /\ t.size = v.size /\ t.align = v.align /\ t.link = NewIndex(f, v.link)
            /\ t.info = IF v.type = "REL" THEN NewIndex(f, v.info) ELSE v.info
        BY <2>3, <2>4 DEF Relinked, Shdrs
      <3>4. QED
        BY <3>2, <3>3
    <2>6. v.off >= ContentEnd(f) + b.len /\ v.off \in Nat \ {0}
      <3>1. Len(Base(f, b)) = ContentEnd(f) + b.len /\ ContentEnd(f) \in 1 .. Len(data)
            /\ b.len \in Nat /\ Len(data) \in Nat
        BY <1>0, LaidBase, InputFacts
      <3>2. v.off \in Nat
        BY <2>4 DEF Shdrs
      <3> HIDE DEF v
      <3>3. QED
        BY <2>4, <3>1, <3>2
    <2>7. Lies(g, d, v.off)
      <3>1. Sequence(d)
        <4>1. After(f)[j] \in 1 .. Len(f.shdrs) /\ DataReadable(f, After(f)[j])
              /\ Accepts(data) /\ f = Parse(data) /\ data \in Seq(Cells(data, b))
          BY <1>0, InputFacts
        <4>2. Sequence(SectionData(f, After(f)[j]))
          BY <4>1, DataOfSection
        <4>3. QED
          BY <2>2, <4>2
      <3>2. Begins(Layout(f, b).out, Moved(f, b).out) /\ Sequence(Layout(f, b).out)
        BY <1>0, LaidAll DEF LaidOut
      <3>3. Sequence(Moved(f, b).out)
        BY <2>4, InSeq
      <3> HIDE DEF d, v
      <3>4. Lies(Layout(f, b).out, d, v.off)
        BY <2>4, <2>6, <3>1, <3>2, <3>3, BeginsLies
      <3>5. QED
        BY <2>6, <3>1, <3>4, SavedCells DEF Written
    <2>8. ~(i =< nb) /\ (i # 1 => y = t) /\ i # 1
      BY <1>3, <1>7, <2>1
    <2> HIDE DEF x, y, t, nb, h, v, d, na
    <2>9. /\ y.name = x.name /\ y.type = x.type /\ y.alloc = x.alloc /\ y.align = x.align
          /\ y.info = IF x.type = "REL" THEN NewIndex(f, x.info) ELSE x.info
          /\ y.size = x.size /\ y.link = NewIndex(f, x.link) /\ y.off = v.off
      BY <2>5, <2>8
    <2>10. QED
      BY <1>6, <1>7, <2>1, <2>2, <2>6, <2>7, <2>8, <2>9
         DEF SectionKept, x, y, h, nb, v, d, na
  <1>10. QED
    BY <1>8, <1>9

=============================================================================

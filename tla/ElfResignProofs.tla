--------------------------- MODULE ElfResignProofs ---------------------------
(***************************************************************************)
(* Proofs that signatures do not pile up: saveELFSignature puts the note   *)
(* of an image it has written right before the tables, and from then on    *)
(* signing with a bundle of the same length changes nothing but the        *)
(* bundle.                                                                 *)
(***************************************************************************)
EXTENDS ElfVerifyProofs

(* What a loop collects of an interval. *)
LEMMA CollectedRange ==
  ASSUME NEW n \in Nat, NEW lo \in Nat, NEW l \in Nat, lo + l =< n,
         NEW S, S = (lo + 1) .. (lo + l), NEW c, Collected(c, n, S)
  PROVE  Len(c) = l /\ \A i \in 1 .. l : c[i] = lo + i
  <1> DEFINE m == Len(c)
             d == [i \in 1 .. l |-> lo + i]
  <1>1. /\ m \in Nat /\ \A i \in 1 .. m : c[i] \in S /\ c[i] \in 1 .. n
        /\ \A x \in S : x \in 1 .. n => \E i \in 1 .. m : c[i] = x
        /\ \A i, j \in 1 .. m : i < j => c[i] < c[j]
    BY DEF Collected
  <1>2. \A i \in 1 .. l : d[i] \in Nat /\ d[i] \in S /\ d[i] \in 1 .. n
    OBVIOUS
  <1>3. Increasing(c, m) /\ Increasing(d, l)
    BY <1>1 DEF Increasing
  <1>4. \A i \in 1 .. m : \E j \in 1 .. l : d[j] = c[i]
    <2>1. \A x \in S : x - lo \in 1 .. l /\ d[x - lo] = x
      OBVIOUS
    <2>2. QED
      BY <1>1, <2>1
  <1>5. \A i \in 1 .. l : \E j \in 1 .. m : c[j] = d[i]
    BY <1>1, <1>2
  <1>6. \A i \in 1 .. m : c[i] \in Nat
    BY <1>1
  <1>7. \A i \in 1 .. l : d[i] = lo + i
    OBVIOUS
  <1> HIDE DEF m, d
  <1>8. Agree(c, d, m, l) /\ Agree(d, c, l, m)
    BY <1>1, <1>2, <1>3, <1>4, <1>5, <1>6, SameUpTo
  <1>9. QED
    BY <1>1, <1>7, <1>8 DEF Agree, m

-----------------------------------------------------------------------------
(* The sections a second signing keeps are those the first one kept.        *)
LEMMA KeptBack ==
  ASSUME NEW f, NEW h, Sorted(f), NamesBack(f, h), NEW n, n = Len(h.names)
  PROVE  Kept(h) = {i \in 1 .. n : i # Len(Before(f)) + 1 /\ i # n}
  <1> DEFINE nb == Len(Before(f))
             na == Len(After(f))
  <1>1. /\ nb \in Nat /\ na \in Nat /\ n = nb + na + 2
        /\ \A i \in 1 .. nb : h.names[i] = f.names[Before(f)[i]]
        /\ h.names[nb + 1] = SIG
        /\ \A i \in 1 .. na : h.names[nb + 1 + i] = f.names[After(f)[i]]
        /\ h.names[n] = SHSTRTAB
    BY DEF NamesBack
  <1>2. \A i \in 1 .. nb : f.names[Before(f)[i]] \notin {SIG, SHSTRTAB}
    BY DEF Sorted, Collected, Kept
  <1>3. \A i \in 1 .. na : f.names[After(f)[i]] \notin {SIG, SHSTRTAB}
    BY DEF Sorted, Collected, Kept
  <1> HIDE DEF nb, na
  <1>4. \A i \in 1 .. n : \/ i \in 1 .. nb
                          \/ i = nb + 1
                          \/ i - (nb + 1) \in 1 .. na /\ i = nb + 1 + (i - (nb + 1))
                          \/ i = n
    BY <1>1
  <1>5. ASSUME NEW i \in 1 .. n, i # nb + 1, i # n
        PROVE  h.names[i] \notin {SIG, SHSTRTAB}
    <2>1. CASE i \in 1 .. nb
      BY <1>1, <1>2, <2>1
    <2>2. CASE i - (nb + 1) \in 1 .. na /\ i = nb + 1 + (i - (nb + 1))
      <3>1. PICK j \in 1 .. na : i = nb + 1 + j
        BY <2>2
      <3>2. QED
        BY <1>1, <1>3, <3>1
    <2>3. QED
      BY <1>4, <1>5, <2>1, <2>2
  <1>6. QED
    BY <1>1, <1>5 DEF Kept, nb

(* If the note is before the first table, the sections are in the order     *)
(* they will be in again.                                                   *)
Settled(h, nb, na) ==
  /\ nb \in Nat /\ na \in Nat /\ Len(h.names) = nb + na + 2
  /\ Len(Before(h)) = nb /\ \A i \in 1 .. nb : Before(h)[i] = i
  /\ Len(After(h)) = na /\ \A i \in 1 .. na : After(h)[i] = nb + 1 + i
  /\ Shstrtab(h) = nb + na + 2

LEMMA Settles ==
  ASSUME NEW data, NEW f, NEW b, Saving(data, f, b), NEW g, g = Save(f, b),
         NEW h, h = Parse(g), NoteInPlace(g)
  PROVE  Settled(h, Len(Before(f)), Len(After(f)))
  <1> DEFINE nb == Len(Before(f))
             na == Len(After(f))
             n == nb + na + 2
  <1>1. Sorted(f)
    BY InputFacts DEF Saving
  <1>2. NamesBack(f, h)
    BY NamingBack
  <1>3. nb \in Nat /\ na \in Nat /\ Len(h.names) = n /\ Sequence(h.names)
    BY <1>2 DEF NamesBack
  <1>4. Shstrtab(h) = n
    <2>1. Shstrtab(h) = Shstrndx(g) + 1
      BY WellFormedBack
    <2>2. Shstrndx(g) = Len(Table(f, b)) - 1
      BY ReadingBack DEF ReadBack
    <2>3. Len(Table(f, b)) = n
      BY TableParts DEF TableLaid, Saving
    <2> HIDE DEF n
    <2>4. n \in Nat
      BY <1>3 DEF n
    <2>5. QED
      BY <2>1, <2>2, <2>3, <2>4
  <1>5. InsertPos(h) = nb + 1 + 1
    BY FindingBack DEF NoteBack, NoteInPlace
  <1>6. Kept(h) = {i \in 1 .. Len(h.names) : i # nb + 1 /\ i # Len(h.names)}
    BY <1>1, <1>2, KeptBack
  <1>7. /\ Collected(Before(h), Len(h.names), {i \in Kept(h) : i < InsertPos(h)})
        /\ Collected(After(h), Len(h.names), {i \in Kept(h) : i >= InsertPos(h)})
    BY <1>3, Order DEF Sorted
  <1> HIDE DEF nb, na
  <1>8. {i \in Kept(h) : i < InsertPos(h)} = (0 + 1) .. (0 + nb)
    BY <1>3, <1>5, <1>6
  <1>9. {i \in Kept(h) : i >= InsertPos(h)} = ((nb + 1) + 1) .. ((nb + 1) + na)
    BY <1>3, <1>5, <1>6
  <1>10. Len(Before(h)) = nb /\ \A i \in 1 .. nb : Before(h)[i] = 0 + i
    <2>1. Collected(Before(h), n, (0 + 1) .. (0 + nb))
      BY <1>3, <1>7, <1>8
    <2>2. n \in Nat /\ 0 + nb =< n
      BY <1>3
    <2> HIDE DEF n
    <2>3. QED
      BY <1>3, <2>1, <2>2, CollectedRange
  <1>11. Len(After(h)) = na /\ \A i \in 1 .. na : After(h)[i] = (nb + 1) + i
    <2> DEFINE lo == nb + 1
    <2>1. Collected(After(h), n, (lo + 1) .. (lo + na))
      BY <1>3, <1>7, <1>9
    <2>2. n \in Nat /\ lo + na =< n /\ lo \in Nat
      BY <1>3
    <2> HIDE DEF n, lo
    <2>3. Len(After(h)) = na /\ \A i \in 1 .. na : After(h)[i] = lo + i
      BY <1>3, <2>1, <2>2, CollectedRange
    <2>4. QED
      BY <2>3 DEF lo
  <1>12. \A i \in 1 .. nb : Before(h)[i] = i
    BY <1>3, <1>10
  <1>13. QED
    BY <1>3, <1>4, <1>10, <1>11, <1>12 DEF Settled, nb, na

(* .shstrtab is the last section of what was written.                       *)
LEMMA LastTable ==
  ASSUME NEW data, NEW f, NEW b, Saving(data, f, b), NEW h, h = Parse(Save(f, b))
  PROVE  Len(h.names) \in Nat /\ Shstrtab(h) = Len(h.names) /\ h.names[Len(h.names)] = SHSTRTAB
  <1> DEFINE g == Save(f, b)
             n == Len(Table(f, b))
  <1>1. Shstrtab(h) = Shstrndx(g) + 1
    BY WellFormedBack
  <1>2. Shstrndx(g) = n - 1 /\ Len(h.names) = n /\ n \in Nat
    BY ReadingBack DEF ReadBack
  <1>3. n = Len(Before(f)) + Len(After(f)) + 2
    BY TableParts DEF TableLaid, Saving
  <1>4. h.names[n] = SHSTRTAB
    BY <1>3, NamingBack DEF NamesBack
  <1> HIDE DEF n, g
  <1>5. QED
    BY <1>1, <1>2, <1>4

Tabs == {SYMTAB, STRTAB, SHSTRTAB}

(* So the tables that move begin with the one the note goes before. *)
LEMMA FirstTable ==
  ASSUME NEW f, Sorted(f), OneTable(f), Shstrtab(f) = Len(f.names),
         f.names[Len(f.names)] = SHSTRTAB, Len(After(f)) > 0
  PROVE  f.names[After(f)[1]] \in Tabs
  <1> DEFINE n == Len(f.names)
             p == InsertPos(f)
             A == After(f)
             m == Len(A)
  <1>1. /\ n \in Nat /\ p \in 1 .. n + 1 /\ m \in Nat
        /\ p =< n => f.names[p] \in Tabs
        /\ \A i \in 1 .. m : A[i] \in Kept(f) /\ A[i] >= p /\ A[i] \in 1 .. n
        /\ \A x \in Kept(f) : x >= p /\ x \in 1 .. n => \E i \in 1 .. m : A[i] = x
        /\ \A i, j \in 1 .. m : i < j => A[i] < A[j]
    BY DEF Sorted, Collected, Tabs
  <1>2. 1 \in 1 .. m
    BY <1>1
  <1> HIDE DEF p, A, m
  <1>3. A[1] \in Kept(f) /\ A[1] >= p /\ A[1] \in 1 .. n
    BY <1>1, <1>2
  <1>4. p \in 1 .. n /\ p =< n
    BY <1>1, <1>3
  <1>5. A[1] # n
    <2>1. n \notin Kept(f)
      BY DEF Kept
    <2>2. QED
      BY <1>3, <2>1
  <1>6. p # n
    BY <1>1, <1>3, <1>5
  <1>7. f.names[p] # SHSTRTAB
    BY <1>4, <1>6 DEF OneTable
  <1>8. f.names[p] # SIG
    <2>1. SIG \notin Tabs
      BY DEF SIG, Tabs, SYMTAB, STRTAB, SHSTRTAB
    <2>2. QED
      BY <1>1, <1>4, <2>1
  <1>9. p \in Kept(f)
    BY <1>4, <1>7, <1>8 DEF Kept
  <1> HIDE DEF n
  <1>10. PICK i \in 1 .. m : A[i] = p
    BY <1>1, <1>4, <1>9
  <1>11. A[1] = p
    <2>1. CASE i = 1
      BY <1>10, <2>1
    <2>2. CASE i # 1
      <3>1. 1 < i
        BY <2>2
      <3>2. A[1] < A[i]
        BY <1>1, <1>2, <3>1
      <3>3. QED
        BY <1>1, <1>3, <1>10, <3>2
    <2>3. QED
      BY <2>1, <2>2
  <1>12. QED
    BY <1>1, <1>4, <1>11 DEF A

(* The note of an image that was written before goes where it stays.        *)
LEMMA InPlaceBack ==
  ASSUME NEW first, NEW e, NEW c, Saving(first, e, c),
         NEW data, data = Save(e, c), NEW f, f = Parse(data), NEW b, Saving(data, f, b)
  PROVE  NoteInPlace(Save(f, b))
  <1> DEFINE h == Parse(Save(f, b))
             nb == Len(Before(f))
             na == Len(After(f))
             n == nb + na + 2
             p == InsertPos(h)
  <1>1. Sorted(f)
    BY InputFacts DEF Saving
  <1>2. NamesBack(f, h)
    BY NamingBack
  <1>3. /\ nb \in Nat /\ na \in Nat /\ Len(h.names) = n /\ Sequence(h.names)
        /\ \A i \in 1 .. nb : h.names[i] = f.names[Before(f)[i]]
        /\ h.names[nb + 1] = SIG
        /\ \A i \in 1 .. na : h.names[nb + 1 + i] = f.names[After(f)[i]]
        /\ h.names[n] = SHSTRTAB
    BY <1>2 DEF NamesBack
  <1>4. FindSection(h, SIG) = nb + 1
    BY FindingBack DEF NoteBack
  <1>5. /\ p \in 1 .. n + 1
        /\ \A i \in 1 .. p - 1 : h.names[i] \notin Tabs
        /\ p =< n => h.names[p] \in Tabs
    BY <1>3, Order DEF Sorted, Tabs
  <1>6. h.names[nb + 2] \in Tabs
    <2>1. CASE na = 0
      BY <1>3, <2>1 DEF Tabs
    <2>2. CASE na # 0
      <3>1. na > 0 /\ 1 \in 1 .. na
        BY <1>3, <2>2
      <3>2. f.names[After(f)[1]] \in Tabs
        <4>1. OneTable(f)
          BY OneTableBack
        <4>2. Shstrtab(f) = Len(f.names) /\ f.names[Len(f.names)] = SHSTRTAB
          BY LastTable
        <4>3. QED
          BY <1>1, <3>1, <4>1, <4>2, FirstTable
      <3>3. h.names[nb + 1 + 1] = f.names[After(f)[1]]
        BY <1>3, <3>1
      <3>4. nb + 1 + 1 = nb + 2
        BY <1>3
      <3>5. QED
        BY <3>2, <3>3, <3>4
    <2>3. QED
      BY <2>1, <2>2
  <1>7. ASSUME NEW i \in 1 .. nb + 1 PROVE h.names[i] \notin Tabs
    <2>1. CASE i \in 1 .. nb
      <3> DEFINE x == Before(f)[i]
                 q == InsertPos(f)
      <3>1. x \in 1 .. Len(f.names) /\ x < q /\ q \in 1 .. Len(f.names) + 1
            /\ Len(f.names) \in Nat
        BY <1>1, <2>1 DEF Sorted, Collected
      <3>2. \A j \in 1 .. q - 1 : f.names[j] \notin Tabs
        BY <1>1 DEF Sorted, Tabs
      <3> HIDE DEF x, q
      <3>3. x \in 1 .. q - 1
        BY <3>1
      <3>4. f.names[x] \notin Tabs
        BY <3>2, <3>3
      <3>5. QED
        BY <1>3, <2>1, <3>4 DEF x
    <2>2. CASE i = nb + 1
      <3>1. SIG \notin Tabs
        BY DEF SIG, Tabs, SYMTAB, STRTAB, SHSTRTAB
      <3>2. QED
        BY <1>3, <2>2, <3>1
    <2>3. QED
      BY <1>3, <2>1, <2>2
  <1> HIDE DEF nb, na, p, h
  <1>8. ~(nb + 2 < p)
    <2>1. nb + 2 < p => nb + 2 \in 1 .. p - 1
      BY <1>3, <1>5
    <2>2. QED
      BY <1>5, <1>6, <2>1
  <1>9. ~(p < nb + 2)
    <2>1. p < nb + 2 => p =< n /\ p \in 1 .. nb + 1
      BY <1>3, <1>5
    <2>2. QED
      BY <1>5, <1>7, <2>1
  <1>10. p = nb + 1 + 1
    BY <1>3, <1>5, <1>8, <1>9
  <1>11. QED
    BY <1>4, <1>10 DEF NoteInPlace, h, p

-----------------------------------------------------------------------------
(* Where the content that stays ends, when no count is taken for data.      *)
Fits(f) ==
  /\ f.shdrs[1].size = 0
  /\ Len(NewOrder(f)) < XIndex
  /\ f.phdrs = <<>> => f.ehdr.phoff = 0

LEMMA EndOfAll ==
  ASSUME NEW data, Accepts(data), NEW f, f = Parse(data), Stays(data, f), Fits(f)
  PROVE  ContentEnd(f) = Max(Ends(f)) /\ ContentEnd(f) \in Nat
  <1> DEFINE c == ContentEnd(f)
             x == Max(Ends(f))
             B == Before(f)
  <1>1. EndCells(data, f)
    BY EndingCells
  <1>2. /\ Len(data) \in Nat /\ Len(f.phdrs) \in Nat /\ f.ehdr.phoff \in Nat /\ f.data = data
        /\ f.ehdr.shoff \in Nat /\ Len(B) \in Nat
        /\ ToSet(B) = {B[i] : i \in 1 .. Len(B)}
    BY <1>1 DEF EndCells
  <1>3. Sequence(f.phdrs)
    BY <1>1 DEF EndCells
  <1>4. ToSet(f.phdrs) = {f.phdrs[i] : i \in 1 .. Len(f.phdrs)}
    BY <1>3, SeqLen
  <1>5. c \in 1 .. Len(data)
    BY <1>2, ContentEnds DEF EndSound
  <1>6. x \in Ends(f) /\ x \in Nat
    BY FurthestEnd
  <1>7. \A y \in Ends(f) : y =< c
    <2>1. 1 =< c
      BY <1>2, <1>5
    <2>2. f.ehdr.phoff > 0 => f.ehdr.phoff + Len(f.phdrs) =< c
      <3>1. CASE Len(f.phdrs) > 0
        BY <3>1 DEF Stays
      <3>2. CASE ~(Len(f.phdrs) > 0)
        <4>1. Len(f.phdrs) = 0
          BY <1>2, <3>2
        <4>2. f.phdrs = <<>>
          BY <1>3, <4>1, EmptySeq DEF Sequence
        <4>3. f.ehdr.phoff = 0
          BY <4>2 DEF Fits
        <4>4. QED
          BY <4>3
      <3>3. QED
        BY <3>1, <3>2
    <2>3. ASSUME NEW j \in 1 .. Len(B), HasData(f.shdrs[B[j]])
          PROVE  f.shdrs[B[j]].off + f.shdrs[B[j]].size =< c
      <3>1. j # 1
        <4>1. B[1] = 1
          BY DEF Stays
        <4>2. ~HasData(f.shdrs[1])
          BY DEF Fits, HasData
        <4>3. QED
          BY <2>3, <4>1, <4>2
      <3>2. j \in 2 .. Len(B)
        BY <1>2, <3>1
      <3>3. QED
        BY <2>3, <3>2 DEF Stays
    <2>4. \A i \in 1 .. Len(f.phdrs) : f.phdrs[i].filesz # 0 =>
            f.phdrs[i].off + f.phdrs[i].filesz =< c
      BY DEF Stays
    <2> HIDE DEF c, B
    <2>5. ASSUME NEW y \in Ends(f) PROVE y =< c
      <3>1. \/ y = 1
            \/ f.ehdr.phoff > 0 /\ y = f.ehdr.phoff + Len(f.phdrs)
            \/ \E i \in ToSet(B) : HasData(f.shdrs[i]) /\ y = f.shdrs[i].off + f.shdrs[i].size
            \/ \E h \in ToSet(f.phdrs) : h.filesz # 0 /\ y = h.off + h.filesz
        BY DEF Ends, B
      <3>2. CASE y = 1
        BY <2>1, <3>2
      <3>3. CASE f.ehdr.phoff > 0 /\ y = f.ehdr.phoff + Len(f.phdrs)
        BY <2>2, <3>3
      <3>4. CASE \E i \in ToSet(B) : HasData(f.shdrs[i]) /\ y = f.shdrs[i].off + f.shdrs[i].size
        BY <1>2, <2>3, <3>4
      <3>5. CASE \E h \in ToSet(f.phdrs) : h.filesz # 0 /\ y = h.off + h.filesz
        BY <1>4, <2>4, <3>5
      <3>6. QED
        BY <3>1, <3>2, <3>3, <3>4, <3>5
    <2>6. QED
      BY <2>5
  <1>8. c =< x
    <2> DEFINE end == EndOf(f)
               s == f.ehdr.shoff
    <2>0. end = Min({x, Len(data)})
      BY ONLY <1>2 DEF EndOf
    <2>1. (c = s /\ s < end) \/ c = end
      BY EndBefore
    <2> HIDE DEF end, x, c, s
    <2>2. end \in Nat /\ end =< x
      BY <1>2, <1>6, <2>0, LeastOfTwo
    <2>3. s \in Nat
      BY <1>2 DEF s
    <2>4. QED
      BY <1>6, <2>1, <2>2, <2>3
  <1> HIDE DEF c, x
  <1>9. x =< c /\ c \in Nat
    BY <1>2, <1>5, <1>6, <1>7
  <1>10. QED
    BY <1>6, <1>8, <1>9 DEF c, x

(* Renumbering changes only the section numbers in a header.                *)
SameButLinks(x, y) ==
  /\ y.name = x.name /\ y.type = x.type /\ y.alloc = x.alloc
  /\ y.off = x.off /\ y.size = x.size /\ y.align = x.align

LEMMA RelinkedFields ==
  ASSUME NEW f, NEW x \in Shdrs
  PROVE  SameButLinks(x, Relinked(f, x))
  BY DEF Relinked, Shdrs, SameButLinks

(* The headers read back, when the count fits the ELF header.               *)
LEMMA TableBack ==
  ASSUME NEW data, NEW f, NEW b, Saving(data, f, b), Fits(f), NEW h, h = Parse(Save(f, b))
  PROVE  /\ Len(Table(f, b)) = Len(Before(f)) + Len(After(f)) + 2
         /\ Len(Table(f, b)) < XIndex /\ Len(h.shdrs) = Len(Table(f, b))
         /\ \A i \in 1 .. Len(Table(f, b)) : h.shdrs[i] = Table(f, b)[i]
  <1> DEFINE n == Len(Table(f, b))
  <1>1. n = Len(Before(f)) + Len(After(f)) + 2
    BY TableParts DEF TableLaid, Saving
  <1>2. Sequence(f.names)
    BY InputFacts DEF Saving
  <1>3. n < XIndex
    BY <1>1, <1>2, Ordering DEF Fits
  <1>4. SavedHdrs(f, b) = Table(f, b)
    BY <1>3, SavedHeaders DEF HdrsSaved
  <1>5. Len(h.shdrs) = n /\ \A i \in 1 .. n : h.shdrs[i] = SavedHdrs(f, b)[i]
    BY ReadingBack DEF ReadBack
  <1>6. QED
    BY <1>1, <1>3, <1>4, <1>5

(* What a first signing of data leaves to a second one: f is what it read,  *)
(* h what is read back, and the note is in place.                           *)
Resigning(data, f, b, g, h) ==
  /\ Saving(data, f, b) /\ Stays(data, f) /\ Fits(f)
  /\ g = Save(f, b) /\ h = Parse(g) /\ NoteInPlace(g)
  /\ Saving(g, h, b) /\ Stays(g, h) /\ Fits(h)

(* The sections that stay have the headers they had.                        *)
StayingHeaders(f, h, nb) ==
  /\ nb \in Nat /\ Len(Before(f)) = nb /\ Len(Before(h)) = nb
  /\ \A i \in 1 .. nb : /\ Before(h)[i] = i /\ Before(f)[i] \in 1 .. Len(f.shdrs)
                        /\ SameButLinks(f.shdrs[Before(f)[i]], h.shdrs[i])

LEMMA StayingBack ==
  ASSUME NEW data, NEW f, NEW b, NEW g, NEW h, Resigning(data, f, b, g, h)
  PROVE  StayingHeaders(f, h, Len(Before(f)))
  <1> DEFINE nb == Len(Before(f))
             na == Len(After(f))
             n == Len(Table(f, b))
  <1>1. Saving(data, f, b) /\ Fits(f) /\ g = Save(f, b) /\ h = Parse(g) /\ NoteInPlace(g)
    BY DEF Resigning
  <1>2. Settled(h, nb, na)
    BY <1>1, Settles
  <1>3. n = nb + na + 2 /\ \A i \in 1 .. n : h.shdrs[i] = Table(f, b)[i]
    BY <1>1, TableBack
  <1>4. \A i \in 1 .. nb : Table(f, b)[i] = Relinked(f, f.shdrs[Before(f)[i]])
    BY <1>1, TableParts DEF TableLaid, Saving
  <1>5. \A i \in 1 .. nb : /\ Before(f)[i] \in 1 .. Len(f.shdrs)
                           /\ f.shdrs[Before(f)[i]] \in Shdrs
    BY <1>1, InputFacts DEF Saving
  <1>6. nb \in Nat /\ na \in Nat /\ Len(Before(h)) = nb /\ \A i \in 1 .. nb : Before(h)[i] = i
    BY <1>2 DEF Settled
  <1> HIDE DEF nb, na, n
  <1>7. ASSUME NEW i \in 1 .. nb
        PROVE  SameButLinks(f.shdrs[Before(f)[i]], h.shdrs[i])
    <2>1. h.shdrs[i] = Relinked(f, f.shdrs[Before(f)[i]])
      BY <1>3, <1>4, <1>6
    <2>2. QED
      BY <1>5, <2>1, RelinkedFields
  <1>8. QED
    BY <1>5, <1>6, <1>7 DEF StayingHeaders, nb

LEMMA EndsBack ==
  ASSUME NEW data, NEW f, NEW b, NEW g, NEW h, Resigning(data, f, b, g, h)
  PROVE  Ends(h) = Ends(f)
  <1> DEFINE nb == Len(Before(f))
             K(x) == {x.shdrs[i].off + x.shdrs[i].size :
                        i \in {j \in ToSet(Before(x)) : HasData(x.shdrs[j])}}
  <1>1. /\ Saving(data, f, b) /\ Stays(data, f) /\ Accepts(data) /\ f = Parse(data)
        /\ g = Save(f, b) /\ h = Parse(g) /\ Accepts(g)
    BY DEF Resigning, Saving, Input
  <1>2. h.phdrs = f.phdrs /\ Ehdr(g).phoff = Ehdr(data).phoff
    BY <1>1, PhdrsBack
  <1>3. h.ehdr.phoff = f.ehdr.phoff
    <2>1. f.ehdr.phoff = Ehdr(data).phoff
      BY <1>1, ParsedHeaders
    <2>2. h.ehdr.phoff = Ehdr(g).phoff
      BY <1>1, ParsedHeaders
    <2>3. QED
      BY <1>2, <2>1, <2>2
  <1>4. ToSet(Before(f)) = {Before(f)[i] : i \in 1 .. nb}
    BY <1>1, EndingCells DEF EndCells
  <1>5. StayingHeaders(f, h, nb)
    BY StayingBack
  <1>6. ToSet(Before(h)) = 1 .. nb
    <2>1. ToSet(Before(h)) = {Before(h)[i] : i \in 1 .. Len(Before(h))}
      BY <1>1, EndingCells DEF EndCells
    <2>2. Len(Before(h)) = nb /\ \A i \in 1 .. nb : Before(h)[i] = i
      BY <1>5 DEF StayingHeaders
    <2> HIDE DEF nb
    <2>3. QED
      BY <2>1, <2>2
  <1>7. \A i \in 1 .. nb :
          LET x == f.shdrs[Before(f)[i]]
              y == h.shdrs[i]
          IN  (HasData(y) <=> HasData(x)) /\ y.off + y.size = x.off + x.size
    BY <1>5 DEF StayingHeaders, SameButLinks, HasData
  <1>8. K(h) = K(f)
    <2>1. \A y \in K(h) : y \in K(f)
      <3>1. \A y \in K(h) : \E i \in 1 .. nb : HasData(h.shdrs[i]) /\ y = h.shdrs[i].off + h.shdrs[i].size
        BY <1>6
      <3>2. ASSUME NEW y \in K(h) PROVE y \in K(f)
        <4>1. PICK i \in 1 .. nb : HasData(h.shdrs[i]) /\ y = h.shdrs[i].off + h.shdrs[i].size
          BY <3>1, <3>2
        <4>2. Before(f)[i] \in ToSet(Before(f))
          BY <1>4
        <4>3. HasData(f.shdrs[Before(f)[i]])
              /\ y = f.shdrs[Before(f)[i]].off + f.shdrs[Before(f)[i]].size
          BY <1>7, <4>1
        <4>4. QED
          BY <4>2, <4>3
      <3>3. QED
        BY <3>2
    <2>2. \A y \in K(f) : y \in K(h)
      <3>1. \A y \in K(f) : \E i \in 1 .. nb : LET x == f.shdrs[Before(f)[i]]
                                                IN  HasData(x) /\ y = x.off + x.size
        BY <1>4
      <3>2. QED
        BY <1>6, <1>7, <3>1
    <2> HIDE DEF K
    <2>3. QED
      BY <2>1, <2>2
  <1>9. QED
    BY <1>2, <1>3, <1>8 DEF Ends

LEMMA EndBack ==
  ASSUME NEW data, NEW f, NEW b, NEW g, NEW h, Resigning(data, f, b, g, h)
  PROVE  ContentEnd(h) = ContentEnd(f) /\ ContentEnd(f) \in Nat
  <1>1. /\ Saving(data, f, b) /\ Stays(data, f) /\ Fits(f) /\ Accepts(data) /\ f = Parse(data)
        /\ g = Save(f, b) /\ h = Parse(g) /\ Accepts(g) /\ Stays(g, h) /\ Fits(h)
    BY DEF Resigning, Saving, Input
  <1>2. ContentEnd(f) = Max(Ends(f)) /\ ContentEnd(f) \in Nat
    BY <1>1, EndOfAll
  <1>3. ContentEnd(h) = Max(Ends(h))
    BY <1>1, EndOfAll
  <1>4. QED
    BY <1>2, <1>3, EndsBack

-----------------------------------------------------------------------------
(* What is written, the ELF header aside: s and t differ in the first cell  *)
(* at most.                                                                 *)
Twins(s, t) ==
  /\ Sequence(s) /\ Sequence(t) /\ Len(s) = Len(t) /\ Len(s) >= 1
  /\ \A i \in 2 .. Len(s) : s[i] = t[i]

LEMMA TwinsConcat ==
  ASSUME NEW s, NEW t, NEW d, Twins(s, t), Sequence(d)
  PROVE  Twins(s \o d, t \o d)
  <1>1. /\ Sequence(s) /\ Sequence(t) /\ Len(s) = Len(t) /\ Len(s) >= 1
        /\ \A i \in 2 .. Len(s) : s[i] = t[i]
        /\ Len(s) \in Nat /\ Len(d) \in Nat
    BY SeqLen DEF Twins
  <1>2. /\ Sequence(s \o d) /\ Len(s \o d) = Len(s) + Len(d)
        /\ \A i \in 1 .. Len(s) : (s \o d)[i] = s[i]
        /\ \A i \in 1 .. Len(d) : (s \o d)[Len(s) + i] = d[i]
    BY <1>1, Concat
  <1>3. /\ Sequence(t \o d) /\ Len(t \o d) = Len(t) + Len(d)
        /\ \A i \in 1 .. Len(t) : (t \o d)[i] = t[i]
        /\ \A i \in 1 .. Len(d) : (t \o d)[Len(t) + i] = d[i]
    BY <1>1, Concat
  <1> DEFINE n == Len(s)
             l == Len(d)
             u == s \o d
             v == t \o d
  <1>4. /\ n \in Nat /\ l \in Nat /\ n >= 1 /\ Len(u) = n + l /\ Len(v) = n + l
        /\ \A i \in 2 .. n : u[i] = v[i]
        /\ \A i \in 1 .. l : u[n + i] = v[n + i]
    BY <1>1, <1>2, <1>3
  <1> HIDE DEF n, l, u, v
  <1>5. ASSUME NEW i \in 2 .. Len(u) PROVE u[i] = v[i]
    <2>1. i \in 2 .. n \/ (i - n \in 1 .. l /\ i = n + (i - n))
      BY <1>4
    <2>2. CASE i \in 2 .. n
      BY <1>4, <2>2
    <2>3. CASE i - n \in 1 .. l /\ i = n + (i - n)
      <3>1. PICK j \in 1 .. l : i = n + j
        BY <2>3
      <3>2. QED
        BY <1>4, <3>1
    <2>4. QED
      BY <2>1, <2>2, <2>3
  <1>6. Len(u) = Len(v) /\ Len(u) >= 1
    BY <1>4
  <1>7. QED
    BY <1>2, <1>3, <1>5, <1>6 DEF Twins, u, v

LEMMA TwinsAligned ==
  ASSUME NEW s, NEW t, NEW align \in Nat, Twins(s, t)
  PROVE  Twins(Aligned(s, align), Aligned(t, align))
  <1>1. Len(s) = Len(t) /\ Len(s) \in Nat
    BY SeqLen DEF Twins
  <1>2. CASE align =< 1 \/ Len(s) % align = 0
    <2>1. Aligned(s, align) = s /\ Aligned(t, align) = t
      BY <1>1, <1>2 DEF Aligned
    <2>2. QED
      BY <2>1
  <1>3. CASE ~(align =< 1 \/ Len(s) % align = 0)
    <2> DEFINE z == align - (Len(s) % align)
    <2>1. align > 0
      BY <1>3
    <2>2. Len(s) % align \in 0 .. align - 1
      BY <1>1, <2>1, Padding
    <2>3. z \in Nat
      BY <2>1, <2>2
    <2>4. Aligned(s, align) = s \o Zeroes(z) /\ Aligned(t, align) = t \o Zeroes(z)
      BY <1>1, <1>3 DEF Aligned
    <2> HIDE DEF z
    <2>5. Sequence(Zeroes(z))
      BY <2>3, ZeroCells
    <2>6. QED
      BY <2>4, <2>5, TwinsConcat
  <1>4. QED
    BY <1>2, <1>3

(* Two loops over sections with the same data and alignment lay them out    *)
(* alike.                                                                   *)
Alike(f, h, m) ==
  \A j \in 1 .. m :
    LET x == f.shdrs[After(f)[j]]
        y == h.shdrs[After(h)[j]]
    IN  /\ x \in Shdrs /\ y \in Shdrs /\ x.align = y.align
        /\ SectionData(f, After(f)[j]) = SectionData(h, After(h)[j])
        /\ Sequence(SectionData(f, After(f)[j]))

LaidAlike(p, q, k) ==
  /\ Twins(p.out, q.out)
  /\ Sequence(p.hdrs) /\ Sequence(q.hdrs) /\ Len(p.hdrs) = k /\ Len(q.hdrs) = k
  /\ \A j \in 1 .. k : p.hdrs[j].off = q.hdrs[j].off

LEMMA AlikeNext ==
  ASSUME NEW f, NEW h, NEW m \in Nat, Alike(f, h, m), NEW k \in Nat, k + 1 =< m,
         NEW p, NEW q, LaidAlike(p, q, k)
  PROVE  LaidAlike(PlaceStep(f, k + 1, p), PlaceStep(h, k + 1, q), k + 1)
  <1> DEFINE x == f.shdrs[After(f)[k + 1]]
             y == h.shdrs[After(h)[k + 1]]
             d == SectionData(f, After(f)[k + 1])
             o == Aligned(p.out, x.align)
             u == Aligned(q.out, x.align)
             P == PlaceStep(f, k + 1, p)
             Q == PlaceStep(h, k + 1, q)
  <1>1. /\ x \in Shdrs /\ y \in Shdrs /\ x.align = y.align
        /\ d = SectionData(h, After(h)[k + 1]) /\ Sequence(d)
    <2>1. k + 1 \in 1 .. m
      OBVIOUS
    <2>2. QED
      BY <2>1 DEF Alike
  <1>2. /\ P = [out |-> o \o d, hdrs |-> Append(p.hdrs, [x EXCEPT !.off = Len(o)])]
        /\ Q = [out |-> u \o d, hdrs |-> Append(q.hdrs, [y EXCEPT !.off = Len(u)])]
    BY <1>1 DEF PlaceStep
  <1>3. Twins(o, u)
    <2>1. x.align \in Nat
      BY <1>1 DEF Shdrs
    <2>2. QED
      BY <2>1, TwinsAligned DEF LaidAlike
  <1>4. Len(o) = Len(u)
    BY <1>3 DEF Twins
  <1>5. [x EXCEPT !.off = Len(o)].off = Len(o) /\ [y EXCEPT !.off = Len(u)].off = Len(o)
    BY <1>1, <1>4 DEF Shdrs
  <1> DEFINE v == [x EXCEPT !.off = Len(o)]
             w == [y EXCEPT !.off = Len(u)]
  <1> HIDE DEF o, u, x, y, d, v, w
  <1>6. /\ P.out = o \o d /\ P.hdrs = Append(p.hdrs, v)
        /\ Q.out = u \o d /\ Q.hdrs = Append(q.hdrs, w)
    <2>1. P = [out |-> o \o d, hdrs |-> Append(p.hdrs, v)]
      BY <1>2 DEF v
    <2>2. Q = [out |-> u \o d, hdrs |-> Append(q.hdrs, w)]
      BY <1>2 DEF w
    <2> HIDE DEF P, Q
    <2>3. QED
      BY <2>1, <2>2
  <1>7. Twins(P.out, Q.out)
    <2>1. Twins(o \o d, u \o d)
      BY <1>1, <1>3, TwinsConcat
    <2>2. QED
      BY <1>6, <2>1
  <1>8. /\ Sequence(P.hdrs) /\ Len(P.hdrs) = k + 1
        /\ \A j \in 1 .. k : P.hdrs[j] = p.hdrs[j]
        /\ P.hdrs[k + 1] = v
    <2>1. Sequence(p.hdrs) /\ Len(p.hdrs) = k
      BY DEF LaidAlike
    <2> DEFINE l == p.hdrs
    <2>2. /\ Sequence(Append(l, v)) /\ Len(Append(l, v)) = Len(l) + 1
          /\ \A j \in 1 .. Len(l) : Append(l, v)[j] = l[j]
          /\ Append(l, v)[Len(l) + 1] = v
      <3> HIDE DEF l
      <3>1. Sequence(l)
        BY <2>1 DEF l
      <3>2. QED
        BY ONLY <3>1, Appended
    <2>3. QED
      BY <1>6, <2>1, <2>2
  <1>9. /\ Sequence(Q.hdrs) /\ Len(Q.hdrs) = k + 1
        /\ \A j \in 1 .. k : Q.hdrs[j] = q.hdrs[j]
        /\ Q.hdrs[k + 1] = w
    <2>1. Sequence(q.hdrs) /\ Len(q.hdrs) = k
      BY DEF LaidAlike
    <2> DEFINE l == q.hdrs
    <2>2. /\ Sequence(Append(l, w)) /\ Len(Append(l, w)) = Len(l) + 1
          /\ \A j \in 1 .. Len(l) : Append(l, w)[j] = l[j]
          /\ Append(l, w)[Len(l) + 1] = w
      <3> HIDE DEF l
      <3>1. Sequence(l)
        BY <2>1 DEF l
      <3>2. QED
        BY ONLY <3>1, Appended
    <2>3. QED
      BY <1>6, <2>1, <2>2
  <1> HIDE DEF P, Q
  <1>10. ASSUME NEW j \in 1 .. k + 1 PROVE P.hdrs[j].off = Q.hdrs[j].off
    <2>1. j \in 1 .. k \/ j = k + 1
      OBVIOUS
    <2>2. CASE j \in 1 .. k
      BY <1>8, <1>9, <2>2 DEF LaidAlike
    <2>3. CASE j = k + 1
      <3>1. v.off = w.off
        BY <1>5 DEF v, w
      <3>2. QED
        BY <1>8, <1>9, <2>3, <3>1
    <2>4. QED
      BY <2>1, <2>2, <2>3
  <1>11. QED
    BY <1>7, <1>8, <1>9, <1>10 DEF LaidAlike, P, Q

LEMMA AlikeLoop ==
  ASSUME NEW f, NEW h, NEW m \in Nat, Alike(f, h, m),
         NEW out, NEW new, Twins(out, new),
         NEW c, NEW d, PlaceRun(f, out, m, c), PlaceRun(h, new, m, d)
  PROVE  LaidAlike(PlaceAfter(f, out), PlaceAfter(h, new), m)
  <1>1. /\ c[0] = [out |-> out, hdrs |-> <<>>]
        /\ \A k \in 1 .. m : c[k] = PlaceStep(f, k, c[k - 1])
        /\ PlaceAfter(f, out) = c[m]
    BY DEF PlaceRun
  <1>2. /\ d[0] = [out |-> new, hdrs |-> <<>>]
        /\ \A k \in 1 .. m : d[k] = PlaceStep(h, k, d[k - 1])
        /\ PlaceAfter(h, new) = d[m]
    BY DEF PlaceRun
  <1> DEFINE S == {k \in Nat : k =< m => LaidAlike(c[k], d[k], k)}
  <1>3. 0 \in S
    <2>1. c[0].out = out /\ c[0].hdrs = <<>> /\ d[0].out = new /\ d[0].hdrs = <<>>
      BY <1>1, <1>2
    <2>2. Sequence(<<>>) /\ Len(<<>>) = 0
      BY EmptySeq DEF Sequence
    <2>3. LaidAlike(c[0], d[0], 0)
      BY <2>1, <2>2 DEF LaidAlike
    <2>4. QED
      BY <2>3
  <1>4. ASSUME NEW k \in Nat, k \in S PROVE k + 1 \in S
    <2>1. SUFFICES ASSUME k + 1 =< m PROVE LaidAlike(c[k + 1], d[k + 1], k + 1)
      OBVIOUS
    <2>2. k + 1 \in 1 .. m /\ (k + 1) - 1 = k /\ k =< m
      BY <2>1
    <2>3. c[k + 1] = PlaceStep(f, k + 1, c[k]) /\ d[k + 1] = PlaceStep(h, k + 1, d[k])
      BY <1>1, <1>2, <2>2
    <2>4. LaidAlike(c[k], d[k], k)
      BY <1>4, <2>2
    <2>5. QED
      BY <2>1, <2>3, <2>4, AlikeNext
  <1>5. m \in S
    <2> HIDE DEF S
    <2>1. Nat \subseteq S
      BY <1>3, <1>4, SetInduction
    <2>2. QED
      BY <2>1
  <1>6. QED
    BY <1>1, <1>2, <1>5

LEMMA MovedRun ==
  ASSUME NEW data, NEW f, NEW b, Input(data, f, b)
  PROVE  /\ Len(After(f)) \in Nat /\ \E c : PlaceRun(f, Base(f, b), Len(After(f)), c)
         /\ \A j \in 1 .. Len(After(f)) : /\ f.shdrs[After(f)[j]] \in Shdrs
                                          /\ Sequence(SectionData(f, After(f)[j]))
  <1> DEFINE T == Cells(data, b)
             m == Len(After(f))
  <1>1. /\ Accepts(data) /\ f = Parse(data) /\ data \in Seq(T)
        /\ \A i \in 1 .. m : After(f)[i] \in 1 .. Len(f.shdrs) /\ DataReadable(f, After(f)[i])
        /\ \A i \in 1 .. Len(f.shdrs) : f.shdrs[i] \in Shdrs
    BY InputFacts
  <1>2. m \in Nat
    BY InputFacts, Ordering
  <1>3. ZeroCell \in T
    BY DEF Cells
  <1>4. Base(f, b) \in Seq(T)
    BY LaidBase
  <1>5. \A j \in 1 .. m : /\ f.shdrs[After(f)[j]] \in Shdrs
                          /\ SectionData(f, After(f)[j]) \in Seq(T)
                          /\ Sequence(SectionData(f, After(f)[j]))
    BY <1>1, DataOfSection
  <1>6. \E c : PlaceRun(f, Base(f, b), m, c)
    <2> HIDE DEF T, m
    <2>1. m = Len(After(f))
      BY DEF m
    <2>2. QED
      BY <1>2, <1>3, <1>4, <1>5, <2>1, PlaceRuns
  <1>7. QED
    BY <1>2, <1>5, <1>6

LEMMA BaseBack ==
  ASSUME NEW data, NEW f, NEW b, NEW g, NEW h, Resigning(data, f, b, g, h)
  PROVE  Twins(Base(f, b), Base(h, b))
  <1> DEFINE c == ContentEnd(f)
             s == Base(f, b)
             t == Base(h, b)
             d == CreateNote(b)
  <1>1. /\ Saving(data, f, b) /\ g = Save(f, b) /\ h = Parse(g)
        /\ Input(data, f, b) /\ Input(g, h, b)
    BY DEF Resigning, Saving
  <1>2. b.len \in Nat /\ b.len > 0 /\ Len(d) = b.len
    BY <1>1, InputFacts
  <1>3. /\ Sequence(s) /\ Len(s) = c + b.len
        /\ \A i \in 1 .. c : s[i] = data[i]
        /\ Lies(s, d, c)
    BY <1>1, LaidBase
  <1>4. ContentEnd(h) = c /\ c \in Nat
    BY EndBack
  <1>5. /\ Sequence(t) /\ Len(t) = c + b.len
        /\ \A i \in 1 .. c : t[i] = g[i]
        /\ Lies(t, d, c)
    BY <1>1, <1>4, LaidBase
  <1>6. \A i \in 2 .. c : g[i] = data[i]
    BY <1>1, StayingCells DEF StaysPut
  <1>7. \A i \in 1 .. b.len : s[c + i] = d[i] /\ t[c + i] = d[i]
    BY <1>2, <1>3, <1>5 DEF Lies
  <1>8. \A i \in 2 .. c : s[i] = t[i]
    <2>1. \A i \in 2 .. c : i \in 1 .. c
      OBVIOUS
    <2>2. QED
      BY <1>3, <1>5, <1>6, <2>1
  <1>9. \A i \in 1 .. b.len : s[c + i] = t[c + i]
    BY <1>7
  <1> DEFINE l == b.len
  <1>10. /\ l \in Nat /\ l > 0 /\ Len(s) = c + l /\ Len(t) = c + l
         /\ \A i \in 1 .. l : s[c + i] = t[c + i]
    BY <1>2, <1>3, <1>5, <1>9
  <1> HIDE DEF c, s, t, d, l
  <1>11. ASSUME NEW i \in 2 .. Len(s) PROVE s[i] = t[i]
    <2>1. i \in 2 .. c \/ (i - c \in 1 .. l /\ i = c + (i - c))
      BY <1>4, <1>10
    <2>2. CASE i \in 2 .. c
      BY <1>8, <2>2
    <2>3. CASE i - c \in 1 .. l /\ i = c + (i - c)
      <3>1. PICK j \in 1 .. l : i = c + j
        BY <2>3
      <3>2. QED
        BY <1>10, <3>1
    <2>4. QED
      BY <2>1, <2>2, <2>3
  <1>12. Len(s) = Len(t) /\ Len(s) >= 1
    BY <1>4, <1>10
  <1>13. QED
    BY <1>3, <1>5, <1>11, <1>12 DEF Twins, s, t

LEMMA MovedAlike ==
  ASSUME NEW data, NEW f, NEW b, NEW g, NEW h, Resigning(data, f, b, g, h)
  PROVE  Alike(f, h, Len(After(f)))
  <1> DEFINE nb == Len(Before(f))
             na == Len(After(f))
  <1>1. /\ Saving(data, f, b) /\ Stays(data, f) /\ g = Save(f, b) /\ h = Parse(g)
        /\ Input(data, f, b) /\ NoteInPlace(g)
    BY DEF Resigning, Saving
  <1>2. OldInOrder(f)
    BY <1>1, InputFacts, OldOrder
  <1>3. nb \in Nat /\ na \in Nat /\ Len(Table(f, b)) = nb + na + 2
    BY <1>1, TableParts DEF TableLaid
  <1>4. nb >= 1
    BY <1>1 DEF Stays
  <1>5. \A j \in 1 .. na : After(h)[j] = nb + 1 + j
    BY <1>1, Settles DEF Settled
  <1>6. \A j \in 1 .. na : Sequence(SectionData(f, After(f)[j]))
    BY <1>1, MovedRun
  <1>7. ASSUME NEW j \in 1 .. na
        PROVE  LET x == f.shdrs[After(f)[j]]
                   y == h.shdrs[After(h)[j]]
               IN  /\ x \in Shdrs /\ y \in Shdrs /\ x.align = y.align
                   /\ SectionData(f, After(f)[j]) = SectionData(h, After(h)[j])
    <2> DEFINE i == nb + 1 + j
               k == After(f)[j]
    <2>1. i \in 1 .. nb + na + 2 /\ i # nb + 1 /\ i # nb + na + 2 /\ i # 1
      BY <1>3, <1>4
    <2>2. Old(f, i) \in Kept(f) /\ Old(f, i) = k
      BY <1>2, <2>1 DEF OldInOrder
    <2>3. SectionKept(f, b, g, i) /\ DataKept(f, b, g, i)
      BY <1>1, <1>3, <2>1, <2>2, KeepingSections, KeepingData
    <2>4. f.shdrs[k] \in Shdrs /\ h.shdrs[i] \in Shdrs /\ h.shdrs[i].align = f.shdrs[k].align
      BY <1>1, <2>2, <2>3 DEF SectionKept
    <2>5. SectionData(h, i) = SectionData(f, k)
      BY <1>1, <2>2, <2>3 DEF DataKept
    <2>6. After(h)[j] = i
      BY <1>5
    <2> HIDE DEF i, k
    <2>7. QED
      BY <2>4, <2>5, <2>6 DEF k
  <1>8. QED
    BY <1>6, <1>7 DEF Alike

LEMMA MovedBack ==
  ASSUME NEW data, NEW f, NEW b, NEW g, NEW h, Resigning(data, f, b, g, h)
  PROVE  LaidAlike(Moved(f, b), Moved(h, b), Len(After(f)))
  <1> DEFINE m == Len(After(f))
             s == Base(f, b)
             t == Base(h, b)
  <1>1. /\ Saving(data, f, b) /\ g = Save(f, b) /\ h = Parse(g) /\ NoteInPlace(g)
        /\ Input(data, f, b) /\ Input(g, h, b)
    BY DEF Resigning, Saving
  <1>2. m \in Nat /\ \E c : PlaceRun(f, s, m, c)
    BY <1>1, MovedRun
  <1>3. Len(After(h)) = m
    BY <1>1, Settles DEF Settled
  <1>4. \E d : PlaceRun(h, t, m, d)
    BY <1>1, <1>3, MovedRun
  <1>5. Alike(f, h, m)
    BY MovedAlike
  <1>6. Twins(s, t)
    BY BaseBack
  <1> HIDE DEF m, s, t
  <1>7. LaidAlike(PlaceAfter(f, s), PlaceAfter(h, t), m)
    BY <1>2, <1>4, <1>5, <1>6, AlikeLoop
  <1>8. QED
    BY <1>7 DEF Moved, m, s, t

-----------------------------------------------------------------------------
(* The signature's name is in the string table already, and the sections    *)
(* have the numbers they will get.                                          *)
LEMMA StringsBack ==
  ASSUME NEW data, NEW f, NEW b, NEW g, NEW h, Resigning(data, f, b, g, h)
  PROVE  NewStrings(h) = NewStrings(f)
  <1>1. /\ Saving(data, f, b) /\ g = Save(f, b) /\ h = Parse(g)
        /\ Input(data, f, b) /\ Input(g, h, b)
    BY DEF Resigning, Saving
  <1>2. NewStrings(h) = EnsureName(StringTable(g))
    BY <1>1, NewNames
  <1>3. StringTable(g) = NewStrings(f)
    BY <1>1, ReadingBack DEF ReadBack
  <1>4. /\ NameOffset(NewStrings(f)) + 1 \in 1 .. Len(NewStrings(f))
        /\ NewStrings(f)[NameOffset(NewStrings(f)) + 1] = NameCell(SIG)
    BY <1>1, NewNames
  <1>5. Contains(NewStrings(f), NameCell(SIG))
    BY <1>4 DEF Contains
  <1>6. QED
    BY <1>2, <1>3, <1>5 DEF EnsureName

LEMMA IndexStays ==
  ASSUME NEW h, NEW nb, NEW na, Settled(h, nb, na), Sequence(h.names), NEW k \in Nat
  PROVE  NewIndex(h, k) = k
  <1> DEFINE order == NewOrder(h)
             m == Len(order)
             I == {i \in 1 .. m : order[i] = k + 1}
             n == IF I # {} THEN Min(I) ELSE 0
  <1>1. /\ nb \in Nat /\ na \in Nat
        /\ Len(Before(h)) = nb /\ \A i \in 1 .. nb : Before(h)[i] = i
        /\ Len(After(h)) = na /\ \A i \in 1 .. na : After(h)[i] = nb + 1 + i
        /\ Shstrtab(h) = nb + na + 2
    BY DEF Settled
  <1>2. /\ m = nb + na + 2
        /\ \A i \in 1 .. nb : order[i] = Before(h)[i]
        /\ order[nb + 1] = 0
        /\ \A i \in 1 .. na : order[nb + 1 + i] = After(h)[i]
        /\ order[nb + na + 2] = Shstrtab(h)
    BY <1>1, Ordering
  <1>3. NewIndex(h, k) = IF k = 0 \/ n = 0 THEN k ELSE n - 1
    BY DEF NewIndex, SelectInSeq
  <1> HIDE DEF order, m
  <1>4. ASSUME NEW i \in 1 .. m PROVE order[i] \in {0, i}
    <2>1. \/ i \in 1 .. nb
          \/ i = nb + 1
          \/ i - (nb + 1) \in 1 .. na /\ i = nb + 1 + (i - (nb + 1))
          \/ i = nb + na + 2
      BY <1>1, <1>2
    <2>2. CASE i \in 1 .. nb
      BY <1>1, <1>2, <2>2
    <2>3. CASE i = nb + 1
      BY <1>2, <2>3
    <2>4. CASE i - (nb + 1) \in 1 .. na /\ i = nb + 1 + (i - (nb + 1))
      <3>1. PICK j \in 1 .. na : i = nb + 1 + j
        BY <2>4
      <3>2. QED
        BY <1>1, <1>2, <3>1
    <2>5. CASE i = nb + na + 2
      BY <1>1, <1>2, <2>5
    <2>6. QED
      BY <2>1, <2>2, <2>3, <2>4, <2>5
  <1>5. m \in Nat
    BY <1>1, <1>2
  <1>6. n \in 0 .. m /\ (n # 0 => n \in I)
    <2>1. I \subseteq 1 .. m
      OBVIOUS
    <2> HIDE DEF I
    <2>2. QED
      BY <1>5, <2>1, FirstOf
  <1>7. n # 0 => n \in 1 .. m /\ order[n] = k + 1
    BY <1>6
  <1> HIDE DEF n
  <1>8. n # 0 => n = k + 1
    BY <1>4, <1>5, <1>6, <1>7
  <1>9. QED
    BY <1>3, <1>8

LEMMA RelinkedStays ==
  ASSUME NEW h, NEW nb, NEW na, Settled(h, nb, na), Sequence(h.names), NEW x \in Shdrs
  PROVE  Relinked(h, x) = x
  <1>1. x.link \in Nat /\ x.info \in Nat
    BY DEF Shdrs
  <1>2. NewIndex(h, x.link) = x.link /\ NewIndex(h, x.info) = x.info
    BY <1>1, IndexStays
  <1>3. Relinked(h, x) = [x EXCEPT !.link = x.link, !.info = x.info]
    BY <1>2 DEF Relinked
  <1>4. QED
    BY <1>3 DEF Shdrs

(* .shstrtab and all that is before the section headers.                    *)
LEMMA TableHeader ==
  ASSUME NEW data, NEW f, NEW b, NEW g, NEW h, Resigning(data, f, b, g, h)
  PROVE  LET n == Len(Before(f)) + Len(After(f)) + 2
             x == f.shdrs[Shstrtab(f)]
             y == h.shdrs[Shstrtab(h)]
         IN  /\ Shstrtab(h) = n /\ x \in Shdrs /\ y \in Shdrs /\ y.align = x.align
             /\ y = Relinked(f, StrHdr(f, b))
             /\ y.off = Len(StrOut(f, b)) /\ y.size = Len(NewStrings(f))
  <1> DEFINE n == Len(Before(f)) + Len(After(f)) + 2
             x == f.shdrs[Shstrtab(f)]
             y == h.shdrs[Shstrtab(h)]
             z == StrHdr(f, b)
  <1>1. /\ Saving(data, f, b) /\ Fits(f) /\ g = Save(f, b) /\ h = Parse(g)
        /\ Input(data, f, b) /\ NoteInPlace(g) /\ Input(g, h, b)
    BY DEF Resigning, Saving
  <1>2. Shstrtab(h) = n
    BY <1>1, Settles DEF Settled
  <1>3. Len(Table(f, b)) = n /\ \A i \in 1 .. n : h.shdrs[i] = Table(f, b)[i]
    BY <1>1, TableBack
  <1>4. n \in 1 .. n
    BY <1>1, TableParts DEF TableLaid
  <1>5. Table(f, b)[n] = Relinked(f, z)
    BY <1>1, TableParts DEF TableLaid
  <1>6. y = Relinked(f, z)
    BY <1>2, <1>3, <1>4, <1>5
  <1>7. x \in Shdrs
    BY <1>1, InputFacts
  <1>8. y \in Shdrs
    BY <1>1, InputFacts
  <1>9. Len(StrOut(f, b)) \in Nat /\ Len(NewStrings(f)) \in Nat
    BY <1>1, PlacementBounds
  <1>10. /\ z \in Shdrs /\ z.off = Len(StrOut(f, b)) /\ z.size = Len(NewStrings(f))
         /\ z.align = x.align
    BY <1>7, <1>9 DEF StrHdr, Shdrs
  <1> HIDE DEF n, x, y, z
  <1>11. SameButLinks(z, y)
    BY <1>6, <1>10, RelinkedFields
  <1>12. QED
    BY <1>2, <1>6, <1>7, <1>8, <1>10, <1>11 DEF SameButLinks, n, x, y, z

LEMMA OutBack ==
  ASSUME NEW data, NEW f, NEW b, NEW g, NEW h, Resigning(data, f, b, g, h)
  PROVE  /\ Len(StrOut(f, b)) = Len(StrOut(h, b))
         /\ Twins(Layout(f, b).out, Layout(h, b).out)
  <1> DEFINE a == f.shdrs[Shstrtab(f)].align
             s == NewStrings(f)
             u == StrOut(f, b)
             v == StrOut(h, b)
  <1>1. Input(data, f, b)
    BY DEF Resigning, Saving
  <1>2. h.shdrs[Shstrtab(h)].align = a /\ f.shdrs[Shstrtab(f)] \in Shdrs
    BY TableHeader
  <1>3. a \in Nat
    BY <1>2 DEF Shdrs
  <1>4. u = Aligned(Moved(f, b).out, a) /\ v = Aligned(Moved(h, b).out, a)
    BY <1>2 DEF StrOut
  <1>5. Twins(Moved(f, b).out, Moved(h, b).out)
    BY MovedBack DEF LaidAlike
  <1>6. NewStrings(h) = s /\ Sequence(s)
    BY <1>1, StringsBack, NewNames
  <1>7. ShdrAlign \in Nat
    BY LimitsAssumption
  <1>8. /\ Layout(f, b).out = Aligned(u \o s, ShdrAlign)
        /\ Layout(h, b).out = Aligned(v \o s, ShdrAlign)
    BY <1>6, LayoutParts
  <1> HIDE DEF a, s, u, v
  <1>9. Twins(u, v)
    BY <1>3, <1>4, <1>5, TwinsAligned
  <1>10. Twins(u \o s, v \o s)
    BY <1>6, <1>9, TwinsConcat
  <1>11. Twins(Aligned(u \o s, ShdrAlign), Aligned(v \o s, ShdrAlign))
    BY <1>7, <1>10, TwinsAligned
  <1>12. QED
    BY <1>8, <1>9, <1>11 DEF Twins, u, v

LEMMA HeadersSettled ==
  ASSUME NEW data, NEW f, NEW b, NEW g, NEW h, Resigning(data, f, b, g, h),
         NEW j \in 1 .. Len(After(f))
  PROVE  Moved(h, b).hdrs[j] = Relinked(f, Moved(f, b).hdrs[j])
  <1> DEFINE nb == Len(Before(f))
             na == Len(After(f))
             i == nb + 1 + j
             p == Moved(f, b).hdrs[j]
             q == Moved(h, b).hdrs[j]
             y == h.shdrs[i]
  <1>1. /\ Saving(data, f, b) /\ Fits(f) /\ g = Save(f, b) /\ h = Parse(g)
        /\ Input(data, f, b) /\ NoteInPlace(g) /\ Input(g, h, b)
    BY DEF Resigning, Saving
  <1>2. /\ nb \in Nat /\ na \in Nat /\ Len(After(h)) = na /\ After(h)[j] = i
    BY <1>1, Settles DEF Settled
  <1>3. Len(Table(f, b)) = nb + na + 2 /\ \A k \in 1 .. Len(Table(f, b)) : h.shdrs[k] = Table(f, b)[k]
    BY <1>1, TableBack
  <1>4. Table(f, b)[i] = Relinked(f, p)
    BY <1>1, TableParts DEF TableLaid
  <1>5. y = Relinked(f, p)
    BY <1>2, <1>3, <1>4
  <1>6. p \in Shdrs
    <2>1. Moved(f, b).hdrs \in Seq(Shdrs) /\ Len(Moved(f, b).hdrs) = na
      BY <1>1, LaidMoved DEF Placed
    <2>2. QED
      BY <2>1, ElementOfSeq
  <1>7. q = [y EXCEPT !.off = q.off]
    BY <1>1, <1>2, LaidMoved DEF Placed
  <1>8. q.off = p.off
    BY MovedBack DEF LaidAlike
  <1> HIDE DEF p, q, y
  <1>9. y.off = p.off
    BY <1>5, <1>6, RelinkedFields DEF SameButLinks
  <1>10. y \in Shdrs
    <2>1. \A k \in 1 .. Len(h.shdrs) : h.shdrs[k] \in Shdrs
      BY <1>1, InputFacts
    <2>2. Len(h.shdrs) = nb + na + 2
      BY <1>1, <1>3, TableBack
    <2>3. i \in 1 .. nb + na + 2
      BY <1>2
    <2>4. QED
      BY <2>1, <2>2, <2>3 DEF y
  <1>11. [y EXCEPT !.off = y.off] = y
    BY <1>10 DEF Shdrs
  <1>12. QED
    BY <1>5, <1>7, <1>8, <1>9, <1>11 DEF p, q

(* The table of section headers is the same.                                *)
LEMMA TableStays ==
  ASSUME NEW data, NEW f, NEW b, NEW g, NEW h, Resigning(data, f, b, g, h)
  PROVE  Table(h, b) = Table(f, b)
  <1> DEFINE nb == Len(Before(f))
             na == Len(After(f))
             n == nb + na + 2
             s == Table(f, b)
             t == Table(h, b)
  <1>1. /\ Saving(data, f, b) /\ Fits(f) /\ g = Save(f, b) /\ h = Parse(g)
        /\ Input(data, f, b) /\ NoteInPlace(g) /\ Input(g, h, b)
    BY DEF Resigning, Saving
  <1>2. Settled(h, nb, na) /\ Sequence(h.names)
    BY <1>1, Settles, InputFacts
  <1>3. /\ nb \in Nat /\ na \in Nat
        /\ Len(Before(h)) = nb /\ \A i \in 1 .. nb : Before(h)[i] = i
        /\ Len(After(h)) = na
    BY <1>2 DEF Settled
  <1>4. Len(s) = n /\ \A i \in 1 .. n : h.shdrs[i] = s[i]
    BY <1>1, TableBack
  <1>5. /\ Sequence(s) /\ s \in Seq(Shdrs)
        /\ s[nb + 1] = Relinked(f, SigHdr(f, b))
        /\ \A i \in 1 .. na : s[nb + 1 + i] = Relinked(f, Moved(f, b).hdrs[i])
    BY <1>1, TableParts DEF TableLaid
  <1>6. /\ Sequence(t) /\ Len(t) = n
        /\ \A i \in 1 .. nb : t[i] = Relinked(h, h.shdrs[Before(h)[i]])
        /\ t[nb + 1] = Relinked(h, SigHdr(h, b))
        /\ \A i \in 1 .. na : t[nb + 1 + i] = Relinked(h, Moved(h, b).hdrs[i])
        /\ t[n] = Relinked(h, StrHdr(h, b))
    <2>1. TableLaid(h, b)
      BY <1>1, TableParts
    <2>2. Len(Before(h)) = nb /\ Len(After(h)) = na
      BY <1>3
    <2> HIDE DEF nb, na
    <2>3. QED
      BY <2>1, <2>2 DEF TableLaid
  <1>7. \A i \in 1 .. n : s[i] \in Shdrs
    BY <1>4, <1>5, ElementOfSeq
  <1>8. \A x \in Shdrs : Relinked(h, x) = x
    BY <1>2, RelinkedStays
  <1>9. ASSUME NEW i \in 1 .. nb PROVE t[i] = s[i]
    <2>1. i \in 1 .. n
      BY <1>3
    <2>2. t[i] = Relinked(h, h.shdrs[i])
      BY <1>3, <1>6
    <2> HIDE DEF n, nb, s, t
    <2>3. QED
      BY <1>4, <1>7, <1>8, <2>1, <2>2
  <1>10. t[nb + 1] = s[nb + 1]
    <2>1. SigHdr(h, b) = SigHdr(f, b)
      BY EndBack, StringsBack DEF SigHdr
    <2>2. SigHdr(f, b) \in Shdrs
      <3>1. NameOffset(NewStrings(f)) \in Nat
        BY <1>1, NewNames
      <3>2. ContentEnd(f) \in Nat /\ b.len \in Nat
        BY <1>1, EndBack, InputFacts
      <3>3. QED
        BY <3>1, <3>2, NoteFields DEF SigHdr
    <2>3. Relinked(f, SigHdr(f, b)) = SigHdr(f, b)
      <3>1. NewIndex(f, 0) = 0
        BY DEF NewIndex
      <3>2. SigHdr(f, b).type = "NOTE" /\ SigHdr(f, b).link = 0 /\ SigHdr(f, b).info = 0
        BY DEF SigHdr
      <3>3. Relinked(f, SigHdr(f, b)) = [SigHdr(f, b) EXCEPT !.link = 0, !.info = 0]
        BY <3>1, <3>2 DEF Relinked
      <3>4. QED
        BY <3>2, <3>3 DEF SigHdr
    <2>4. QED
      BY <1>5, <1>6, <1>8, <2>1, <2>2, <2>3
  <1>11. ASSUME NEW j \in 1 .. na PROVE t[nb + 1 + j] = s[nb + 1 + j]
    <2>1. Moved(h, b).hdrs[j] = s[nb + 1 + j]
      BY <1>5, HeadersSettled
    <2>2. nb + 1 + j \in 1 .. n
      BY <1>3
    <2>3. t[nb + 1 + j] = Relinked(h, s[nb + 1 + j])
      BY <1>6, <2>1
    <2> HIDE DEF n, nb, s, t
    <2>4. QED
      BY <1>7, <1>8, <2>2, <2>3
  <1>12. t[n] = s[n]
    <2> DEFINE y == h.shdrs[Shstrtab(h)]
    <2>1. /\ Shstrtab(h) = n /\ y \in Shdrs
          /\ y.off = Len(StrOut(f, b)) /\ y.size = Len(NewStrings(f))
      BY TableHeader
    <2>2. Len(StrOut(h, b)) = Len(StrOut(f, b)) /\ NewStrings(h) = NewStrings(f)
      BY OutBack, StringsBack
    <2>3. StrHdr(h, b) = [y EXCEPT !.off = y.off, !.size = y.size]
      BY <2>1, <2>2 DEF StrHdr
    <2>4. StrHdr(h, b) = y
      <3> HIDE DEF y
      <3>1. QED
        BY <2>1, <2>3 DEF Shdrs
    <2>5. n \in 1 .. n
      BY <1>3
    <2>6. y = s[n]
      BY <1>4, <2>1, <2>5
    <2>7. QED
      BY <1>6, <1>8, <2>1, <2>4, <2>6
  <1> HIDE DEF nb, na, s, t
  <1>13. ASSUME NEW i \in 1 .. n PROVE t[i] = s[i]
    <2>1. \/ i \in 1 .. nb
          \/ i = nb + 1
          \/ i - (nb + 1) \in 1 .. na /\ i = nb + 1 + (i - (nb + 1))
          \/ i = n
      BY <1>3
    <2>2. CASE i - (nb + 1) \in 1 .. na /\ i = nb + 1 + (i - (nb + 1))
      <3>1. PICK j \in 1 .. na : i = nb + 1 + j
        BY <2>2
      <3>2. QED
        BY <1>11, <3>1
    <2>3. QED
      BY <1>9, <1>10, <1>12, <2>1, <2>2
  <1> HIDE DEF n
  <1>14. s = t
    BY <1>4, <1>5, <1>6, <1>13, SameSeq
  <1>15. QED
    BY <1>14 DEF s, t

(* And so is the ELF header.                                                *)
LEMMA EhdrStays ==
  ASSUME NEW data, NEW f, NEW b, NEW g, NEW h, Resigning(data, f, b, g, h)
  PROVE  SavedEhdr(h, b) = SavedEhdr(f, b)
  <1> DEFINE n == Len(Table(f, b))
             l == Len(Layout(f, b).out)
             k == IF n >= XIndex THEN 0 ELSE n
             x == IF n >= XIndex THEN XIndex ELSE n - 1
             E(e) == [e EXCEPT !.shoff = l, !.shnum = k, !.shstrndx = x]
  <1>1. /\ Saving(data, f, b) /\ g = Save(f, b) /\ h = Parse(g) /\ Accepts(data) /\ f = Parse(data)
        /\ Accepts(g)
    BY DEF Resigning, Saving, Input
  <1>2. SavedEhdr(f, b) = E(f.ehdr)
    BY DEF SavedEhdr
  <1>3. SavedEhdr(h, b) = E(h.ehdr)
    <2>1. Table(h, b) = Table(f, b) /\ Len(Layout(h, b).out) = l
      BY TableStays, OutBack DEF Twins
    <2>2. QED
      BY <2>1 DEF SavedEhdr
  <1>4. Ehdr(g) = SavedEhdr(f, b)
    BY <1>1, ReadingBack DEF ReadBack
  <1>5. f.ehdr \in Ehdrs
    BY <1>1, ParsedHeaders
  <1>6. /\ h.ehdr \in Ehdrs
        /\ h.ehdr.phoff = Ehdr(g).phoff /\ h.ehdr.phnum = Ehdr(g).phnum
        /\ h.ehdr.machine = Ehdr(g).machine
    BY <1>1, ParsedHeaders
  <1> HIDE DEF l, k, x
  <1>7. h.ehdr.phoff = f.ehdr.phoff /\ h.ehdr.phnum = f.ehdr.phnum /\ h.ehdr.machine = f.ehdr.machine
    BY <1>2, <1>4, <1>5, <1>6 DEF Ehdrs
  <1>8. E(h.ehdr) = E(f.ehdr)
    BY <1>5, <1>6, <1>7 DEF Ehdrs
  <1>9. QED
    BY <1>2, <1>3, <1>8

(* A sequence whose first element is replaced.                              *)
LEMMA FirstReplaced ==
  ASSUME NEW s, NEW e, Sequence(s), Len(s) >= 1
  PROVE  /\ Sequence([s EXCEPT ![1] = e]) /\ Len([s EXCEPT ![1] = e]) = Len(s)
         /\ \A i \in 1 .. Len(s) : [s EXCEPT ![1] = e][i] = IF i = 1 THEN e ELSE s[i]
  <1> DEFINE T == ToSet(s) \cup {e}
  <1>1. s \in Seq(T) /\ e \in T
    BY SeqMonotonic DEF Sequence
  <1> HIDE DEF T
  <1>2. /\ [s EXCEPT ![1] = e] \in Seq(T) /\ Len([s EXCEPT ![1] = e]) = Len(s)
        /\ \A j \in 1 .. Len(s) : [s EXCEPT ![1] = e][j] = IF j = 1 THEN e ELSE s[j]
    <2>1. 1 \in 1 .. Len(s)
      BY SeqLen
    <2>2. QED
      BY <1>1, <2>1, ExceptSeq
  <1>3. QED
    BY <1>2, InSeq

(* Signing again with the same bundle changes nothing.                      *)
LEMMA SaveStays ==
  ASSUME NEW data, NEW f, NEW b, NEW g, NEW h, Resigning(data, f, b, g, h)
  PROVE  Save(h, b) = g
  <1> DEFINE e == EhdrCell(SavedEhdr(f, b))
             s == Layout(f, b).out
             t == Layout(h, b).out
             u == [s EXCEPT ![1] = e]
             v == [t EXCEPT ![1] = e]
  <1>1. g = Save(f, b)
    BY DEF Resigning
  <1>2. OutSaved(f, b) = u
    BY DEF OutSaved
  <1>3. OutSaved(h, b) = v
    BY EhdrStays DEF OutSaved
  <1>4. Back(h, b) = Back(f, b)
    <2>1. Table(h, b) = Table(f, b)
      BY TableStays
    <2>2. Count0(h, b) = Count0(f, b)
      BY <2>1 DEF Count0
    <2>3. SavedHdrs(h, b) = SavedHdrs(f, b)
      BY <2>1, <2>2 DEF SavedHdrs
    <2>4. QED
      BY <2>1, <2>3 DEF Back
  <1>5. Twins(s, t)
    BY OutBack
  <1>6. /\ Sequence(s) /\ Sequence(t) /\ Len(s) = Len(t) /\ Len(s) >= 1 /\ Len(s) \in Nat
        /\ \A i \in 2 .. Len(s) : s[i] = t[i]
    BY <1>5, SeqLen DEF Twins
  <1>7. 1 \in 1 .. Len(s) /\ 1 \in 1 .. Len(t)
    BY <1>6
  <1> HIDE DEF e, s, t
  <1>8. /\ Sequence(u) /\ Len(u) = Len(s)
        /\ \A i \in 1 .. Len(s) : u[i] = IF i = 1 THEN e ELSE s[i]
    <2>1. Sequence(s) /\ Len(s) >= 1
      BY <1>6
    <2>2. /\ Sequence([s EXCEPT ![1] = e]) /\ Len([s EXCEPT ![1] = e]) = Len(s)
          /\ \A i \in 1 .. Len(s) : [s EXCEPT ![1] = e][i] = IF i = 1 THEN e ELSE s[i]
      BY ONLY <2>1, FirstReplaced
    <2>3. QED
      BY <2>2
  <1>9. /\ Sequence(v) /\ Len(v) = Len(t)
        /\ \A i \in 1 .. Len(t) : v[i] = IF i = 1 THEN e ELSE t[i]
    <2>1. Sequence(t) /\ Len(t) >= 1
      BY <1>6
    <2>2. /\ Sequence([t EXCEPT ![1] = e]) /\ Len([t EXCEPT ![1] = e]) = Len(t)
          /\ \A i \in 1 .. Len(t) : [t EXCEPT ![1] = e][i] = IF i = 1 THEN e ELSE t[i]
      BY ONLY <2>1, FirstReplaced
    <2>3. QED
      BY <2>2
  <1> HIDE DEF u, v
  <1>10. \A i \in 1 .. Len(u) : u[i] = v[i]
    BY <1>6, <1>8, <1>9
  <1>11. u = v
    BY <1>6, <1>8, <1>9, <1>10, SameSeq
  <1>12. QED
    BY <1>1, <1>2, <1>3, <1>4, <1>11, SaveParts

-----------------------------------------------------------------------------
(* What is written fits the ELF header again.                               *)
LEMMA FitsBack ==
  ASSUME NEW data, NEW f, NEW b, Saving(data, f, b), Stays(data, f), Fits(f),
         NEW g, g = Save(f, b), Accepts(g), NEW h, h = Parse(g)
  PROVE  Fits(h)
  <1> DEFINE nb == Len(Before(f))
             na == Len(After(f))
             n == nb + na + 2
  <1>1. Accepts(data) /\ f = Parse(data) /\ Sorted(f) /\ NamesBack(f, h) /\ Input(data, f, b)
    BY InputFacts, NamingBack DEF Saving
  <1>2. nb \in Nat /\ na \in Nat /\ Len(h.names) = n /\ Sequence(h.names)
    BY <1>1 DEF NamesBack
  <1>3. /\ Len(Table(f, b)) = n /\ n < XIndex
        /\ \A i \in 1 .. n : h.shdrs[i] = Table(f, b)[i]
    BY TableBack
  <1>4. h.shdrs[1].size = 0
    <2>1. nb >= 1 /\ Before(f)[1] = 1 /\ f.shdrs[1].size = 0
      BY DEF Stays, Fits
    <2>2. 1 \in 1 .. nb /\ 1 \in 1 .. n
      BY <1>2, <2>1
    <2>3. f.shdrs[1] \in Shdrs
      BY <1>1, <2>1, <2>2, InputFacts
    <2>4. Table(f, b)[1] = Relinked(f, f.shdrs[1])
      BY <1>1, <2>1, <2>2, TableParts DEF TableLaid
    <2>5. h.shdrs[1] = Table(f, b)[1]
      BY <1>3, <2>2
    <2>6. QED
      BY <2>1, <2>3, <2>4, <2>5, RelinkedFields DEF SameButLinks
  <1>5. Len(NewOrder(h)) < XIndex
    <2> DEFINE k == nb + 1
    <2>1. Kept(h) = {i \in 1 .. Len(h.names) : i # nb + 1 /\ i # Len(h.names)}
      <3>1. Sorted(f) /\ NamesBack(f, h)
        BY <1>1
      <3>2. QED
        BY ONLY <3>1, KeptBack
    <2>2. Kept(h) \subseteq ((1 .. n) \ {n}) \ {k}
      BY <1>2, <2>1
    <2>3. /\ Len(NewOrder(h)) = Len(Before(h)) + Len(After(h)) + 2
          /\ Len(Before(h)) \in Nat /\ Len(After(h)) \in Nat
      BY <1>2, Ordering
    <2>4. Len(Before(h)) + Len(After(h)) =< Cardinality(Kept(h))
      BY <1>2, Order, CountKept
    <2>5. n \in Nat /\ k \in 1 .. n /\ k # n
      BY <1>2
    <2> HIDE DEF n, k
    <2>6. Cardinality(Kept(h)) \in Nat /\ Cardinality(Kept(h)) + 2 =< n
      BY <2>2, <2>5, TwoFewer
    <2>7. QED
      BY <1>3, <2>3, <2>4, <2>5, <2>6, LimitsAssumption
  <1>6. h.phdrs = <<>> => h.ehdr.phoff = 0
    <2>1. Ehdr(g).phoff = Ehdr(data).phoff /\ h.phdrs = f.phdrs
      BY PhdrsBack
    <2>2. f.ehdr.phoff = Ehdr(data).phoff /\ h.ehdr.phoff = Ehdr(g).phoff
      BY <1>1, ParsedHeaders
    <2>3. QED
      BY <2>1, <2>2 DEF Fits
  <1>7. QED
    BY <1>4, <1>5, <1>6 DEF Fits

LEMMA HeaderFits ==
  ASSUME NEW data, ParseError(data) = ""
  PROVE  FitsHeader(data) <=> Fits(Parse(data))
  BY DEF FitsHeader, Fits

LEMMA FitsSaved ==
  ASSUME NEW data, NEW f, NEW b, Saving(data, f, b), Regular(data), FitsHeader(data),
         NEW g, g = Save(f, b)
  PROVE  FitsHeader(g)
  <1>1. Accepts(data) /\ f = Parse(data)
    BY DEF Saving, Input
  <1>2. Stays(data, f) /\ Fits(f)
    BY <1>1, RegularStays, HeaderFits DEF Accepts
  <1>3. CASE ParseError(g) = ""
    <2>1. Accepts(g)
      BY <1>3, RegularSaved DEF Accepts
    <2>2. QED
      BY <1>2, <1>3, <2>1, FitsBack, HeaderFits
  <1>4. CASE ParseError(g) # ""
    BY <1>4 DEF FitsHeader
  <1>5. QED
    BY <1>3, <1>4

(* An image saveELFSignature has written for a file like the first one.     *)
Wrote(data, b, g) ==
  Saving(data, Parse(data), b) /\ Regular(data) /\ FitsHeader(data) /\ g = Save(Parse(data), b)

Stored(g) == \E data, b : Wrote(data, b, g)

(* A second signing of such an image.                                       *)
LEMMA Resigned ==
  ASSUME NEW data, NEW e, NEW g, Wrote(data, e, g), NEW b, NEW new, Wrote(g, b, new)
  PROVE  /\ NoteInPlace(new)
         /\ NoteInPlace(g) /\ GetSignature(Parse(g)) = GetSignature(Parse(new)) => new = g
  <1> DEFINE f == Parse(data)
             h == Parse(g)
  <1>1. /\ Saving(data, f, e) /\ Regular(data) /\ FitsHeader(data) /\ g = Save(f, e)
        /\ Saving(g, h, b) /\ Regular(g) /\ FitsHeader(g) /\ new = Save(h, b)
    BY DEF Wrote
  <1> HIDE DEF f, h
  <1>2. NoteInPlace(new)
    <2>1. h = Parse(g)
      BY DEF h
    <2>2. QED
      BY <1>1, <2>1, InPlaceBack
  <1>3. ASSUME NoteInPlace(g), GetSignature(h) = GetSignature(Parse(new))
        PROVE  new = g
    <2>1. GetSignature(h) = e
      BY <1>1, FindingBack DEF NoteBack, h
    <2>2. GetSignature(Parse(new)) = b
      BY <1>1, FindingBack DEF NoteBack
    <2>3. b = e
      BY <1>3, <2>1, <2>2
    <2>4. Accepts(data) /\ f = Parse(data) /\ Accepts(g) /\ h = Parse(g)
      BY <1>1 DEF Saving, Input
    <2>5. Stays(data, f) /\ Fits(f)
      BY <1>1, <2>4, RegularStays, HeaderFits DEF Accepts
    <2>6. Stays(g, h) /\ Fits(h)
      BY <1>1, <2>4, RegularStays, HeaderFits DEF Accepts
    <2>7. Resigning(data, f, b, g, h)
      BY <1>1, <1>3, <2>3, <2>4, <2>5, <2>6 DEF Resigning
    <2>8. QED
      BY <1>1, <2>7, SaveStays
  <1>4. QED
    BY <1>2, <1>3 DEF h

(* The strengthening: what Sign is given, and what it works on, is the      *)
(* first image or one it has written, until a call abandons it.             *)
ResignGood ==
  /\ FitsHeader(given) /\ Regular(given)
  /\ result # "abandoned" => FitsHeader(image) /\ (image = original \/ Stored(image))
  /\ given = original \/ Stored(given)
  /\ pc = "parse" => image = given
  /\ pc \in {"sign", "save", "check"} => file = given
  /\ Signed => \E b : Wrote(given, b, image)

ResignInv == Typed(original) /\ Regular(original) /\ FitsHeader(original) => ResignGood

LEMMA ResignInit == Init => ResignInv
  BY DEF Init, ResignInv, ResignGood, Signed

LEMMA ResignNext == RegularInv /\ ResignInv /\ [Next]_vars => ResignInv'
  <1>a. SUFFICES ASSUME RegularInv, ResignInv, [Next]_vars,
                        Typed(original'), Regular(original'), FitsHeader(original')
                 PROVE  ResignGood'
    BY DEF ResignInv
  <1>b. CASE Restart
    BY <1>a, <1>b DEF Restart, ResignGood, Signed
  <1> SUFFICES ASSUME RegularGood, ResignGood, original' = original,
                      SignAgain => result # "abandoned"
               PROVE  ResignGood'
    BY <1>a, <1>b, OriginalStays DEF RegularInv, ResignInv
  <1> USE DEF ResignGood, Signed
  <1>0. original' = original /\ (result = "abandoned" => pc = "done")
    BY DEF RegularGood
  <1>1. CASE ParseInput
    <2>1. /\ pc = "parse" /\ pc' = "sign" /\ file' = image
          /\ image' = image /\ given' = given /\ result' = result
      BY <1>1 DEF ParseInput
    <2>2. file' = given'
      BY <2>1
    <2>3. QED
      BY <1>0, <2>1, <2>2
  <1>2. CASE RejectInput
    BY <1>0, <1>2 DEF RejectInput, Finish
  <1>3. CASE SignHash
    BY <1>0, <1>3 DEF SignHash
  <1>4. CASE FailSignHash
    BY <1>0, <1>4 DEF FailSignHash, Finish
  <1>5. CASE Embed
    <2>1. /\ pc = "save" /\ pc' = "check" /\ given' = given /\ file' = file
          /\ image' = Save(Parsed, bundle) /\ ~Refuses(Parsed)
      BY <1>5 DEF Embed
    <2>2. Accepts(file) /\ Regular(file) /\ bundle.len \in BundleLens /\ file = given
      BY <2>1 DEF RegularGood
    <2>3. Saving(file, Parsed, bundle)
      BY <2>1, <2>2, SavingNow, RegularFormed DEF Parsed
    <2>4. FitsHeader(file)
      BY <2>2
    <2>5. FitsHeader(image')
      BY <2>1, <2>2, <2>3, <2>4, FitsSaved
    <2>6. Wrote(file, bundle, image')
      BY <2>1, <2>2, <2>3, <2>4 DEF Wrote, Parsed
    <2>7. Stored(image')
      BY <2>6 DEF Stored
    <2>8. QED
      BY <1>0, <2>1, <2>2, <2>5, <2>7
  <1>6. CASE RefuseEmbed
    BY <1>0, <1>6 DEF RefuseEmbed, Finish
  <1>7. CASE AbandonEmbed
    <2>1. pc' = "done" /\ result' = "abandoned" /\ given' = given
      BY <1>7 DEF AbandonEmbed, Finish
    <2>2. QED
      BY <1>0, <2>1
  <1>8. CASE RejectEmbedded
    BY <1>0, <1>8 DEF RejectEmbedded, Finish
  <1>9. CASE CheckEmbedded
    <2>1. pc = "check" /\ image' = image /\ given' = given
      BY <1>9 DEF CheckEmbedded
    <2>2. /\ Saving(file, Parsed, bundle) /\ image = Save(Parsed, bundle)
          /\ Regular(file) /\ bundle.hash = HashOf(Parsed) /\ file = given
      BY <2>1 DEF RegularGood
    <2>3. HashOf(Parse(image)) = bundle.hash
      BY <2>2, RegularSaved
    <2>4. pc' = "done" /\ result' = "ok"
      BY <1>9, <2>3 DEF CheckEmbedded, Finish
    <2>5. Wrote(given', bundle, image')
      BY <2>1, <2>2 DEF Wrote, Parsed
    <2>6. QED
      BY <1>0, <2>1, <2>4, <2>5
  <1>10. CASE SignAgain
    <2>1. pc' = "parse" /\ given' = image /\ image' = image /\ result # "abandoned"
      BY <1>10 DEF SignAgain
    <2>2. Regular(image)
      BY <2>1 DEF RegularGood
    <2>3. QED
      BY <1>0, <2>1, <2>2
  <1>11. CASE UNCHANGED vars
    BY <1>11 DEF vars
  <1>12. QED
    BY <1>a, <1>1, <1>2, <1>3, <1>4, <1>5, <1>6, <1>7, <1>8, <1>9, <1>10, <1>11 DEF Next

(* Signing an image Sign has signed puts the note in its place, and from    *)
(* then on changes nothing when the bundle is the same (writer.go:57-79,    *)
(* 108-187): signatures do not pile up.                                     *)
THEOREM ResignTheorem ==
  Spec => [](Typed(original) /\ Regular(original) /\ FitsHeader(original)
               /\ ~Verifies(original) => ResignIdempotent)
  <1>1. ResignInv => (Typed(original) /\ Regular(original) /\ FitsHeader(original)
                        /\ ~Verifies(original) => ResignIdempotent)
    <2>1. SUFFICES ASSUME ResignGood, ~Verifies(original), Signed, Verifies(given)
                   PROVE  /\ NoteInPlace(image)
                          /\ NoteInPlace(given)
                             /\ GetSignature(Parse(given)) = GetSignature(Parse(image))
                               => image = given
      BY DEF ResignInv, ResignIdempotent
    <2>2. Stored(given)
      BY <2>1 DEF ResignGood
    <2>3. PICK data, e : Wrote(data, e, given)
      BY <2>2 DEF Stored
    <2>4. PICK b : Wrote(given, b, image)
      BY <2>1 DEF ResignGood
    <2>5. QED
      BY <2>3, <2>4, Resigned
  <1>2. QED
    BY <1>1, RegularInit, RegularNext, ResignInit, ResignNext, PTL DEF Spec

=============================================================================

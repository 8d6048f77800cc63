------------------------------ MODULE ElfImage -------------------------------
(***************************************************************************)
(* pkg/signature/elf/inhouse as operators on ELF images: the parser        *)
(* (file.go), the hash (hash.go), the note (note.go) and the writer that   *)
(* adds or replaces the signature section (writer.go).                     *)
(*                                                                         *)
(* An image is a sequence of cells.  The ELF header, a program header and  *)
(* a section header take one cell each; a name in a string table takes one *)
(* cell; other cells are data, of which only identity matters.  The parser *)
(* reads everything, tables included, back from the cells, so a cell       *)
(* written over another one is noticed.  Offsets and section numbers       *)
(* count from 0 as in the file, positions in a sequence from 1.            *)
(*                                                                         *)
(* The ideal hash of an image is the very sequence of items it covers, and *)
(* the ideal signature bundle of a hash names that hash.                   *)
(***************************************************************************)
EXTENDS Integers, SequencesExt, FiniteSetsExt

CONSTANTS
  ShdrAlign,      \* shdrAlign, in cells
  XIndex,         \* shnXIndex = pnXNum, scaled down
  MaxSections,    \* maxELFSections, scaled down
  MaxPhdrs,       \* maxELFProgramHeaders, scaled down
  MaxInt          \* the largest int, in cells: no slice is longer

ASSUME LimitsAssumption ==
  /\ ShdrAlign \in Nat \ {0}
  /\ XIndex \in Nat /\ MaxSections \in Nat /\ MaxPhdrs \in Nat /\ MaxInt \in Nat
  /\ 1 < XIndex /\ XIndex =< MaxSections

SIG      == ".note.delivery-kit.signature"
BSIGN    == "signature"
SYMTAB   == ".symtab"
STRTAB   == ".strtab"
SHSTRTAB == ".shstrtab"

(* Cells. *)
EhdrCell(e) == <<"ehdr", e>>
PhdrCell(h) == <<"phdr", h>>
ShdrCell(h) == <<"shdr", h>>
NameCell(n) == <<"name", n>>
ZeroCell    == <<"zero">>

(* The section types; REL is SHT_RELA too, PROGBITS any that is not named.  *)
ShdrTypes == {"NULL", "PROGBITS", "NOBITS", "NOTE", "REL", "SYMTAB", "STRTAB"}

(* The fields of the headers, as unsigned numbers. *)
Ehdrs == [machine : STRING, phoff : Nat, phnum : Nat, shoff : Nat, shnum : Nat,
          shstrndx : Nat]
Phdrs == [type : STRING, off : Nat, filesz : Nat]
Shdrs == [name : Nat, type : ShdrTypes, alloc : BOOLEAN, off : Nat, size : Nat,
          link : Nat, info : Nat, align : Nat]

Typed(data) ==
  /\ data \in Seq(ToSet(data))
  /\ \A c \in ToSet(data) : /\ c[1] = "ehdr" => c[2] \in Ehdrs
                            /\ c[1] = "phdr" => c[2] \in Phdrs
                            /\ c[1] = "shdr" => c[2] \in Shdrs

Zeroes(n) == [i \in 1 .. n |-> ZeroCell]

(* The n cells of data at offset off. *)
Slice(data, off, n) == SubSeq(data, off + 1, off + n)

(* A loop over n sections that collects those in a set. *)
Collect(n, S) ==
  LET c[k \in 0 .. n] == IF k = 0 THEN <<>>
                         ELSE IF k \in S THEN Append(c[k - 1], k) ELSE c[k - 1]
  IN  c[n]

RangeWithinFile(off, n, data) == off =< Len(data) /\ n =< Len(data) - off

(* createELFNote, for a bundle that takes bundle.len cells, and the bundle  *)
(* getELFSignature finds in a section's data (parseELFNote).                *)
CreateNote(bundle) == [i \in 1 .. bundle.len |-> <<"note", i, bundle>>]

NoBundle == [hash |-> <<>>, len |-> 0]

IsNote(data) ==
  /\ data # <<>>
  /\ data[1][1] = "note"
  /\ data[1][3].len =< Len(data)
  /\ Slice(data, 0, data[1][3].len) = CreateNote(data[1][3])

-----------------------------------------------------------------------------
(* file.go                                                                  *)

Ehdr(data) == data[1][2]

IsShdr(cell) == cell[1] = "shdr"

(* The counts after extended numbering has been resolved. *)
Phnum(data) ==
  LET e == Ehdr(data)
  IN  IF e.phnum = XIndex THEN data[e.shoff + 1][2].info ELSE e.phnum

Shnum(data) ==
  LET e == Ehdr(data)
  IN  IF e.shnum = 0 THEN data[e.shoff + 1][2].size ELSE e.shnum

Shstrndx(data) ==
  LET e == Ehdr(data)
  IN  IF e.shnum = 0 /\ e.shstrndx = XIndex THEN data[e.shoff + 1][2].link
                                            ELSE e.shstrndx

HasShdr0(data) ==
  LET e == Ehdr(data)
  IN  e.shoff > 0 /\ RangeWithinFile(e.shoff, 1, data) /\ IsShdr(data[e.shoff + 1])

SectionTable(data) ==
  [i \in 1 .. Shnum(data) |-> data[Ehdr(data).shoff + i][2]]

StringTable(data) ==
  LET sh == SectionTable(data)[Shstrndx(data) + 1]
  IN  Slice(data, sh.off, sh.size)

(* The tables do not hold headers, or the string table names.  The code     *)
(* would read the bytes it finds there; the model stops.                    *)
Garbled(data) ==
  \/ \E i \in 1 .. Phnum(data) : data[Ehdr(data).phoff + i][1] # "phdr"
  \/ \E i \in 1 .. Shnum(data) : data[Ehdr(data).shoff + i][1] # "shdr"
  \/ /\ Shstrndx(data) < Shnum(data)
     /\ \E i \in 1 .. Len(StringTable(data)) : StringTable(data)[i][1] # "name"

(* parseELF, parseProgramHeaders and parseSectionHeaders return their first *)
(* error; "" is success.                                                    *)
ParseError(data) ==
  LET e == Ehdr(data) IN
  IF data = <<>> \/ data[1][1] # "ehdr" THEN "not ELF"
  ELSE IF e.shoff = 0 /\ e.shnum = 0 THEN "no sections"
  ELSE IF e.phnum = XIndex /\ (~HasShdr0(data) \/ Phnum(data) = 0) THEN "PN_XNUM"
  ELSE IF Phnum(data) > MaxPhdrs THEN "program header limit"
  ELSE IF Phnum(data) > 0
          /\ (e.phoff = 0 \/ ~RangeWithinFile(e.phoff, Phnum(data), data))
       THEN "program headers"
  ELSE IF e.shnum = 0 /\ ~HasShdr0(data) THEN "section 0"
  ELSE IF Shnum(data) = 0 THEN "no sections"
  ELSE IF Shnum(data) > MaxSections THEN "section limit"
  ELSE IF ~RangeWithinFile(e.shoff, Shnum(data), data) THEN "section headers"
  ELSE IF Garbled(data) THEN "garbled"
  ELSE IF Shstrndx(data) >= Shnum(data) THEN "e_shstrndx"
  ELSE LET sh == SectionTable(data)[Shstrndx(data) + 1] IN
       IF sh.type = "NOBITS" \/ ~RangeWithinFile(sh.off, sh.size, data)
       THEN "shstrtab"
       ELSE IF \E i \in 1 .. Shnum(data) : SectionTable(data)[i].name >= sh.size
       THEN "section name"
       ELSE ""

(* parseELF, when it succeeds. *)
Parse(data) ==
  LET e == Ehdr(data)
      shnum == Shnum(data)
      strings == StringTable(data)
      shdrs == SectionTable(data)
  IN  [data  |-> data,
       ehdr  |-> [e EXCEPT !.shnum = IF shnum >= XIndex THEN 0 ELSE shnum,
                           !.shstrndx = IF Shstrndx(data) >= XIndex
                                        THEN XIndex ELSE Shstrndx(data)],
       phdrs |-> [i \in 1 .. Phnum(data) |-> data[e.phoff + i][2]],
       shdrs |-> shdrs,
       names |-> [i \in 1 .. shnum |-> strings[shdrs[i].name + 1][2]]]

HasData(sh) == sh.type # "NOBITS" /\ sh.size # 0

(* sectionData fails for a section that does not lie within the file. *)
DataReadable(f, i) ==
  HasData(f.shdrs[i]) => RangeWithinFile(f.shdrs[i].off, f.shdrs[i].size, f.data)

SectionData(f, i) ==
  IF HasData(f.shdrs[i]) THEN Slice(f.data, f.shdrs[i].off, f.shdrs[i].size)
                         ELSE <<>>

-----------------------------------------------------------------------------
(* hash.go: section 0 is never hashed, nor are the signature, the legacy    *)
(* bsign signature, .shstrtab and NOBITS sections.                          *)

MutHashed(f) ==              \* .shstrtab is hashed too
  {i \in 2 .. Len(f.shdrs) : /\ f.names[i] \notin {SIG, BSIGN}
                             /\ f.shdrs[i].type # "NOBITS"}

Hashed(f) ==
  {i \in 2 .. Len(f.shdrs) : /\ f.names[i] \notin {SIG, BSIGN, SHSTRTAB}
                             /\ f.shdrs[i].type # "NOBITS"}

HashFails(f) == \E i \in Hashed(f) : ~DataReadable(f, i)

(* sh_name enters the hash as the number it is, not as the string. *)
HashOf(f) ==
  LET hashed == Collect(Len(f.shdrs), Hashed(f))
      phdrs == [i \in 1 .. Len(f.phdrs) |-> <<"phdr", f.phdrs[i].type>>]
      section(i) == <<<<"shdr", f.shdrs[i].name, f.shdrs[i].type, f.shdrs[i].alloc>>>>
                    \o SectionData(f, i)
  IN  phdrs \o FlattenSeq([k \in 1 .. Len(hashed) |-> section(hashed[k])])

(* getELFSignature; NoBundle when there is none.  (Its data is readable.)   *)
FindSection(f, name) == SelectInSeq(f.names, LAMBDA n : n = name)

GetSignature(f) ==
  LET i == FindSection(f, SIG)
  IN  IF i # 0 /\ DataReadable(f, i) /\ IsNote(SectionData(f, i))
      THEN SectionData(f, i)[1][3] ELSE NoBundle

-----------------------------------------------------------------------------
(* writer.go                                                                *)

(* ensureShstrtabName and findShstrtabName: the table with SIG in it, and   *)
(* SIG's offset.                                                            *)
EnsureName(strings) ==
  IF Contains(strings, NameCell(SIG)) THEN strings
                                      ELSE Append(strings, NameCell(SIG))

NameOffset(strings) == SelectInSeq(strings, LAMBDA c : c = NameCell(SIG)) - 1

(* The section before which the note goes. *)
InsertPos(f) ==
  LET i == SelectInSeq(f.names, LAMBDA n : n \in {SYMTAB, STRTAB, SHSTRTAB})
  IN  IF i = 0 THEN Len(f.names) + 1 ELSE i

(* The sections that stay, those that move behind the note, and .shstrtab   *)
(* (the last of that name; 0 if there is none).                             *)
MutBefore(f) ==              \* the old signature stays
  Collect(Len(f.names), {i \in 1 .. InsertPos(f) - 1 : f.names[i] # SHSTRTAB})

Before(f) ==
  Collect(Len(f.names),
          {i \in 1 .. InsertPos(f) - 1 : f.names[i] \notin {SIG, SHSTRTAB}})

After(f) ==
  Collect(Len(f.names),
          {i \in InsertPos(f) .. Len(f.names) : f.names[i] \notin {SIG, SHSTRTAB}})

Shstrtab(f) == SelectLastInSeq(f.names, LAMBDA n : n = SHSTRTAB)

(* What saveELFSignature refuses before it has written a byte.  It reads    *)
(* every section that moves, and every .shstrtab, even if another follows.  *)
Refuses(f) ==
  \/ \E i \in InsertPos(f) .. Len(f.names) : f.names[i] # SIG /\ ~DataReadable(f, i)
  \/ \E i \in ToSet(After(f)) : f.shdrs[i].alloc
  \/ Shstrtab(f) = 0
  \/ Shstrtab(f) # 0 /\ f.shdrs[Shstrtab(f)].alloc

(* contentEndOffset: behind everything that stays.  A section-header table  *)
(* at the end of the file does not.                                         *)
MutContentEnd(f) ==          \* the last section is taken for the furthest
  LET kept == SelectSeq(Before(f), LAMBDA i : HasData(f.shdrs[i]))
      last == f.shdrs[Last(kept)]
      top == 1 + Len(f.phdrs)
  IN  IF kept = <<>> THEN top ELSE Max({top, last.off + last.size})

ContentEnd(f) ==
  LET kept == {f.shdrs[i] : i \in {j \in ToSet(Before(f)) : HasData(f.shdrs[j])}}
      loaded == {h \in ToSet(f.phdrs) : h.filesz # 0}
      ends == {1, IF f.ehdr.phoff > 0 THEN f.ehdr.phoff + Len(f.phdrs) ELSE 1}
              \cup {sh.off + sh.size : sh \in kept}
              \cup {h.off + h.filesz : h \in loaded}
      end == Min({Max(ends), Len(f.data)})
      shoff == f.ehdr.shoff
  IN  IF shoff > 0 /\ shoff + Len(f.shdrs) = Len(f.data) /\ shoff < end
      THEN shoff ELSE end

MutAligned(out, align) ==    \* pads by the remainder
  IF align =< 1 THEN out ELSE out \o Zeroes(Len(out) % align)

Aligned(out, align) ==
  IF align =< 1 \/ Len(out) % align = 0 THEN out
  ELSE out \o Zeroes(align - (Len(out) % align))

(* The moved sections' data, laid out behind out, and their new headers. *)
PlaceAfter(f, out) ==
  LET place[k \in 0 .. Len(After(f))] ==
        IF k = 0 THEN [out |-> out, hdrs |-> <<>>]
        ELSE LET sh == f.shdrs[After(f)[k]]
                 o == Aligned(place[k - 1].out, sh.align)
             IN  [out  |-> o \o SectionData(f, After(f)[k]),
                  hdrs |-> Append(place[k - 1].hdrs, [sh EXCEPT !.off = Len(o)])]
  IN  place[Len(After(f))]

(* The old numbers, plus 1, of the new sections in order; 0 is the note. *)
NewOrder(f) == Before(f) \o <<0>> \o After(f) \o <<Shstrtab(f)>>

MutNewIndex(f, k) ==         \* the note is not counted
  LET n == SelectInSeq(Before(f) \o After(f) \o <<Shstrtab(f)>>, LAMBDA i : i = k + 1)
  IN  IF k = 0 \/ n = 0 THEN k ELSE n - 1

(* remapSectionIndex: the new number of section k, itself if it is gone. *)
NewIndex(f, k) ==
  LET n == SelectInSeq(NewOrder(f), LAMBDA i : i = k + 1)
  IN  IF k = 0 \/ n = 0 THEN k ELSE n - 1

Relinked(f, sh) ==
  [sh EXCEPT !.link = NewIndex(f, sh.link),
             !.info = IF sh.type = "REL" THEN NewIndex(f, sh.info) ELSE sh.info]

(* What saveELFSignature, on a file it does not refuse, appends up to: the  *)
(* note, the sections that move, the padding of the string table.           *)
Base(f, bundle) == Slice(f.data, 0, ContentEnd(f)) \o CreateNote(bundle)

Moved(f, bundle) == PlaceAfter(f, Base(f, bundle))

StrOut(f, bundle) == Aligned(Moved(f, bundle).out, f.shdrs[Shstrtab(f)].align)

NewStrings(f) ==
  LET old == SectionData(f, Shstrtab(f))
  IN  EnsureName(IF old = <<>> THEN <<NameCell("")>> ELSE old)

(* The cells it has written, tables excluded, and the headers to append.    *)
Layout(f, bundle) ==
  LET strings == NewStrings(f)
      strOut  == StrOut(f, bundle)
      sigHdr  == [name |-> NameOffset(strings), type |-> "NOTE", alloc |-> FALSE,
                  off |-> ContentEnd(f), size |-> bundle.len, link |-> 0, info |-> 0,
                  align |-> 1]
      hdrs    == [i \in 1 .. Len(Before(f)) |-> f.shdrs[Before(f)[i]]]
                 \o <<sigHdr>> \o Moved(f, bundle).hdrs
                 \o <<[f.shdrs[Shstrtab(f)] EXCEPT !.off = Len(strOut),
                                                   !.size = Len(strings)]>>
  IN  [out   |-> Aligned(strOut \o strings, ShdrAlign),
       shdrs |-> [i \in 1 .. Len(hdrs) |-> Relinked(f, hdrs[i])]]

(* The parts it aligns are the sections that move and then .shstrtab.  Part *)
(* k starts behind its padding; the parts before it end where that begins.  *)
PartStart(f, bundle, k) ==
  IF k =< Len(After(f)) THEN Moved(f, bundle).hdrs[k].off ELSE Len(StrOut(f, bundle))

PartEnd(f, bundle, k) ==
  IF k = 0 THEN Len(Base(f, bundle))
  ELSE PartStart(f, bundle, k) + Len(SectionData(f, After(f)[k]))

(* alignOutput fails on a part whose padding no slice can hold. *)
Overflows(f, bundle) ==
  {k \in 1 .. Len(After(f)) + 1 : PartStart(f, bundle, k) > MaxInt}

(* The extended section count needs a null section to hold it. *)
CannotEncode(shdrs) == Len(shdrs) >= XIndex /\ shdrs[1].type # "NULL"

MutWriteTables(f, out, hdrs) ==    \* section 0 keeps the old count
  LET n == Len(hdrs)
      ehdr == [f.ehdr EXCEPT !.shoff = Len(out),
                             !.shnum = IF n >= XIndex THEN 0 ELSE n,
                             !.shstrndx = IF n >= XIndex THEN XIndex ELSE n - 1]
  IN  [out EXCEPT ![1] = EhdrCell(ehdr)] \o [i \in 1 .. n |-> ShdrCell(hdrs[i])]

(* The end of saveELFSignature: the section-header table and the ELF        *)
(* header, the counts in section 0 if they do not fit the header.           *)
WriteTables(f, out, hdrs) ==
  LET n == Len(hdrs)
      extended == n >= XIndex
      shdrs == IF extended THEN [hdrs EXCEPT ![1].size = n, ![1].link = n - 1]
                           ELSE hdrs
      ehdr == [f.ehdr EXCEPT !.shoff = Len(out),
                             !.shnum = IF extended THEN 0 ELSE n,
                             !.shstrndx = IF extended THEN XIndex ELSE n - 1]
  IN  [out EXCEPT ![1] = EhdrCell(ehdr)] \o [i \in 1 .. n |-> ShdrCell(shdrs[i])]

(* saveELFSignature, when it succeeds. *)
Save(f, bundle) ==
  WriteTables(f, Layout(f, bundle).out, Layout(f, bundle).shdrs)

(* It gives up at the first part it cannot align, or with its tables; and   *)
(* what it has appended by then.                                            *)
GivesUp(f, bundle) ==
  Overflows(f, bundle) # {} \/ CannotEncode(Layout(f, bundle).shdrs)

Unfinished(f, bundle) ==
  IF Overflows(f, bundle) = {} THEN Layout(f, bundle).out
  ELSE Slice(Layout(f, bundle).out, 0, PartEnd(f, bundle, Min(Overflows(f, bundle)) - 1))

-----------------------------------------------------------------------------
(* Verify, for a signer that is trusted and an ideal signature scheme. *)
Verifies(data) ==
  /\ ParseError(data) = ""
  /\ ~HashFails(Parse(data))
  /\ GetSignature(Parse(data)) # NoBundle
  /\ GetSignature(Parse(data)).hash = HashOf(Parse(data))

(* What linkers write and the gABI asks for, but parseELF does not check:   *)
(* .shstrtab is the section e_shstrndx names, and section 0 is null when    *)
(* the count of sections will be stored in it.                              *)
Kept(h) == {i \in 1 .. Len(h.names) : h.names[i] \notin {SIG, SHSTRTAB}}

NullFirst(h) == /\ h.shdrs[1].type = "NULL"
                /\ h.names[1] \notin {SIG, SYMTAB, STRTAB, SHSTRTAB}

WellFormed(data) ==
  ParseError(data) = "" =>
    LET h == Parse(data)
    IN  /\ Shstrtab(h) \in {0, Shstrndx(data) + 1}
        /\ Cardinality(Kept(h)) + 2 >= XIndex => NullFirst(h)
=============================================================================

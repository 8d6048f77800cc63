------------------------------ MODULE MCElfSign ------------------------------
(***************************************************************************)
(* Images for TLC: every order of a few kinds of sections, laid out as     *)
(* linkers and assemblers do.                                              *)
(***************************************************************************)
EXTENDS ElfSign, TLC

CONSTANTS
  Kinds,        \* kinds of sections besides the null section and .shstrtab
  MaxKinds,     \* how many of them an image has
  Tables,       \* where the section-header table is: "end", "middle"
  Firsts,       \* what section 0 is: "null", or "none" if the first kind is
  Orders,       \* data in the order of the headers ("up") or against it ("down")
  Extended      \* whether counts may be stored in section 0

Plain(n, t, s) == [name |-> n, type |-> t, alloc |-> FALSE, size |-> s, align |-> 1]

Kind == [null |-> Plain("", "NULL", 0),
         text |-> [Plain(".text", "PROGBITS", 2) EXCEPT !.alloc = TRUE],
         bss |-> [Plain(".bss", "NOBITS", 3) EXCEPT !.alloc = TRUE],
         comment |-> Plain(".comment", "PROGBITS", 1),
         rela |-> [Plain(".rela.text", "REL", 1) EXCEPT !.align = 2],
         symtab |-> [Plain(SYMTAB, "SYMTAB", 1) EXCEPT !.align = 2],
         strtab |-> Plain(STRTAB, "STRTAB", 1),
         shstrtab |-> Plain(SHSTRTAB, "STRTAB", 0),
         llvmtab |-> Plain(STRTAB, "STRTAB", 0),
         huge |-> [Plain(".huge", "PROGBITS", 1) EXCEPT !.align = MaxInt + 1],
         bsign |-> Plain(BSIGN, "PROGBITS", 1),
         sig |-> Plain(SIG, "NOTE", 2)]

(* The sequences of distinct kinds that contain shstrtab. *)
KindSeqs ==
  UNION {{s \in [1 .. n -> Kinds \cup {"shstrtab"}] :
            /\ \E i \in 1 .. n : s[i] = "shstrtab"
            /\ \A i, j \in 1 .. n : s[i] = s[j] => i = j} : n \in 1 .. MaxKinds + 1}

Number(s, k) == LET i == SelectInSeq(s, LAMBDA x : x = k)
                IN  IF i = 0 THEN 0 ELSE i - 1

(* The strings of .shstrtab: the empty one, then the sections' names. *)
Strings(s) ==
  <<NameCell("")>> \o [i \in 1 .. Len(s) |-> NameCell(Kind[s[i]].name)]

StringOffset(s, k) == IF k = "null" THEN 0 ELSE Number(s, k) + 1

(* The signature an input already has: of an image nobody has any more. *)
OldBundle == [hash |-> <<<<"old">>>>, len |-> 2]

DataOf(s, k) ==
  CASE k = "shstrtab" -> Strings(s)
    [] k = "llvmtab" -> Strings(s)
    [] k = "sig" -> CreateNote(OldBundle)
    [] Kind[k].type = "NOBITS" -> <<>>
    [] OTHER -> [j \in 1 .. Kind[k].size |-> <<"data", k, j>>]

(* An image of the sections s; the program header, if there is .text, loads *)
(* it.                                                                      *)
Image(s, table, order, ext) ==
  LET ph == IF Contains(s, "text") THEN 1 ELSE 0
      first == IF table = "middle" THEN 1 + ph + Len(s) ELSE 1 + ph
      place(acc, k) ==
        LET gap == IF Kind[k].align = 2 /\ (first + Len(acc.out)) % 2 = 1 THEN 1 ELSE 0
        IN  [out |-> acc.out \o Zeroes(gap) \o DataOf(s, k),
             off |-> [acc.off EXCEPT ![k] = first + Len(acc.out) + gap]]
      body == FoldLeft(place, [out |-> <<>>, off |-> [k \in ToSet(s) |-> 0]],
                       IF order = "up" THEN s ELSE Reverse(s))
      shdr(k) ==
        [name |-> StringOffset(s, k), type |-> Kind[k].type,
         alloc |-> Kind[k].alloc, off |-> IF k = "null" THEN 0 ELSE body.off[k],
         size |-> IF k \in {"shstrtab", "llvmtab"} THEN Len(Strings(s))
                  ELSE IF k = "null" /\ ext THEN Len(s) ELSE Kind[k].size,
         link |-> CASE k = "symtab" -> Number(s, "strtab")
                    [] k = "rela" -> Number(s, "symtab")
                    [] k = "null" /\ ext -> Number(s, "shstrtab")
                    [] OTHER -> 0,
         info |-> IF k = "rela" THEN Number(s, "text")
                  ELSE IF k = "null" /\ ext THEN ph ELSE 0,
         align |-> Kind[k].align]
      shdrs == [i \in 1 .. Len(s) |-> ShdrCell(shdr(s[i]))]
      phdrs == IF ph = 0 THEN <<>>
               ELSE <<PhdrCell([type |-> "LOAD", off |-> body.off["text"],
                                filesz |-> Kind["text"].size])>>
      ehdr == [machine |-> "x86-64",
               phoff |-> ph,
               phnum |-> IF ext /\ ph > 0 THEN XIndex ELSE ph,
               shoff |-> IF table = "middle" THEN 1 + ph ELSE first + Len(body.out),
               shnum |-> IF ext THEN 0 ELSE Len(s),
               shstrndx |-> IF ext THEN XIndex ELSE Number(s, IF Contains(s, "llvmtab") THEN "llvmtab" ELSE "shstrtab")]
  IN  <<EhdrCell(ehdr)>> \o phdrs
      \o (IF table = "middle" THEN shdrs \o body.out ELSE body.out \o shdrs)

(* LLVM keeps section names in .strtab and writes no .shstrtab; the hash is *)
(* defined for other machines than Sign supports.                           *)
Unsupported ==
  LET plain == Image(<<"null", "text", "shstrtab">>, "end", "up", FALSE)
  IN  {Image(<<"null", "text", "llvmtab">>, "end", "up", FALSE),
       [plain EXCEPT ![1] = EhdrCell([plain[1][2] EXCEPT !.machine = "other"])]}

MCInputs ==
  Unsupported \cup
  {Image(s, t, o, FALSE) :
     s \in (IF "null" \in Firsts THEN {<<"null">> \o s : s \in KindSeqs} ELSE {})
           \cup (IF "none" \in Firsts THEN {s \in KindSeqs : s[1] # "sig"} ELSE {}),
     t \in Tables, o \in Orders}
  \cup
  (IF Extended
   THEN {Image(<<"null">> \o s, t, o, TRUE) : s \in KindSeqs, t \in Tables, o \in Orders}
   ELSE {})

(* Images with few sections, and images with a null section 0, are as the   *)
(* proofs about Sign assume.                                                *)
NullFirstImages ==
  {data \in Inputs : ParseError(data) = "" /\ NullFirst(Parse(data))}

ASSUME InputsAssumption == \A data \in Inputs : Typed(data) /\ Len(data) =< MaxInt
ASSUME WellFormedAssumption ==
  \A data \in IF XIndex > MaxKinds + 3 THEN Inputs ELSE NullFirstImages : WellFormed(data)
ASSUME RegularAssumption ==
  \A data \in NullFirstImages : Regular(data) /\ Linked(data)
ASSUME FitsHeaderAssumption ==
  ~Extended => \A data \in NullFirstImages : FitsHeader(data) /\ ~Verifies(data)
=============================================================================

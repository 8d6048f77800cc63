------------------------------- MODULE ElfSign -------------------------------
(***************************************************************************)
(* Sign of pkg/signature/elf/inhouse/sign.go on one image: parse, then at  *)
(* most three rounds of hash, sign, embed and re-parse.  The caller passes *)
(* a slice by reference: Sign replaces it by every image it has embedded a *)
(* signature in, and saveELFSignature writes into the slice's own array as *)
(* long as its capacity allows.  Signing a signed image replaces the       *)
(* signature.                                                              *)
(***************************************************************************)
EXTENDS ElfImage

CONSTANTS
  Inputs,       \* images that may be signed
  BundleLens,   \* cells a signature bundle may take
  MaxAttempts,  \* maxSignatureEmbedAttempts
  MaxSigns      \* bound on the calls of Sign on one image

ASSUME SignAssumption ==
  /\ BundleLens \subseteq Nat \ {0}
  /\ MaxAttempts \in Nat \ {0}
  /\ MaxSigns \in Nat \ {0}

VARIABLES
  original,     \* the image before the first call, or as a call abandoned it
  given,        \* the image this call was given
  image,        \* *elfBytes
  file,         \* what f has been parsed from
  bundle,       \* the bundle this round embeds
  attempt,      \* rounds completed
  signs,        \* calls begun
  pc,           \* where Sign is
  result        \* what it returned: "ok" or an error

vars == <<original, given, image, file, bundle, attempt, signs, pc, result>>

Init ==
  /\ original \in Inputs
  /\ given = original
  /\ image = original
  /\ file = <<>>
  /\ bundle = NoBundle
  /\ attempt = 0
  /\ signs = 1
  /\ pc = "parse"
  /\ result = ""

Parsed == Parse(file)

Finish(r) ==
  /\ pc' = "done"
  /\ result' = r
  /\ file' = <<>>
  /\ bundle' = NoBundle

(* parseELF and supportedMachine, on what elfBytes points to. *)
Acceptable(data) == ParseError(data) = "" /\ Ehdr(data).machine # "other"

ParseInput ==
  /\ pc = "parse"
  /\ Acceptable(image)
  /\ file' = image
  /\ pc' = "sign"
  /\ UNCHANGED <<original, given, image, bundle, attempt, signs, result>>

RejectInput ==
  /\ pc = "parse"
  /\ ~Acceptable(image)
  /\ Finish("rejected")
  /\ UNCHANGED <<original, given, image, attempt, signs>>

(* computeELFHash and signature.Sign: the hash is the file's. *)
SignHash ==
  /\ pc = "sign"
  /\ ~HashFails(Parsed)
  /\ \E n \in BundleLens : bundle' = [hash |-> HashOf(Parsed), len |-> n]
  /\ pc' = "save"
  /\ UNCHANGED <<original, given, image, file, attempt, signs, result>>

(* The hash cannot be computed, or the signer (Vault, say) fails. *)
FailSignHash ==
  /\ pc = "sign"
  /\ Finish("not signed")
  /\ UNCHANGED <<original, given, image, attempt, signs>>

(* saveELFSignature succeeds, and *elfBytes is replaced. *)
Embed ==
  /\ pc = "save"
  /\ ~Refuses(Parsed)
  /\ ~GivesUp(Parsed, bundle)
  /\ image' = Save(Parsed, bundle)
  /\ pc' = "check"
  /\ UNCHANGED <<original, given, file, bundle, attempt, signs, result>>

MutRefuseEmbed ==            \* refuses only after the note has been written
  /\ pc = "save"
  /\ Refuses(Parsed)
  /\ image' = SubSeq(Slice(Parsed.data, 0, ContentEnd(Parsed)) \o CreateNote(bundle)
                     \o Parsed.data, 1, Len(image))
  /\ Finish("refused")
  /\ UNCHANGED <<original, given, attempt, signs>>

(* saveELFSignature refuses before it writes. *)
RefuseEmbed ==
  /\ pc = "save"
  /\ Refuses(Parsed)
  /\ Finish("refused")
  /\ UNCHANGED <<original, given, image, attempt, signs>>

(* saveELFSignature gives up after some of its appends: those that fitted   *)
(* the array have overwritten the caller's cells behind the content.        *)
AbandonEmbed ==
  /\ pc = "save"
  /\ ~Refuses(Parsed)
  /\ GivesUp(Parsed, bundle)
  /\ LET out == Unfinished(Parsed, bundle)
     IN  \E n \in ContentEnd(Parsed) .. Min({Len(out), Len(image)}) :
           image' = SubSeq(out, 1, n) \o SubSeq(image, n + 1, Len(image))
  /\ Finish("abandoned")
  /\ UNCHANGED <<original, given, attempt, signs>>

(* parseELF and computeELFHash on what was written. *)
RejectEmbedded ==
  /\ pc = "check"
  /\ ParseError(image) # "" \/ HashFails(Parse(image))
  /\ Finish("not reparsed")
  /\ UNCHANGED <<original, given, image, attempt, signs>>

MutCheckEmbedded ==          \* the updated hash is not compared
  /\ pc = "check"
  /\ ParseError(image) = "" /\ ~HashFails(Parse(image))
  /\ attempt' = attempt + 1
  /\ Finish("ok")
  /\ UNCHANGED <<original, given, image, signs>>

MutRounds ==                 \* one round too many
  /\ pc = "check"
  /\ ParseError(image) = "" /\ ~HashFails(Parse(image))
  /\ attempt' = attempt + 1
  /\ \/ /\ HashOf(Parse(image)) = bundle.hash
        /\ Finish("ok")
     \/ /\ HashOf(Parse(image)) # bundle.hash
        /\ attempt < MaxAttempts
        /\ file' = image
        /\ pc' = "sign"
        /\ UNCHANGED <<bundle, result>>
  /\ UNCHANGED <<original, given, image, signs>>

(* The signature stands if the hash it covers is still the image's hash;    *)
(* otherwise the next round starts from what was written.                   *)
CheckEmbedded ==
  /\ pc = "check"
  /\ ParseError(image) = "" /\ ~HashFails(Parse(image))
  /\ attempt' = attempt + 1
  /\ \/ /\ HashOf(Parse(image)) = bundle.hash
        /\ Finish("ok")
     \/ /\ HashOf(Parse(image)) # bundle.hash
        /\ attempt + 1 = MaxAttempts
        /\ Finish("not stable")
     \/ /\ HashOf(Parse(image)) # bundle.hash
        /\ attempt + 1 < MaxAttempts
        /\ file' = image
        /\ pc' = "sign"
        /\ UNCHANGED <<bundle, result>>
  /\ UNCHANGED <<original, given, image, signs>>

(* The caller signs the image again, even one that was abandoned. *)
SignAgain ==
  /\ pc = "done"
  /\ signs < MaxSigns
  /\ signs' = signs + 1
  /\ original' = IF result = "abandoned" THEN image ELSE original
  /\ given' = image
  /\ attempt' = 0
  /\ pc' = "parse"
  /\ result' = ""
  /\ UNCHANGED <<image, file, bundle>>

Next ==
  \/ ParseInput \/ RejectInput
  \/ SignHash \/ FailSignHash
  \/ Embed \/ RefuseEmbed \/ AbandonEmbed
  \/ RejectEmbedded \/ CheckEmbedded
  \/ SignAgain

Spec == Init /\ [][Next]_vars
-----------------------------------------------------------------------------
Signed == pc = "done" /\ result = "ok"

(* Sections the signature does not own, the null section aside; the n-th   *)
(* of one image is the n-th of the other.                                   *)
Own(h) == Collect(Len(h.names),
                  {i \in 1 .. Len(h.names) : /\ h.names[i] \notin {SIG, SHSTRTAB}
                                             /\ h.shdrs[i].type # "NULL"})

Content(h) ==
  [n \in 1 .. Len(Own(h)) |->
     LET i == Own(h)[n] IN <<h.names[i], h.shdrs[i].type, h.shdrs[i].alloc,
                             h.shdrs[i].align, SectionData(h, i)>>]

(* The section a section number names; 0 names none. *)
Target(h, k) == IF k = 0 THEN "" ELSE h.names[k + 1]

(* The cells a program header loads, the ELF header excepted. *)
Segment(h, ph) == SubSeq(h.data, Max({ph.off, 1}) + 1, ph.off + ph.filesz)

(* The parts of an image, as sets of offsets. *)
Parts(h) ==
  LET range(off, n) == off .. (off + n - 1)
  IN  <<range(0, 1), range(h.ehdr.phoff, Len(h.phdrs)),
        range(h.ehdr.shoff, Len(h.shdrs))>>
      \o [i \in 1 .. Len(h.shdrs) |->
            IF HasData(h.shdrs[i]) /\ h.shdrs[i].type # "NULL"
            THEN range(h.shdrs[i].off, h.shdrs[i].size) ELSE {}]

Overlapping(h) ==
  \E i, j \in 1 .. Len(Parts(h)) : i < j /\ Parts(h)[i] \cap Parts(h)[j] # {}

(* What linkers write, and Sign's promises about what it keeps depend on:   *)
(* section 0 is null, and no other null section has data; sections with     *)
(* data lie within the file; the parts of the file do not overlap; and no   *)
(* segment loads a section-header table that ends the file.                 *)
Regular(data) ==
  ParseError(data) = "" =>
    LET h == Parse(data)
    IN  /\ Shstrtab(h) \in {0, Shstrndx(data) + 1}
        /\ NullFirst(h)
        /\ \A i \in 2 .. Len(h.shdrs) :
             DataReadable(h, i) /\ (h.shdrs[i].type = "NULL" => ~HasData(h.shdrs[i]))
        /\ ~Overlapping(h)
        /\ \A ph \in ToSet(h.phdrs) : ph.filesz # 0 =>
             /\ ph.off + ph.filesz =< Len(data)
             /\ h.ehdr.shoff + Len(h.shdrs) = Len(data) =>
                  ph.off + ph.filesz =< h.ehdr.shoff

(* For what it renumbers, also: one .shstrtab, and no dangling links.       *)
OneTable(h) == \A i \in 1 .. Len(h.names) : h.names[i] = SHSTRTAB => i = Shstrtab(h)

Linked(data) ==
  ParseError(data) = "" =>
    LET h == Parse(data)
    IN  /\ OneTable(h)
        /\ \A n \in 1 .. Len(Own(h)) :
             LET x == h.shdrs[Own(h)[n]]
             IN  /\ x.link < Len(h.shdrs)
                 /\ x.type = "REL" => x.info < Len(h.shdrs)

(* For signing again: the counts fit the ELF header before and after (else  *)
(* contentEndOffset takes the count in section 0 for data), and without     *)
(* program headers e_phoff is 0.                                            *)
FitsHeader(data) ==
  ParseError(data) = "" =>
    LET h == Parse(data)
    IN  /\ h.shdrs[1].size = 0
        /\ Len(NewOrder(h)) < XIndex
        /\ h.phdrs = <<>> => h.ehdr.phoff = 0

TypeOK ==
  /\ attempt \in 0 .. MaxAttempts
  /\ signs \in 1 .. MaxSigns
  /\ bundle = NoBundle \/ bundle.len \in BundleLens
  /\ pc \in {"parse", "sign", "save", "check", "done"}
  /\ result \in {"", "ok", "rejected", "not signed", "refused", "abandoned",
                 "not reparsed", "not stable"}

(* An image Sign reports as signed is one Verify accepts, and it has one    *)
(* signature section.                                                       *)
SignedVerifies ==
  Signed => /\ Verifies(image)
            /\ Cardinality({i \in 1 .. Len(Parse(image).names) :
                              Parse(image).names[i] = SIG}) = 1

(* Embedding does not change the hash of an image whose section 0 is null   *)
(* (hash.go:16), and of no other image more than once: a second round       *)
(* settles it, the third is never needed.                                   *)
Stabilizes ==
  pc = "done" =>
    /\ attempt =< 2
    /\ attempt = 2 \/ result = "not stable" =>
         Parse(original).shdrs[1].type # "NULL"
    /\ result = "not stable" => MaxAttempts = 1

(* What saveELFSignature has written parseELF can read and computeELFHash   *)
(* can hash, unless the note is the section that exceeds the limit.         *)
EmbeddedParses ==
  pc = "check" =>
    \/ ParseError(image) = "" /\ ~HashFails(Parse(image))
    \/ ParseError(image) = "section limit" /\ Len(Parsed.shdrs) = MaxSections

(* Signing keeps what the image holds: the sections, in order, with their   *)
(* data, and the program headers with what they load ("Existing program     *)
(* header file offsets are preserved", writer.go:18).                       *)
ContentKept ==
  Signed =>
    LET a == Parse(original)
        b == Parse(image)
    IN  /\ Content(a) = Content(b)
        /\ a.phdrs = b.phdrs
        /\ \A ph \in ToSet(a.phdrs) : Segment(a, ph) = Segment(b, ph)

(* sh_link, and sh_info of relocations, still name the sections they named  *)
(* (0 names none), unless that was the old signature.                       *)
LinksKept ==
  Signed =>
    LET a == Parse(original)
        b == Parse(image)
    IN  \A n \in 1 .. Len(Own(a)) :
          LET x == a.shdrs[Own(a)[n]]
              y == b.shdrs[Own(b)[n]]
          IN  /\ Target(a, x.link) # SIG => Target(a, x.link) = Target(b, y.link)
              /\ x.type = "REL" /\ Target(a, x.info) # SIG =>
                   Target(a, x.info) = Target(b, y.info)

(* The parts of a signed image do not overlap, and its table ends it. *)
LayoutSound ==
  Signed =>
    LET b == Parse(image)
    IN  /\ ~Overlapping(b)
        /\ b.ehdr.shoff % ShdrAlign = 0
        /\ b.ehdr.shoff + Len(b.shdrs) = Len(image)

(* Signatures do not pile up.  An image whose note is where Sign would put  *)
(* it, right before the first of .symtab, .strtab and .shstrtab, is not     *)
(* changed by signing it again with a bundle of the same length.  A first   *)
(* signing may leave the note elsewhere (when other sections follow         *)
(* .shstrtab); then a second one puts it right for good.                    *)
NoteInPlace(data) ==
  FindSection(Parse(data), SIG) + 1 = InsertPos(Parse(data))

ResignIdempotent ==
  Signed /\ Verifies(given) =>
    /\ NoteInPlace(image)
    /\ NoteInPlace(given) /\ GetSignature(Parse(given)) = GetSignature(Parse(image))
         => image = given

(* data has the program headers of image a, where a has them, and the cells *)
(* they load.                                                               *)
Loads(a, data) ==
  LET h == Parse(a)
  IN  /\ \A i \in 1 .. Len(h.phdrs) : data[Ehdr(a).phoff + i] = a[Ehdr(a).phoff + i]
      /\ \A ph \in ToSet(h.phdrs) : Segment(h, ph) = Segment([data |-> data], ph)

(* A call that gives up has overwritten no program header, and nothing a    *)
(* segment loads, however much of the note and of the moved sections has    *)
(* gone into the caller's array (writer.go:94-116, 174-176).                *)
AbandonedLoads ==
  pc = "done" /\ result = "abandoned" => Loads(original, image)

(* When Sign refuses an image, or its signer fails in the first round, the  *)
(* caller still has the image it passed.                                    *)
FailureKeepsInput ==
  pc = "done" /\ attempt = 0 /\ result \in {"rejected", "refused", "not signed"} =>
    image = given
=============================================================================

# A TLA+ model of delivery-kit-sdk

The SDK signs container image manifests and ELF files, with keys held in
HashiCorp Vault or in files, and verifies those signatures against root
certificates. This directory holds TLA+ modules for the parts whose correctness
depends on interleavings, on time, on failures in the middle of an operation,
or on offsets and section numbers that move; the configurations with which TLC
checks them; and proofs that TLAPS checks. `PROJECT.json` is the index: which
definition translates which lines, which run checks what, which plausible
mistakes each property detects (the `Mut...` operators), which hazards the code
has.

Paths are relative to `src/`; `HV` stands for `pkg/signver/hashivault` and `ELF`
for `pkg/signature/elf/inhouse`.

## 1. Inventory

| component | state | operations | hard because | correct if | status |
|---|---|---|---|---|---|
| Vault login (`HV/auth_base.go`, `auth_jwt.go`, `auth_approle.go`) | `tokenID`, `tokenTTL`, `tokenIssuedAt` under `mu`; the token of the shared `vault.Client` | `Login`, `login`, `isTokenValid`, `TokenTTL` | goroutines share the authenticator *and* the client; some reads are unlocked; replies are late or lost; tokens expire | the fields belong to one token; no expired token is used; no foreign token is sent | modelled: `VaultAuth`, implementing `Credential` |
| Vault transit client (`HV/client.go`, `signer.go`, `util.go`) | public-key cache with TTL | `public`, `fetchPublicKey`, `sign`, `verify`, `createKey` | keys rotate behind a cache that is not told; loaders overlap; defaults for key versions differ | served keys are stale for a bounded time; a signer's key, signatures and verification agree | partly: `VaultKey`, `Signer` |
| static token (`HV/auth_static.go`) | a token | `Login` | a fixed TTL of 300 s feeds the key cache | | partly: made in `AuthSelect`, its TTL in `VaultKey` |
| choice of authenticator (`HV/auth_factory.go`, `config_*.go`) | environment | `newAuthenticator` | priorities, incomplete settings, variables left over from elsewhere or set to nothing | explicit options are never given up for the environment; leftovers do not change the identity | modelled: `AuthSelect`, `Signer` |
| JWT providers, HTTP client, key references | none | `GetToken`, `parseReference` | | | not modelled: stateless I/O, a regular expression |
| ELF parser, hash, note, writer (`ELF/file.go`, `hash.go`, `note.go`, `writer.go`) | an image | `parseELF`, `computeELFHash`, `saveELFSignature`, `getELFSignature` | sections move, numbers and names shift, counts overflow into section 0, the input's array is reused, also by calls that fail | content, links and segments survive; no overlap; the writer's output parses | modelled: `ElfImage` |
| ELF `Sign` / `Verify` (`ELF/sign.go`) | the caller's slice | `Sign`, `Verify` | the signature is stored in what it signs; errors in the middle; signing again | what is signed verifies; the loop ends; signatures do not pile up | modelled: `ElfSign` |
| bundle and manifest (`pkg/signature/bundle.go`, `image/manifest.go`) | annotations | `Sign`, `VerifyBundle`, `verifyChainWithAnyRoot`, payload hash | several roots, annotations that are part of the payload and come out of a map, the bundle's own among them | what is accepted was signed; what was signed verifies, also when signed again | modelled: `Bundle`, `Signer` |
| `SignerVerifier` and certificates (`pkg/signver/*.go`) | certificate and chain, fixed at load | `NewSignerVerifier`, `VerifyCert`, `VerifyChain`, `ConcatChain` | the key may rotate after the certificate was compared with it; certificates expire | accepted chains end in a root that was asked for; a certificate is outdated at most | modelled: `Certificates`, `Signer` |
| key files (`key_loader.go`, `blob`, `pass`) | none | load, decrypt | | | partly: one step of `Signer` that succeeds or fails |
| dm-verity (`pkg/integrity/dmverity.go`, `internal/exec/cancel.go`) | a temporary directory, child processes, a copying goroutine, the caller's files | root hash of an image or layer, image file, hash file | cancellation, an input that breaks off, tools that obey SIGTERM with status 0, cleanup | a hash that is returned is that of the whole input; nothing is left behind; a cancelled call ends | modelled: `DMVerity` |
| test helpers (`test/`) | | | | | not modelled |

How they interact: a `SignerVerifier` owns one `hashivaultClient`, which owns
one `vault.Client`, one key cache and one authenticator. Every `sign`, `verify`,
`fetchPublicKey` and `createKey` first calls `auth.Login(h.client)`, which
installs a token in the client, and then sends one request with whatever token
the client holds at that moment. The key cache takes its TTL from
`auth.TokenTTL()`. `Sign` of ELF calls `signature.Sign`, which calls the
`SignerVerifier`; a failure there comes back to `Sign` in the middle of its loop.
Manifests are signed through the same `signature.Sign`; verifying needs no signer,
only the bundle and root references. The dm-verity functions stand alone.

The hazards this leads to are listed in `PROJECT.json`, each at its line.

## 2. Modules

```
Credential <- VaultAuth <- VaultAuthProofs <- MCVaultAuth            vault_auth*.cfg
VaultKey   <- VaultKeyProofs                                         vault_key*.cfg
ElfImage   <- ElfSign <- MCElfSign                                   elf_sign*.cfg
              ElfSign        <- ElfVerifyProofs <- ElfResignProofs
ElfImage   <- ElfImageProofs <- ElfVerifyProofs
DMVerity   <- DMVerityProofs                                         dm_verity.cfg
Certificates <- Bundle <- Signer <- SignerProofs <- SignerChainProofs
          AuthSelect   <- Signer <- MCSigner                         signer*.cfg
```

`A <- B`: B extends A, or, for `Credential`, instantiates it. `MC...` modules hold
symmetry sets and input generators only.

### VaultAuth

A process is a goroutine in one of the four operations of `client.go`, which all
have the shape *Login, one request*. Actions and code:

| action | code |
|---|---|
| `ReuseToken`, `NeedLogin` | `isTokenValid()` in `Login`: one atomic step, since `mu` is held throughout |
| `RequestLogin`, `Grant`, `GrantNothing`, `FailLogin` | `Logical().Write(".../login")`: the request, Vault's answer with a token, without one, an error at any point |
| `StoreID`, `StoreTTL`, `StoreIssuedAt` | `mu.Lock`, three stores, `mu.Unlock`, a step each |
| `BeginRead`, `SetToken` | `client.SetToken(b.tokenID)`: the argument is read without `mu`, so the read takes two steps and may return the old string, the new one or `Torn` |
| `SendOp`, `ReturnOp` | the request with the client's token at that moment; its outcome |
| `Tick` | time |

The code bounds no delay. `ReplyBound` names the time from the issue of a token
to the end of its store, `UseBound` the time from its check (or store) to Vault's
answer; `Tick` is disabled where a delay would exceed its bound. The formula
`MarginSuffices` says when the 30 seconds of `isTokenValid` absorb them:
`ReplyBound + 2 * UseBound =< Margin`, and every TTL is longer than that sum. (The
time of use counts twice: a request may carry a token that *another* goroutine
checked earlier.) Locals that are dead are reset so that the state space stays
small; no step depends on it. Revocation of tokens by Vault is not modelled.

`Credential` is what all this is for, without goroutines, caches, locks and margins:
Vault issues tokens; an operation carries one that was issued to this client and stays
alive until the answer, or visibly none. `KeepsPromise` says that `VaultAuth`
implements it; the mapping takes the tokens of the requests in flight for `carried`.

### VaultKey

A key is its version, `latest` is Vault's. `Hit`, `Miss`, `ReadKey`, `StoreKey`
and `FailFetch` are `public()` and its loader, which runs without the cache's lock:
between `ReadKey` and `StoreKey` others may rotate, store and expire. TTLs come from
the tokens; 0, that of a token without expiry, is no TTL to the cache. `CreateKey` is
`createKey` on a key that exists (loading a signer requires it). `Sign` and `Verify`
are the defaults and options for key versions: none, 0, a number, or no number, which
is what `KeyVersionUsed` returns; `EnvPrefix` is `VAULT_KEY_PREFIX`. `wanted` and `asked`
remember what a caller named when it signed and when it verified: `NamedVersionVerifies`
says that the two defaults do no harm to callers who name a version. Ages stand for
clocks; they saturate at `AgeCap`, which exceeds every age the properties distinguish
(`BoundsAssumption`).

### DMVerity

One caller calls the four operations in any order. A call is a sequence of steps
(`version`, `mkfs`, `truncate`, `veritysetup`), and all but `truncate` run a child:
`Start`, the child's exit with status 0 or otherwise, `Signal` and `Overrun` for
what `internal/exec/cancel.go` sets up, `Wait`. `mkfs.erofs` reads its input through
a goroutine of `os/exec`, here the *copier*, which may fail half-way; the child then
sees the end of its input, not an error. `Built` is what may be in the image after
status 0: the layer if all of it was delivered, half an image if the input broke off or
the tool was told to stop. `RunOK` is what decides whether Go reports an error.
Files are in the temporary directory of the call or in the caller's own (`Dir`).
`CreateHashImageFile` drops the hash that `veritysetup` prints, so only the calls in
`Hashing` return one. `os.RemoveAll` may fail (`stuck`), and as its error is ignored the
caller is not told: `NothingLeftBehind` excepts that directory and nothing else.
The tools, `os/exec` and the copier are external and modelled by what the code
relies on; in particular `os/exec` waits for the copier even after `WaitDelay`.

### AuthSelect, Certificates, Bundle and Signer

Three modules of operators, one for each part of what a signer is made of, and one
state machine over them.

`AuthSelect`: a string is the name of where it comes from, so that an authenticator
tells which variables and options its credentials were taken from. An environment is a
function from the variables that are *set*, to the empty string some of them:
`env.GetString` falls back on its default only when a variable is not set, so that an empty
`WERF_VAULT_AUTH_ROLE_ID` masks `VAULT_ROLE_ID` and the choice goes on to the next method
(`auth_factory_test.go:23-26` says so, too).
`Certificates`: a certificate is a record, a reference the sequence of certificates it
reads as. `CurrentTime` is the code's choice to check paths at the leaf's own start.
`Bundle`: texts are sequences of letters, a payload is all parts of a manifest joined
without separators, as in the code; hash and signature are ideal. `Orders` is the set
of orders in which annotations may be joined: just one, as they are sorted.

`Signer` loads a signer step by step (`OpenVault`, `LoadKey` or `RejectKeyRef`;
`FetchKey`, `RefetchKey`, `LoadCert`, each of which may fail), signs a manifest and
verifies it, loads the signer again, while `Rotate`, `Tick` and `Edit` do the rest of the
world. The verdict of `Verify` lasts until the next step. The signer's cached public
key is `VaultKey`'s subject: `RefetchKey` is the case of an expired cache. A signer that
cannot be opened is the end of a behaviour; `OpenVault` may fail on its reference or
address whatever the authenticator.

### ElfImage and ElfSign

An image is a sequence of cells: a header, a name or a datum each. The parser reads
everything from the cells, tables included, so that the writer's mistakes are seen
as a reader would see them. Hash and bundle are ideal: a hash is the sequence of
items it covers, a bundle names its hash. A loop over
the section headers that picks some of them is `Collect`; the cells that `PlaceAfter`
has written so far are a recursive function of the sections moved. `ElfSign` takes `Sign` apart into parse,
hash and sign, embed, and re-parse and compare, with an action per error and what it
leaves in the caller's slice. `AbandonEmbed` stands for the errors after the writer's
first append (`GivesUp`): `alignOutput` fails on padding that no slice can hold, `MaxInt`
being the longest slice, or there is no null section for the count. Any prefix of what it
had appended by then (`Unfinished`) may have overwritten the input's array. The caller
may sign what is left; `original` is then that image, since nothing else is promised of
it. What the writer refuses (`Refuses`) it refuses before its first append.

Abstracted: byte encodings, entry sizes, classes and machines other than one that is
supported and one that is not, overflow of 64-bit offsets, memory that runs out below
`MaxInt`, the contents of sections. `SHF_ALLOC` is the only flag. `MCElfSign` generates the images: every sequence of
distinct kinds of sections (`.text` with a program header, `.bss`, `.comment`,
relocations, symbols, strings, one with an alignment greater than `MaxInt`, the legacy
`signature`, an old signature of a foreign layout), the table in the middle or at the end, data in or against the order of the
headers, counts in the header or in section 0, with or without a null section.

Four predicates name what linkers write, which the code relies on and does not check;
the theorems of section 5 have them as hypotheses, about `original` only: the image as
it was before the first signing, or as the last call that gave up left it. (`Typed`, the
hypothesis they share, says that the headers' fields are of their types.) `WellFormed`: `.shstrtab` is the section that `e_shstrndx` names, and
section 0 is null if a count must go there. `Regular`, also: section 0 is null in any
case, sections lie within the file, the parts of the file do not overlap, and no segment
loads a table of section headers that ends the file. `Linked`: there is one `.shstrtab`,
and no link dangles. `FitsHeader`: no count is stored in section 0, before or after
signing, and `e_phoff` is 0 without program headers. All four hold of an image that
`parseELF` rejects. `MCElfSign` assumes, and TLC therefore checks, that all images with a
null section are regular and linked and, in `elf_sign`, fit their headers and are not
signed yet, so that the theorems speak of those the runs explore; the runs also
explore images without a null section, where `Stabilizes` allows a second round.

## 3. Runs

| run | question | bounds |
|---|---|---|
| `vault_auth` | does the token cache hold together when the margin suffices, and implement `Credential`? | 2 goroutines, 3 tokens, TTL 0 or 5, margin 3, delays 1, clock to 5 |
| `vault_auth_live` | does every operation return? | 2 goroutines, 2 tokens |
| `vault_auth_torn` | can the unlocked read return no token? (yes) | 2 goroutines |
| `vault_auth_late` | can a slow reply make an expired token valid? (yes) | replies up to 3, margin 1 |
| `vault_key` | how stale can a served key be, does the cache catch up with rotation, and do named versions survive it? | 2 goroutines, 3 versions, TTL 0, 1 or 2, fetches up to 1, no key-version option, 1, 2 and no number, `VAULT_KEY_PREFIX` = 2 |
| `vault_key_public`, `vault_key_verify` | do key, signature and verification agree as documented? (no) | 1 rotation |
| `elf_sign` | sign and sign again, what errors half-way leave included | up to 3 kinds of 8 and `.shstrtab`, 11666 images, `MaxInt` 100 |
| `elf_sign_limits` | the same around extended numbering and the section limit, one round | threshold 5, limit 6, up to 4 kinds of 6 |
| `dm_verity` | is a root hash that of the whole input, and does a cancelled call end? | 2 layers, any number of calls, a directory that cannot be removed |
| `signer` | what is verified, and under which identity is it signed? | 2 versions and a file key, clock to 2, 8 certificates, 6 root references, 3 sets of annotations, environments as below |
| `signer_window` | is a signature made after its certificate expired refused? (no) | the same, two kinds of settings |

Why the bounds suffice. A race over the token needs two goroutines, the one that
stores and the one that reads; three tokens let the cache be replaced twice, and the
clock reaches the end of the first lease, past its margin. The theorems of section 5
remove the bounds altogether. In `vault_key` three versions allow a late store
over a newer key with a rotation after it. For ELF images, what matters is which
section comes before which, at most three of them besides the string table (the
section that moves, its link target, and the one between), and the alignment of two
cells; the runs take all orders. Two signings show idempotence; a first one may
leave the note behind sections that a second one then puts before it (see
`ResignIdempotent`), and the second one is checked from that state, too. `dm_verity`
has no bound but the two layers that tell the input of one call from that of the call
before. For `signer`, one rotation separates the certificate from the key, the
certificates are those of both versions, of the file and of a foreign root, one with an
SCT and an intermediate that expires early, and two of the annotations differ but
read the same when joined. The environments are all sets of variables (the two that
all methods share together) with either, both or none of the two that mask others
set to nothing, and the full environment with any of its variables set to nothing. No image
is longer than `MaxInt`, which only the alignment of the section `huge` exceeds. The checks of `elf_sign*` and `signer*` allow deadlock: the
caller may be done, or have no signer.

Properties, in short:

- `CredentialConsistent`, `ExpiredTokenNotReused`, `OperationTokenLive`,
  `RequestProvenance`, `OperationEnds`, `KeepsPromise` (VaultAuth);
- `StalenessBounded`, `CacheCatchesUp`, `NamedVersionVerifies` (VaultKey);
- `SignedVerifies`, `Stabilizes`, `ContentKept`, `LinksKept`, `LayoutSound`,
  `ResignIdempotent`, `FailureKeepsInput`, `AbandonedLoads`, `EmbeddedParses` (ElfSign);
- `HashOfWholeLayer`, `NothingLeftBehind`, `TreeOfImage`, `PartialImageReported`,
  `CancellationEnds` (DMVerity);
- `SignedVerifies`, `AcceptedWasSigned`, `Rooted`, `RootOrderIrrelevant`,
  `RotationOnlyOutdates`, `OptsIgnoreEnv`, `EnvPriority` (Signer).

Some of these are weaker than a reader might expect, because the code is. Their
comments say where: a bundle can be carried over to other annotations that read the
same when joined (`AcceptedWasSigned`); a caller who passes an empty root
reference lets the bundle name its own root (`Rooted`); after a rotation a signer makes
bundles nobody accepts until it is loaded with a new certificate (`SignedVerifies` asks
for `Matches`, `RotationOnlyOutdates` says it is all that can go wrong); an unreadable
root reference hides those after it; half an image left by a failed
`CreateErofsImage` is hashed like any other (`PartialImageReported`); an image that
`Sign` gave up on half-way keeps its program headers and what they load, not its sections
(`AbandonedLoads`). The hazards behind some of these exceptions have no property that would
catch them, and `PROJECT.json` says so at each.

`EnvPriority` is about one variable `x` of an environment in env-mode, the environment without
`x` being the other side: `x` makes no difference; or the signer acts on `x`, or cannot be
made because of it, by a method no further down the order; or `x` is set to nothing and masks
what would have been used. So no variable that is left over can move the choice to an
identity that the variable does not name.

`Stabilizes` says that the loop of `Sign` needs a second round only for images whose
section 0 is not null and the third one never: `MaxAttempts` could be 2.

`ResignIdempotent` is checked, and proved, for counts that fit the header. Under extended numbering
`contentEndOffset` takes the null section's `sh_size`, which then is the section
count, for data at offset 0, and when that exceeds the end of the real content it
decides where the note goes: a second signing may then move the note (TLC finds this when the property is
added to `elf_sign_limits`). The image still verifies and keeps its content; no doc
promises more, so it is recorded as a hazard and not as a finding.

### What the violations show

Five runs state what a comment or the README of `HV` says, and fail; `PROJECT.json`,
"findings", quotes the lines. In short: (1) `tokenID` is read without the mutex that
is said to protect it. (2) The lease of a token is measured from the storing of the
reply, not from its issue; a reply slower than the margin makes an expired token
valid, and the client has no timeout. (3) After a rotation `PublicKey` returns a key
that does not match new signatures until its TTL is over, and (4) `VerifySignature`
assumes version 1. (5) Certificates are trusted for ever on the ground that signatures
are checked to be made while they are valid, which nothing checks.

## 4. Fairness

`VaultAuth!FairSpec`: weak fairness of each step of a goroutine that is runnable;
strong fairness of `StoreID`, because `sync.Mutex` is starvation-free while others take
and release it; a login request is answered or fails in the end (transport errors end
it otherwise). Failures are never forced elsewhere, nor is a new operation.
`VaultKey!FairSpec`: time passes, and a fetch that Vault has answered ends. Nothing
forces callers to call or an operator to rotate. `DMVerity!FairSpec`: the SDK's and
`os/exec`'s own steps are taken, `WaitDelay` passes, and the copier ends once nobody
reads its pipe, which assumes that `rc.Read` returns. No tool is assumed to read, to
exit, or to obey SIGTERM.

## 5. Proofs

TLAPS proves, for all values of the constants that satisfy the named assumptions
(`NamesAssumption`, `TimesAssumption`, `BoundsAssumption`, `FilesAssumption`,
`SignerAssumption`, `UnreadableAssumption`, `LimitsAssumption`, `SignAssumption`), that in every behaviour of the specifications:

| module | theorem | what it states |
|---|---|---|
| `VaultAuthProofs` | `TypeCorrect`, `CredentialsConsistent`, `RequestsFromVault` | types; `CredentialConsistent`; `RequestProvenance` |
| | `NoExpiredReuse`, `OperationsLive`, `Refinement` | assuming `MarginSuffices`: `ExpiredTokenNotReused`, `OperationTokenLive`, `KeepsPromise` |
| `VaultKeyProofs` | `TypeCorrect`, `StalenessTheorem`, `NamedVersionTheorem` | types; `StalenessBounded`; `NamedVersionVerifies` |
| `DMVerityProofs` | `TypeCorrect`, `WholeLayer`, `CleanedUp`, `TreeBelongs`, `PartialReported` | types and every safety property of its run |
| `SignerProofs` | `TypeCorrect`, `AcceptedTheorem`, `RotationTheorem`, `OptionsTheorem`, `PriorityTheorem` | types; `AcceptedWasSigned`, `RotationOnlyOutdates`, `OptsIgnoreEnv`, `EnvPriority` |
| `SignerChainProofs` | `SignedTheorem`, `RootedTheorem`, `OrderTheorem` | `SignedVerifies`, `Rooted`, `RootOrderIrrelevant`: with these, every property of its run |
| `ElfVerifyProofs` | `TypeCorrect`, `FailureTheorem` | types; `FailureKeepsInput`, of any image |
| | `VerifiesTheorem` | of a well-formed image: `SignedVerifies` |
| | `OneRound`, `StableTheorem`, `ReparseTheorem`, `ContentTheorem`, `LayoutTheorem`, `AbandonedTheorem` | of a regular image: one round is enough; `Stabilizes`, `EmbeddedParses`, `ContentKept`, `LayoutSound`, `AbandonedLoads` |
| | `LinksTheorem` | of a regular and linked image: `LinksKept` |
| `ElfResignProofs` | `ResignTheorem` | of a regular image that fits its header and is not signed yet: `ResignIdempotent` |

`ElfImageProofs` holds lemmas about the parser and the writer only.

*Credentials.* `CredentialConsistent` is not inductive: it says nothing while the
mutex is held. `IInv` adds what is true in between: which goroutine holds `mu` at which
label, which of its stores are done, and that a pending reply matches the lease Vault
recorded for it. It is preserved by each action (one step of the proof per action).

*Expiry.* `LifeInv` says how long each place that holds a token can still be
trusted: the cached token outlives its trust by a use, the client's token and a
goroutine's own outlive the time the goroutine has left. That is where
`MarginSuffices` enters, once per place (`ValidOutlives`, `FreshOutlives`).

*Refinement.* With both invariants each step of `VaultAuth` is one of `Credential`:
`Grant` is `Issue`, `SendOp` is `Send`, `ReturnOp` is `Return`, `Tick` is `Pass`, the
others stutter. `Pass` needs `OperationTokenLive` after the step, `Send` needs to know
where the client's token came from.

*Staleness.* `AgeInv` relates the age of the cached item and of each pending fetch to
the time since the version they hold was superseded; a hit is allowed only up to the
TTL, hence the bound. An item with TTL 0 is left out, not assumed away.

*Named versions.* `VersionInv` says that the signature of a caller that named a version is of that
version, and that the outcome of a verification stands until it is returned; `Rotate` touches
neither, because a version that exists stays usable.

*Root hashes.* `HashOfWholeLayer` speaks of a call that has returned. `MadeInv` carries
it through the call: a child that has ended well, unsignalled and with a copier
that did not fail, has left the layer as the image (or the image's tree), and later steps
of the same call find it so, since nobody else knows the temporary directory.
`PartialInv` does the same for the caller's file.

*Signers.* The acceptance of a manifest implies a signature by an ideal scheme; the proof
keeps, for the signature in the manifest, that it is in `signed` whatever is
edited around it. Behindness of certificates survives `Rotate` because keys
only grow, and holds when a certificate is loaded because `pk` itself is behind. The two
properties of identities are about single steps: their lemmas (`OptsAlone`;
`OthersExplained`, `EmptyExplained` and `ValueExplained`, by where the choice reads the variable)
quantify over all environments and options.

*Chains.* `VerdictInv` keeps what a verdict was computed from, so that the properties of
a verification become facts about the operators. `SignedTheorem`: the bundle a
signer makes is over the joined annotations, its own excepted, hence the same text when
the manifest is verified (`FreshVerifies`), at any later time, since paths are checked
at the leaf's own start. `RootedTheorem`: an accepted chain
has a path whose last certificate is in the reference that was asked for, or
the leaf itself is; `VerifiedIsRooted` follows it through `VerifyChain`. `OrderTheorem`:
the loop over the roots stops at the first error in reading one, so for lists of
readable roots it is a disjunction over the list's members (`OrderIrrelevant`).

*Sign of ELF.* `LoopInv` treats parser and writer as opaque: how the
loop counts its rounds, and that the image is untouched until the first embedding,
hold whatever they compute. The rest is about what they compute.

`ElfImageProofs` describes the sections of a written image: those of `NewOrder`, with the
same types, flags and names, and offsets and links adjusted. `Collect` returns the
members of a set in increasing order, `NewNames` reads the names back through the
string table the writer has extended, and `ParsesBack` says that `parseELF` accepts the
result and returns just the tables that were written, with the counts in section 0 when
they do not fit the header. The note is found again because `Before` and `After` drop
every other section of that name.

`ImageInv` says that the slice is well-formed at any point of the loop, unless the call has
given up, and that it verifies when `Sign` succeeds: `CheckEmbedded` compares hashes, hence `VerifiesTheorem`
does not depend on the layout. `RegularInv` does: besides the image being regular, it
says of each round that the bundle is for the hash of the file that has been parsed, and
of the image that it is the *same* as the original, that is in content,
links (if the original is linked) and segments. It is inductive because of five
lemmas about one call of `saveELFSignature` on a regular file: `HashBack` (embedding does
not change the hash: it covers neither the note nor `.shstrtab` nor any
offset or link), `RegularBack`, `ContentBack`, `LinksBack` and `LayoutBack`. Sameness is
transitive, therefore the number of signings does not matter.
The layout lemmas unfold the writer's output in the order it is appended: content
(`ContentEnds`: nothing that stays lies behind `contentEndOffset`), note, moved sections
with their padding (`PlaceLoop`, an induction over the sections moved), strings and
the table. The hypotheses are needed: TLC finds counterexamples for images with a
data-carrying section 0 or a second `.shstrtab`.

*Giving up.* What has been appended when the writer gives up is an initial part of what it
would have written (`UnfinishedCells`), and that begins with the content up to
`contentEndOffset`; what a program header of a regular image loads lies before
that offset (`AbandonedCells`, `SegmentStays`). `original` is then set to the
wreck, of which nothing is known but that it is typed; the invariants begin anew from
there (`Restart`, `RegularStart`).

*Signing again.* `ResignTheorem` says that the writer's output is a fixed point of the
writer once the note is in its place. `ResignInv`, beside `RegularInv`, keeps that the
image a call is given is the first one or one that was written for a regular file
that fits its header (`Stored`), and that a signed image was written for the image given.
The rest is about two calls of `saveELFSignature` in a row. `InPlaceBack`: the second one
finds `.shstrtab` at the end, so the first section that moves is a table and the
note goes before it. `Settles`: with the note in place `Before`, the note, `After` and
`.shstrtab` are the sections in the order they have, hence every section keeps its number
(`IndexStays`, `RelinkedStays`). `EndBack`: the content that stays ends where it ended;
that needs `FitsHeader`, see the remark in section 3. From there on both calls append the
same cells behind the same content (`Twins`, by induction over the moved sections in
`AlikeLoop`), write the same table (`TableStays`) and the same header (`EhdrStays`). The
hypothesis that the first image does not verify is needed, because an image that a
foreign writer has signed may pad its sections otherwise.

Induction over the sections written so far is done with the sets of lengths for which a
claim holds, and over recursive functions; that is within the provers' reach, while
induction theorems that take an operator, and RECURSIVE operators, are not, so that the
models have none of the latter.

Only model-checked: the liveness properties `OperationEnds`, `CacheCatchesUp` and
`CancellationEnds`, which need fairness and ENABLED; the second round that `Stabilizes`
allows for images without a null section 0, and with it what `elf_sign` checks of such
images (of the safety properties of `elf_sign*`, `SignedVerifies` and `FailureKeepsInput`
are proved of them too).

## 6. Not modelled, and what could come next

- The HTTP requests for JWTs, the syntax of key references, and the reading and
  decrypting of key files: I/O and library calls without state; their failure is modelled.
- The `crypto.Signer` wrapper and the callers' digest and hash options of `HV/signer.go`.
- Replies of Vault without data (404), which `sign` and `verify` dereference; revocation
  of tokens; the login of the static token.
- In ELF images: the contents of sections (symbols and groups hold section
  numbers, too), byte encodings, overflow of 64-bit offsets, and padding that an `int` can
  hold but memory cannot, on which `make` panics (`writer.go:221`).
- Constraints on CAs and key usages, which are `crypto/x509`'s.
- Next: the second round for images without a null section 0, as a theorem; the
  composition of `VaultAuth` and `VaultKey` through `TokenTTL`.

------------------------------ MODULE VaultAuth ------------------------------
(***************************************************************************)
(* The login half of pkg/signver/hashivault: goroutines that share one     *)
(* hashivaultClient, hence one authenticator (auth_base.go, auth_jwt.go,   *)
(* auth_approle.go) and one vault.Client.  sign(), verify(),               *)
(* fetchPublicKey() and createKey() of client.go all have the shape        *)
(* modelled here: auth.Login(h.client), then one request to Vault.         *)
(*                                                                         *)
(* The fields tokenID, tokenTTL and tokenIssuedAt are stored one by one    *)
(* under mu; tokenID is READ outside mu (auth_jwt.go:31, auth_approle.go:  *)
(* 27, auth_base.go:44).  A Go string is two words, so such a read is two  *)
(* steps here and may observe the old string, the new one, or a mix.       *)
(*                                                                         *)
(* Time is an integer clock.  The code bounds neither the time a login     *)
(* reply takes nor the time an operation takes; ReplyBound and UseBound    *)
(* name those delays.                                                      *)
(***************************************************************************)
EXTENDS Integers

CONSTANTS
  Procs,        \* goroutines sharing the client
  Tokens,       \* the tokens Vault can issue
  NoToken,      \* the empty string
  HostToken,    \* VAULT_TOKEN of the host
  Torn,         \* a string header read half before, half after a store
  NoProc,       \* nobody holds the mutex
  TTLs,         \* the lease durations Vault answers; 0 is a token without expiry
  Margin,       \* the 30 seconds of isTokenValid
  ReplyBound,   \* longest time from the issue of a token to the end of its store
  UseBound,     \* longest time from a token's check or store to Vault's answer
  MaxTime       \* bound on the clock

ASSUME NamesAssumption ==
  /\ NoToken \notin Tokens
  /\ HostToken \notin Tokens \cup {NoToken}
  /\ Torn \notin Tokens \cup {NoToken, HostToken}
  /\ NoProc \notin Procs

ASSUME TimesAssumption ==
  /\ TTLs \subseteq Nat
  /\ Margin \in Nat
  /\ ReplyBound \in Nat
  /\ UseBound \in Nat
  /\ MaxTime \in Nat

VARIABLES
  now,            \* the clock
  issued,         \* Vault: the tokens issued so far
  lease,          \* Vault: lease[t], when t was issued and for how long
  emptyGrant,     \* Vault has answered a login without a token
  mu,             \* baseAuthenticator.mu
  tokenID, tokenTTL, tokenIssuedAt,    \* the fields mu protects
  clientToken,    \* the token the vault.Client attaches to a request
  pc,             \* pc[p], where p is in its operation
  since,          \* since[p], when the delay that bounds p's step began
  resp,           \* resp[p], p's login reply
  half,           \* half[p], the first word of p's read of tokenID
  header          \* header[p], X-Vault-Token of p's last request

cached == <<tokenID, tokenTTL, tokenIssuedAt>>
vault  == <<issued, lease, emptyGrant>>
locals == <<pc, since, resp, half, header>>
vars   == <<now, vault, mu, cached, clientToken, locals>>

Storing == {"granted", "storeTTL", "storeIssuedAt"}
Using   == {"read", "set", "send", "sent"}
Headers == Tokens \cup {NoToken, HostToken, Torn}

-----------------------------------------------------------------------------
(* The definitions named Mut... are plausible mistakes in the code that     *)
(* follows them; no specification uses them (see PROJECT.json, "mutants").  *)

MutNewClientToken == HostToken   \* ClearToken forgotten

(* newHashivaultClient: vault.NewClient picks up VAULT_TOKEN, ClearToken    *)
(* drops it again.                                                          *)
NewClientToken == NoToken

NoReply == [id |-> NoToken, ttl |-> 0]

Init ==
  /\ now = 0
  /\ issued = {}
  /\ lease = [t \in Tokens |-> [at |-> 0, ttl |-> 0]]
  /\ emptyGrant = FALSE
  /\ mu = NoProc
  /\ tokenID = NoToken
  /\ tokenTTL = 0
  /\ tokenIssuedAt = 0
  /\ clientToken = NewClientToken
  /\ pc = [p \in Procs |-> "idle"]
  /\ since = [p \in Procs |-> 0]
  /\ resp = [p \in Procs |-> NoReply]
  /\ half = [p \in Procs |-> NoToken]
  /\ header = [p \in Procs |-> NoToken]

Goto(p, label) == pc' = [pc EXCEPT ![p] = label]

(* p forgets its locals and goes to label: "idle" when it returns. *)
Leave(p, label) ==
  /\ Goto(p, label)
  /\ since' = [since EXCEPT ![p] = 0]
  /\ resp' = [resp EXCEPT ![p] = NoReply]
  /\ header' = [header EXCEPT ![p] = NoToken]

MutTrustedFor == tokenTTL        \* the safety margin forgotten

(* How long after tokenIssuedAt the cached token is trusted. *)
TrustedFor == tokenTTL - Margin

(* isTokenValid, evaluated while mu is held. *)
TokenValid ==
  /\ tokenID # NoToken
  /\ tokenTTL > 0
  /\ now - tokenIssuedAt < TrustedFor

(* Login: the cached token is good enough. *)
ReuseToken(p) ==
  /\ pc[p] = "idle"
  /\ mu = NoProc
  /\ TokenValid
  /\ Goto(p, "read")
  /\ since' = [since EXCEPT ![p] = now]
  /\ UNCHANGED <<now, vault, mu, cached, clientToken, resp, half, header>>

(* Login: it is not; p goes on to jwtProvider.GetToken and login. *)
NeedLogin(p) ==
  /\ pc[p] = "idle"
  /\ mu = NoProc
  /\ ~TokenValid
  /\ Goto(p, "login")
  /\ UNCHANGED <<now, vault, mu, cached, clientToken, since, resp, half, header>>

(* Logical().Write("/auth/<path>/login"): the request is built, with        *)
(* whatever token the client holds.                                         *)
RequestLogin(p) ==
  /\ pc[p] = "login"
  /\ Goto(p, "loggingIn")
  /\ header' = [header EXCEPT ![p] = clientToken]
  /\ UNCHANGED <<now, vault, mu, cached, clientToken, since, resp, half>>

(* Vault issues a token t with a lease of l. *)
Grant(p) ==
  /\ pc[p] = "loggingIn"
  /\ \E t \in Tokens \ issued, l \in TTLs :
       /\ issued' = issued \cup {t}
       /\ lease' = [lease EXCEPT ![t] = [at |-> now, ttl |-> l]]
       /\ resp' = [resp EXCEPT ![p] = [id |-> t, ttl |-> l]]
  /\ Goto(p, "granted")
  /\ since' = [since EXCEPT ![p] = now]
  /\ header' = [header EXCEPT ![p] = NoToken]
  /\ UNCHANGED <<now, emptyGrant, mu, cached, clientToken, half>>

(* Vault answers without a token (MFA demanded, say): TokenID() and         *)
(* TokenTTL() return "" and 0 and no error.                                 *)
GrantNothing(p) ==
  /\ pc[p] = "loggingIn"
  /\ emptyGrant' = TRUE
  /\ resp' = [resp EXCEPT ![p] = NoReply]
  /\ Goto(p, "granted")
  /\ since' = [since EXCEPT ![p] = now]
  /\ header' = [header EXCEPT ![p] = NoToken]
  /\ UNCHANGED <<now, issued, lease, mu, cached, clientToken, half>>

MutFailLogin(p) ==               \* a failed login is retried for ever
  /\ pc[p] \in {"login", "loggingIn", "granted"}
  /\ Leave(p, "login")
  /\ UNCHANGED <<now, vault, mu, cached, clientToken, half>>

(* GetToken fails, Vault refuses, or its reply (with an issued token) is    *)
(* lost: Login returns the error and the operation returns it.              *)
FailLogin(p) ==
  /\ pc[p] \in {"login", "loggingIn", "granted"}
  /\ Leave(p, "idle")
  /\ UNCHANGED <<now, vault, mu, cached, clientToken, half>>

(* login: mu.Lock, the three stores, mu.Unlock. *)
StoreID(p) ==
  /\ pc[p] = "granted"
  /\ mu = NoProc
  /\ mu' = p
  /\ tokenID' = resp[p].id
  /\ Goto(p, "storeTTL")
  /\ UNCHANGED <<now, vault, tokenTTL, tokenIssuedAt, clientToken, since, resp,
                 half, header>>

MutStoreTTL(p) ==                \* mu is released before the last store
  /\ pc[p] = "storeTTL"
  /\ tokenTTL' = resp[p].ttl
  /\ mu' = NoProc
  /\ Goto(p, "storeIssuedAt")
  /\ UNCHANGED <<now, vault, tokenID, tokenIssuedAt, clientToken, since,
                 resp, half, header>>

StoreTTL(p) ==
  /\ pc[p] = "storeTTL"
  /\ tokenTTL' = resp[p].ttl
  /\ Goto(p, "storeIssuedAt")
  /\ UNCHANGED <<now, vault, mu, tokenID, tokenIssuedAt, clientToken, since,
                 resp, half, header>>

MutStoreIssuedAt(p) ==           \* the stamp is set back by the reply's delay
  /\ pc[p] = "storeIssuedAt"
  /\ tokenIssuedAt' = now - ReplyBound
  /\ mu' = NoProc
  /\ Goto(p, "read")
  /\ since' = [since EXCEPT ![p] = now]
  /\ resp' = [resp EXCEPT ![p] = NoReply]
  /\ UNCHANGED <<now, vault, tokenID, tokenTTL, clientToken, half, header>>

StoreIssuedAt(p) ==
  /\ pc[p] = "storeIssuedAt"
  /\ tokenIssuedAt' = now
  /\ mu' = NoProc
  /\ Goto(p, "read")
  /\ since' = [since EXCEPT ![p] = now]
  /\ resp' = [resp EXCEPT ![p] = NoReply]
  /\ UNCHANGED <<now, vault, tokenID, tokenTTL, clientToken, half, header>>

(* client.SetToken(b.tokenID), the argument: read without mu. *)
BeginRead(p) ==
  /\ pc[p] = "read"
  /\ half' = [half EXCEPT ![p] = tokenID]
  /\ Goto(p, "set")
  /\ UNCHANGED <<now, vault, mu, cached, clientToken, since, resp, header>>

(* What the two-word read that began with first may return. *)
Observed(first) ==
  {first, tokenID} \cup (IF first = tokenID THEN {} ELSE {Torn})

(* client.SetToken(b.tokenID), the call. *)
SetToken(p) ==
  /\ pc[p] = "set"
  /\ \E v \in Observed(half[p]) : clientToken' = v
  /\ half' = [half EXCEPT ![p] = NoToken]
  /\ Goto(p, "send")
  /\ UNCHANGED <<now, vault, mu, cached, since, resp, header>>

(* The operation's request is built with the client's current token. *)
SendOp(p) ==
  /\ pc[p] = "send"
  /\ header' = [header EXCEPT ![p] = clientToken]
  /\ Goto(p, "sent")
  /\ UNCHANGED <<now, vault, mu, cached, clientToken, since, resp, half>>

(* The answer, a refusal or a transport error: the operation returns. *)
ReturnOp(p) ==
  /\ pc[p] = "sent"
  /\ Leave(p, "idle")
  /\ UNCHANGED <<now, vault, mu, cached, clientToken, half>>

-----------------------------------------------------------------------------
(* Time passes while no delay is at its bound. *)
MayWait(p) ==
  /\ pc[p] \in Storing => now - since[p] < ReplyBound
  /\ pc[p] \in Using => now - since[p] < UseBound

Tick ==
  /\ now < MaxTime
  /\ \A p \in Procs : MayWait(p)
  /\ now' = now + 1
  /\ UNCHANGED <<vault, mu, cached, clientToken, locals>>

Step(p) ==
  \/ ReuseToken(p) \/ NeedLogin(p)
  \/ RequestLogin(p) \/ Grant(p) \/ GrantNothing(p) \/ FailLogin(p)
  \/ StoreID(p) \/ StoreTTL(p) \/ StoreIssuedAt(p)
  \/ BeginRead(p) \/ SetToken(p) \/ SendOp(p) \/ ReturnOp(p)

Next == Tick \/ \E p \in Procs : Step(p)

Spec == Init /\ [][Next]_vars

(* A goroutine that can run runs; Vault's answer or an error arrives in the *)
(* end; sync.Mutex is starvation-free.  Failures are never forced, except   *)
(* that a login request does not stay unanswered for ever.                  *)
Answer(p) == Grant(p) \/ GrantNothing(p) \/ (pc[p] = "loggingIn" /\ FailLogin(p))

Fairness ==
  \A p \in Procs :
    /\ WF_vars(RequestLogin(p)) /\ WF_vars(Answer(p))
    /\ SF_vars(StoreID(p)) /\ WF_vars(StoreTTL(p)) /\ WF_vars(StoreIssuedAt(p))
    /\ WF_vars(BeginRead(p)) /\ WF_vars(SetToken(p))
    /\ WF_vars(SendOp(p)) /\ WF_vars(ReturnOp(p))

FairSpec == Spec /\ Fairness
-----------------------------------------------------------------------------
TypeOK ==
  /\ now \in Nat
  /\ issued \subseteq Tokens
  /\ lease \in [Tokens -> [at : Nat, ttl : Nat]]
  /\ emptyGrant \in BOOLEAN
  /\ mu \in Procs \cup {NoProc}
  /\ tokenID \in Tokens \cup {NoToken}
  /\ tokenTTL \in Nat
  /\ tokenIssuedAt \in Nat
  /\ clientToken \in Headers
  /\ pc \in [Procs -> {"idle", "login", "loggingIn"} \cup Storing \cup Using]
  /\ since \in [Procs -> Nat]
  /\ resp \in [Procs -> [id : Tokens \cup {NoToken}, ttl : Nat]]
  /\ half \in [Procs -> Tokens \cup {NoToken}]
  /\ header \in [Procs -> Headers]

(* Token t, if it is one, is accepted by Vault at time x. *)
LiveAt(t, x) ==
  t \in Tokens =>
    /\ t \in issued
    /\ lease[t].ttl = 0 \/ x < lease[t].at + lease[t].ttl

(* The delays the margin of isTokenValid absorbs.  A request may carry a    *)
(* token another goroutine checked, so the time of use counts twice.        *)
MarginSuffices ==
  /\ ReplyBound + 2 * UseBound =< Margin
  /\ \A l \in TTLs : l = 0 \/ l > ReplyBound + 2 * UseBound

(* Whenever the mutex is free the three fields belong to one login: the     *)
(* TTL is that of the cached token, and the time stamp is not older than    *)
(* the token nor younger by more than the reply took.                       *)
CredentialConsistent ==
  mu = NoProc /\ tokenID \in Tokens =>
    /\ tokenTTL = lease[tokenID].ttl
    /\ lease[tokenID].at =< tokenIssuedAt
    /\ tokenIssuedAt =< lease[tokenID].at + ReplyBound

(* isTokenValid never answers true for a token Vault has expired            *)
(* (hashivault/README.md, "Vault token expired": isTokenValid() = false).   *)
ExpiredTokenNotReused ==
  mu = NoProc /\ TokenValid => LiveAt(tokenID, now)

(* No operation reaches Vault with an expired token, although goroutines    *)
(* overwrite each other's token in the shared client between SetToken and   *)
(* the request.                                                             *)
OperationTokenLive ==
  \A p \in Procs : pc[p] = "sent" => LiveAt(header[p], now)

(* Every request, login or operation, carries a token this authenticator's  *)
(* logins obtained, never the host's (token_leak_test.go); an operation     *)
(* goes out without a token only if Vault answered a login without one.     *)
RequestProvenance ==
  \A p \in Procs :
    /\ header[p] \in issued \cup {NoToken, Torn}
    /\ pc[p] = "sent" /\ header[p] = NoToken => emptyGrant

(* "The fields tokenID, tokenTTL, and tokenIssuedAt are protected by mu     *)
(* since Login() can be called concurrently" (auth_base.go:12): no          *)
(* goroutine installs a token that is no token.                             *)
NoTornToken == clientToken # Torn

(* An operation that started returns. *)
OperationEnds == \A p \in Procs : pc[p] # "idle" ~> pc[p] = "idle"

(* The requests in flight, with what they carry. *)
Carried == [p \in Procs |-> IF pc[p] = "sent" THEN {header[p]} ELSE {}]

Promise == INSTANCE Credential WITH
             Clients <- Procs, Blanks <- {NoToken, Torn}, carried <- Carried

(* All the goroutines, the lock, the cache and its margin implement the     *)
(* promise of Credential: each operation in flight carries a token that was *)
(* issued to this client and outlives it, or none (auth_base.go,            *)
(* auth_jwt.go, auth_approle.go).                                           *)
KeepsPromise == Promise!Spec
=============================================================================

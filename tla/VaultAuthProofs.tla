--------------------------- MODULE VaultAuthProofs ---------------------------
(***************************************************************************)
(* The inductive invariants of VaultAuth and the proofs that its safety    *)
(* properties hold for every number of goroutines and tokens and every     *)
(* choice of the delays.                                                   *)
(***************************************************************************)
EXTENDS VaultAuth, TLAPS

(* A value that is a token is one Vault issued. *)
FromVault(t) == t \in issued \cup {NoToken, Torn}

IssuedInv ==
  /\ issued \subseteq Tokens
  /\ \A t \in issued : lease[t].at =< now /\ lease[t].ttl \in TTLs
  /\ FromVault(tokenID) /\ FromVault(clientToken)
  /\ \A p \in Procs :
       FromVault(resp[p].id) /\ FromVault(half[p]) /\ FromVault(header[p])

(* mu is held exactly between StoreID and StoreIssuedAt. *)
MutexInv ==
  \A p \in Procs : mu = p <=> pc[p] \in {"storeTTL", "storeIssuedAt"}

(* A reply in flight describes its token and is not older than ReplyBound. *)
ReplyInv ==
  \A p \in Procs : pc[p] \in Storing =>
    /\ since[p] =< now /\ now =< since[p] + ReplyBound
    /\ resp[p].id \in Tokens =>
         lease[resp[p].id] = [at |-> since[p], ttl |-> resp[p].ttl]

(* What the stores made so far have put in place. *)
PartialInv ==
  \A p \in Procs :
    /\ pc[p] \in {"storeTTL", "storeIssuedAt"} => tokenID = resp[p].id
    /\ pc[p] = "storeIssuedAt" => tokenTTL = resp[p].ttl

UseInv ==
  \A p \in Procs : pc[p] \in Using => since[p] =< now /\ now =< since[p] + UseBound

(* Nobody comes to the point of sending a request without a token, unless  *)
(* Vault gave none.                                                        *)
EmptyInv ==
  emptyGrant \/ \A p \in Procs :
    /\ pc[p] \in Storing => resp[p].id # NoToken
    /\ pc[p] \in {"storeTTL", "storeIssuedAt", "read", "set"} => tokenID # NoToken
    /\ pc[p] = "set" => half[p] # NoToken
    /\ pc[p] = "send" => clientToken # NoToken
    /\ pc[p] = "sent" => header[p] # NoToken

IInv ==
  /\ TypeOK /\ IssuedInv /\ MutexInv /\ ReplyInv /\ PartialInv
  /\ CredentialConsistent /\ UseInv /\ EmptyInv

(* The token an operation is on its way to use outlives the operation.     *)
(* While p has not called SetToken, another goroutine's request may still  *)
(* pick up p's token, hence twice UseBound.                                *)
Outlives(p) ==
  /\ pc[p] \in {"read", "set"} => LiveAt(tokenID, since[p] + 2 * UseBound)
  /\ pc[p] = "set" => LiveAt(half[p], since[p] + 2 * UseBound)
  /\ pc[p] = "send" => LiveAt(clientToken, since[p] + UseBound)
  /\ pc[p] = "sent" => LiveAt(header[p], since[p] + UseBound)

LifeInv == \A p \in Procs : Outlives(p)
-----------------------------------------------------------------------------
USE NamesAssumption, TimesAssumption

LEMMA InitTypeOK == Init => TypeOK
<1> SUFFICES ASSUME Init PROVE TypeOK
  OBVIOUS
<1> USE DEF Init
<1>1. /\ now \in Nat /\ issued \subseteq Tokens /\ emptyGrant \in BOOLEAN
      /\ lease \in [Tokens -> [at : Nat, ttl : Nat]]
  OBVIOUS
<1>2. /\ mu \in Procs \cup {NoProc} /\ tokenID \in Tokens \cup {NoToken}
      /\ tokenTTL \in Nat /\ tokenIssuedAt \in Nat /\ clientToken \in Headers
  BY DEF NewClientToken, Headers
<1>3. /\ pc \in [Procs -> {"idle", "login", "loggingIn"} \cup Storing \cup Using]
      /\ since \in [Procs -> Nat]
  BY DEF Storing, Using
<1>4. resp \in [Procs -> [id : Tokens \cup {NoToken}, ttl : Nat]]
  BY DEF NoReply
<1>5. /\ half \in [Procs -> Tokens \cup {NoToken}]
      /\ header \in [Procs -> Headers]
  BY DEF Headers
<1> QED  BY <1>1, <1>2, <1>3, <1>4, <1>5 DEF TypeOK

(* Every step keeps every variable in its range. *)
LEMMA StepTypeOK == TypeOK /\ [Next]_vars => TypeOK'
<1> SUFFICES ASSUME TypeOK, [Next]_vars PROVE TypeOK'
  OBVIOUS
<1> USE DEF TypeOK, Storing, Using, Headers, NoReply, Goto, Leave, vault, cached, locals
<1>1. CASE Tick
  BY <1>1 DEF Tick
<1>2. ASSUME NEW p \in Procs, Step(p) PROVE TypeOK'
  <2>1. CASE ReuseToken(p)
    BY <2>1 DEF ReuseToken
  <2>2. CASE NeedLogin(p)
    BY <2>2 DEF NeedLogin
  <2>3. CASE RequestLogin(p)
    BY <2>3 DEF RequestLogin
  <2>4. CASE Grant(p)
    BY <2>4 DEF Grant
  <2>5. CASE GrantNothing(p)
    BY <2>5 DEF GrantNothing
  <2>6. CASE FailLogin(p)
    BY <2>6 DEF FailLogin
  <2>7. CASE StoreID(p)
    BY <2>7 DEF StoreID
  <2>8. CASE StoreTTL(p)
    BY <2>8 DEF StoreTTL
  <2>9. CASE StoreIssuedAt(p)
    BY <2>9 DEF StoreIssuedAt
  <2>10. CASE BeginRead(p)
    BY <2>10 DEF BeginRead
  <2>11. CASE SetToken(p)
    BY <2>11 DEF SetToken, Observed
  <2>12. CASE SendOp(p)
    BY <2>12 DEF SendOp
  <2>13. CASE ReturnOp(p)
    BY <2>13 DEF ReturnOp
  <2> QED  BY <1>2, <2>1, <2>2, <2>3, <2>4, <2>5, <2>6, <2>7, <2>8, <2>9, <2>10, <2>11, <2>12, <2>13 DEF Step
<1>3. CASE UNCHANGED vars
  BY <1>3 DEF vars
<1> QED  BY <1>1, <1>2, <1>3 DEF Next

(* Every variable stays in its range: in particular no torn string is ever *)
(* cached in tokenID, only installed in the shared client.                 *)
THEOREM TypeCorrect == Spec => []TypeOK
<1>1. TypeOK /\ [Next]_vars => TypeOK'
  BY StepTypeOK
<1> QED  BY InitTypeOK, <1>1, PTL DEF Spec

-----------------------------------------------------------------------------
LEMMA InitIInv == Init => IInv
<1> SUFFICES ASSUME Init PROVE IInv
  OBVIOUS
<1>1. TypeOK
  BY InitTypeOK
<1>2. IssuedInv
  BY DEF Init, IssuedInv, FromVault, NoReply, NewClientToken
<1>3. MutexInv /\ ReplyInv /\ PartialInv /\ CredentialConsistent /\ UseInv /\ EmptyInv
  BY DEF Init, MutexInv, ReplyInv, PartialInv, CredentialConsistent, UseInv,
         EmptyInv, Storing, Using
<1> QED  BY <1>1, <1>2, <1>3 DEF IInv

(* IInv is inductive. *)
LEMMA StepIInv == IInv /\ [Next]_vars => IInv'
<1> SUFFICES ASSUME IInv, [Next]_vars PROVE IInv'
  OBVIOUS
<1>0. TypeOK'
  BY StepTypeOK DEF IInv
<1> USE <1>0 DEF IInv, TypeOK, Storing, Using, Headers, NoReply, Goto, Leave,
                 vault, cached, locals, FromVault
<1>1. CASE Tick
  <2>1. ReplyInv' /\ UseInv'
    BY <1>1 DEF Tick, MayWait, ReplyInv, UseInv
  <2>2. IssuedInv' /\ MutexInv' /\ PartialInv' /\ CredentialConsistent' /\ EmptyInv'
    BY <1>1 DEF Tick, IssuedInv, MutexInv, PartialInv, CredentialConsistent, EmptyInv
  <2> QED  BY <2>1, <2>2
<1>2. ASSUME NEW p \in Procs, Step(p) PROVE IInv'
  <2>1. CASE ReuseToken(p)
    <3>1. UseInv'
      BY <2>1 DEF ReuseToken, UseInv
    <3>2. EmptyInv'
      BY <2>1 DEF ReuseToken, EmptyInv, TokenValid
    <3>3. IssuedInv' /\ MutexInv' /\ ReplyInv' /\ PartialInv' /\
          CredentialConsistent'
      BY <2>1 DEF ReuseToken, IssuedInv, MutexInv, ReplyInv, PartialInv,
                  CredentialConsistent
    <3> QED  BY <3>1, <3>2, <3>3
  <2>2. CASE NeedLogin(p)
    BY <2>2 DEF NeedLogin, IssuedInv, MutexInv, ReplyInv, PartialInv,
                CredentialConsistent, UseInv, EmptyInv
  <2>3. CASE RequestLogin(p)
    <3>1. IssuedInv'
      BY <2>3 DEF RequestLogin, IssuedInv
    <3>2. MutexInv' /\ ReplyInv' /\ PartialInv' /\ CredentialConsistent' /\
          UseInv' /\ EmptyInv'
      BY <2>3 DEF RequestLogin, MutexInv, ReplyInv, PartialInv,
                  CredentialConsistent, UseInv, EmptyInv
    <3> QED  BY <3>1, <3>2
  <2>4. CASE Grant(p)
    <3>1. IssuedInv'
      BY <2>4 DEF Grant, IssuedInv
    <3>2. ReplyInv'
      BY <2>4 DEF Grant, ReplyInv, IssuedInv
    <3>3. CredentialConsistent'
      BY <2>4 DEF Grant, CredentialConsistent, IssuedInv, MutexInv, ReplyInv,
                  PartialInv
    <3>4. MutexInv' /\ PartialInv' /\ UseInv' /\ EmptyInv'
      BY <2>4 DEF Grant, MutexInv, PartialInv, UseInv, EmptyInv
    <3> QED  BY <3>1, <3>2, <3>3, <3>4
  <2>5. CASE GrantNothing(p)
    <3>1. ReplyInv'
      BY <2>5 DEF GrantNothing, ReplyInv
    <3>2. IssuedInv' /\ MutexInv' /\ PartialInv' /\ CredentialConsistent' /\
          UseInv' /\ EmptyInv'
      BY <2>5 DEF GrantNothing, IssuedInv, MutexInv, PartialInv,
                  CredentialConsistent, UseInv, EmptyInv
    <3> QED  BY <3>1, <3>2
  <2>6. CASE FailLogin(p)
    BY <2>6 DEF FailLogin, IssuedInv, MutexInv, ReplyInv, PartialInv,
                CredentialConsistent, UseInv, EmptyInv
  <2>7. CASE StoreID(p)
    <3>1. MutexInv'
      BY <2>7 DEF StoreID, MutexInv
    <3>2. PartialInv'
      BY <2>7 DEF StoreID, PartialInv, MutexInv
    <3>3. CredentialConsistent'
      BY <2>7 DEF StoreID, CredentialConsistent, IssuedInv, MutexInv,
                  ReplyInv, PartialInv
    <3>4. EmptyInv'
      BY <2>7 DEF StoreID, EmptyInv
    <3>5. IssuedInv' /\ ReplyInv' /\ UseInv'
      BY <2>7 DEF StoreID, IssuedInv, ReplyInv, UseInv
    <3> QED  BY <3>1, <3>2, <3>3, <3>4, <3>5
  <2>8. CASE StoreTTL(p)
    <3>1. MutexInv'
      BY <2>8 DEF StoreTTL, MutexInv
    <3>2. PartialInv'
      BY <2>8 DEF StoreTTL, PartialInv, MutexInv
    <3>3. CredentialConsistent'
      BY <2>8 DEF StoreTTL, CredentialConsistent, IssuedInv, MutexInv,
                  ReplyInv, PartialInv
    <3>4. IssuedInv' /\ ReplyInv' /\ UseInv' /\ EmptyInv'
      BY <2>8 DEF StoreTTL, IssuedInv, ReplyInv, UseInv, EmptyInv
    <3> QED  BY <3>1, <3>2, <3>3, <3>4
  <2>9. CASE StoreIssuedAt(p)
    <3>1. MutexInv'
      BY <2>9 DEF StoreIssuedAt, MutexInv
    <3>2. CredentialConsistent'
      <4>1. tokenID' = resp[p].id /\ tokenTTL' = resp[p].ttl /\ tokenIssuedAt' = now
        BY <2>9 DEF StoreIssuedAt, PartialInv
      <4>2. resp[p].id \in Tokens =>
              lease'[resp[p].id] = [at |-> since[p], ttl |-> resp[p].ttl]
        BY <2>9 DEF StoreIssuedAt, ReplyInv
      <4>3. since[p] =< now /\ now =< since[p] + ReplyBound
        BY <2>9 DEF StoreIssuedAt, ReplyInv
      <4> QED  BY <4>1, <4>2, <4>3 DEF CredentialConsistent
    <3>3. UseInv'
      BY <2>9 DEF StoreIssuedAt, UseInv
    <3>4. IssuedInv' /\ ReplyInv' /\ PartialInv' /\ EmptyInv'
      BY <2>9 DEF StoreIssuedAt, IssuedInv, ReplyInv, PartialInv, EmptyInv
    <3> QED  BY <3>1, <3>2, <3>3, <3>4
  <2>10. CASE BeginRead(p)
    <3>1. IssuedInv'
      BY <2>10 DEF BeginRead, IssuedInv
    <3>2. EmptyInv'
      BY <2>10 DEF BeginRead, EmptyInv
    <3>3. MutexInv' /\ ReplyInv' /\ PartialInv' /\ CredentialConsistent' /\
          UseInv'
      BY <2>10 DEF BeginRead, MutexInv, ReplyInv, PartialInv,
                   CredentialConsistent, UseInv
    <3> QED  BY <3>1, <3>2, <3>3
  <2>11. CASE SetToken(p)
    <3>1. IssuedInv'
      BY <2>11 DEF SetToken, IssuedInv, Observed
    <3>2. EmptyInv'
      BY <2>11 DEF SetToken, EmptyInv, Observed
    <3>3. MutexInv' /\ ReplyInv' /\ PartialInv' /\ CredentialConsistent' /\
          UseInv'
      BY <2>11 DEF SetToken, MutexInv, ReplyInv, PartialInv,
                   CredentialConsistent, UseInv
    <3> QED  BY <3>1, <3>2, <3>3
  <2>12. CASE SendOp(p)
    <3>1. IssuedInv'
      BY <2>12 DEF SendOp, IssuedInv
    <3>2. EmptyInv'
      BY <2>12 DEF SendOp, EmptyInv
    <3>3. MutexInv' /\ ReplyInv' /\ PartialInv' /\ CredentialConsistent' /\
          UseInv'
      BY <2>12 DEF SendOp, MutexInv, ReplyInv, PartialInv,
                   CredentialConsistent, UseInv
    <3> QED  BY <3>1, <3>2, <3>3
  <2>13. CASE ReturnOp(p)
    BY <2>13 DEF ReturnOp, IssuedInv, MutexInv, ReplyInv, PartialInv,
                 CredentialConsistent, UseInv, EmptyInv
  <2> QED  BY <1>2, <2>1, <2>2, <2>3, <2>4, <2>5, <2>6, <2>7, <2>8, <2>9, <2>10, <2>11, <2>12,
                <2>13 DEF Step
<1>3. CASE UNCHANGED vars
  BY <1>3 DEF vars, IssuedInv, MutexInv, ReplyInv, PartialInv, CredentialConsistent, UseInv, EmptyInv
<1> QED  BY <1>1, <1>2, <1>3 DEF Next

THEOREM Invariance == Spec => []IInv
<1> QED  BY InitIInv, StepIInv, PTL DEF Spec

(* While mu is free the cached token, its TTL and its time stamp belong    *)
(* together, whatever logins raced to store theirs (auth_base.go:38-42).   *)
THEOREM CredentialsConsistent == Spec => []CredentialConsistent
<1>1. IInv => CredentialConsistent
  BY DEF IInv
<1> QED  BY Invariance, <1>1, PTL

(* No request carries a token that did not come from a login reply, and    *)
(* none goes out bare unless Vault granted nothing (client.go:146).        *)
THEOREM RequestsFromVault == Spec => []RequestProvenance
<1>1. IInv => RequestProvenance
  BY DEF IInv, TypeOK, IssuedInv, EmptyInv, RequestProvenance, FromVault
<1> QED  BY Invariance, <1>1, PTL

-----------------------------------------------------------------------------
(* The margin covers the reply's delay and two operations' delays.         *)

(* isTokenValid answers true only for a token that will be live for two    *)
(* more UseBounds.                                                         *)
LEMMA ValidOutlives ==
  ASSUME MarginSuffices, IInv, mu = NoProc, TokenValid
  PROVE  LiveAt(tokenID, now + 2 * UseBound)
<1> SUFFICES ASSUME tokenID \in Tokens
             PROVE  /\ tokenID \in issued
                    /\ now + 2 * UseBound < lease[tokenID].at + lease[tokenID].ttl
  BY DEF LiveAt
<1>1. tokenID \in issued
  BY DEF IInv, IssuedInv, FromVault
<1>2. /\ tokenTTL = lease[tokenID].ttl
      /\ tokenIssuedAt =< lease[tokenID].at + ReplyBound
  BY DEF IInv, CredentialConsistent
<1>3. /\ now \in Nat /\ tokenIssuedAt \in Nat /\ tokenTTL \in Nat
      /\ lease[tokenID].at \in Nat
  BY DEF IInv, TypeOK
<1> QED  BY <1>1, <1>2, <1>3 DEF MarginSuffices, TokenValid, TrustedFor

(* So does a token whose reply is being stored. *)
LEMMA FreshOutlives ==
  ASSUME MarginSuffices, IInv, NEW p \in Procs, pc[p] \in Storing
  PROVE  LiveAt(resp[p].id, now + 2 * UseBound)
<1> SUFFICES ASSUME resp[p].id \in Tokens
             PROVE  /\ resp[p].id \in issued
                    /\ \/ lease[resp[p].id].ttl = 0
                       \/ now + 2 * UseBound <
                            lease[resp[p].id].at + lease[resp[p].id].ttl
  BY DEF LiveAt
<1>1. resp[p].id \in issued /\ lease[resp[p].id].ttl \in TTLs
  BY DEF IInv, IssuedInv, FromVault
<1>2. now =< since[p] + ReplyBound
  BY DEF IInv, ReplyInv
<1>3. lease[resp[p].id] = [at |-> since[p], ttl |-> resp[p].ttl]
  BY DEF IInv, ReplyInv
<1>4. now \in Nat /\ since[p] \in Nat
  BY DEF IInv, TypeOK
<1>5. /\ lease[resp[p].id].at = since[p]
      /\ lease[resp[p].id].ttl \in TTLs
  BY <1>1, <1>3
<1> DEFINE l == lease[resp[p].id].ttl
<1>6. l \in Nat /\ (l = 0 \/ l > ReplyBound + 2 * UseBound)
  BY <1>5 DEF MarginSuffices
<1> QED  BY <1>1, <1>2, <1>4, <1>5, <1>6

(* A later instant is harder to outlive. *)
LEMMA LiveEarlier ==
  ASSUME TypeOK, NEW t, NEW x \in Int, NEW y \in Int, x =< y, LiveAt(t, y)
  PROVE  LiveAt(t, x)
<1> SUFFICES ASSUME t \in Tokens, lease[t].ttl # 0
             PROVE  t \in issued /\ x < lease[t].at + lease[t].ttl
  BY DEF LiveAt
<1>1. t \in issued /\ y < lease[t].at + lease[t].ttl
  BY DEF LiveAt
<1>2. lease[t].at \in Nat /\ lease[t].ttl \in Nat
  BY DEF TypeOK
<1> QED  BY <1>1, <1>2

(* Vault never shortens a lease. *)
LEMMA LeaseStable ==
  ASSUME IInv, [Next]_vars, NEW t \in issued
  PROVE  t \in issued' /\ lease'[t] = lease[t]
<1>1. ASSUME NEW p \in Procs, Grant(p) PROVE t \in issued' /\ lease'[t] = lease[t]
  BY <1>1 DEF Grant, IInv, TypeOK
<1>2. (\E p \in Procs : Grant(p)) \/ UNCHANGED <<issued, lease>>
  BY DEF Next, Step, Tick, vars, vault, ReuseToken, NeedLogin, RequestLogin,
         GrantNothing, FailLogin, StoreID, StoreTTL, StoreIssuedAt, BeginRead,
         SetToken, SendOp, ReturnOp
<1> QED  BY <1>1, <1>2

(* LifeInv is inductive relative to IInv when the margin suffices. *)
LEMMA StepLifeInv ==
  ASSUME MarginSuffices, IInv, LifeInv, [Next]_vars
  PROVE  LifeInv'
<1> SUFFICES ASSUME NEW q \in Procs PROVE Outlives(q)'
  BY DEF LifeInv
<1>1. Outlives(q)
  BY DEF LifeInv
<1>2. \A t \in issued : t \in issued' /\ lease'[t] = lease[t]
  BY LeaseStable
<1>3. TypeOK
  BY DEF IInv
<1>4. TypeOK'
  BY <1>3, StepTypeOK
<1>5. ASSUME UNCHANGED <<tokenID, clientToken, half[q], header[q], pc[q], since[q]>>
      PROVE  Outlives(q)'
  BY <1>1, <1>2, <1>5 DEF Outlives, LiveAt
<1>6. ASSUME pc'[q] \notin Using PROVE Outlives(q)'
  BY <1>6 DEF Outlives, Using
<1>7. CASE Tick \/ UNCHANGED vars
  BY <1>5, <1>7 DEF Tick, vars, cached, locals
<1>8. ASSUME NEW p \in Procs, Step(p) PROVE Outlives(q)'
  <2> USE DEF Goto, Leave, cached, locals
  <2>1. CASE NeedLogin(p) \/ RequestLogin(p) \/ Grant(p) \/ GrantNothing(p)
             \/ FailLogin(p) \/ StoreTTL(p) \/ ReturnOp(p)
    <3>1. CASE p = q
      BY <1>3, <1>6, <2>1, <3>1 DEF TypeOK, Using, NeedLogin, RequestLogin, Grant,
         GrantNothing, FailLogin, StoreTTL, ReturnOp
    <3>2. CASE p # q
      BY <1>3, <1>5, <2>1, <3>2 DEF TypeOK, NeedLogin, RequestLogin, Grant,
         GrantNothing, FailLogin, StoreTTL, ReturnOp
    <3> QED  BY <3>1, <3>2
  <2>2. CASE ReuseToken(p)
    <3>1. CASE p = q
      <4>1. LiveAt(tokenID, now + 2 * UseBound)
        BY <2>2, ValidOutlives DEF ReuseToken
      <4>2. pc'[q] = "read" /\ since'[q] = now /\ tokenID' = tokenID
        BY <1>3, <2>2, <3>1 DEF ReuseToken, TypeOK
      <4> QED  BY <1>2, <4>1, <4>2 DEF Outlives, LiveAt
    <3>2. CASE p # q
      BY <1>3, <1>5, <2>2, <3>2 DEF ReuseToken, TypeOK
    <3> QED  BY <3>1, <3>2
  <2>3. CASE StoreID(p)
    <3>1. CASE p = q
      BY <1>3, <1>6, <2>3, <3>1 DEF StoreID, TypeOK, Using
    <3>2. CASE p # q
      <4>1. LiveAt(resp[p].id, now + 2 * UseBound)
        BY <2>3, FreshOutlives DEF StoreID, Storing
      <4>2. UNCHANGED <<clientToken, half[q], header[q], pc[q], since[q]>>
        BY <1>3, <2>3, <3>2 DEF StoreID, TypeOK
      <4>3. pc[q] \in Using => LiveAt(resp[p].id, since[q] + 2 * UseBound)
        <5>1. pc[q] \in Using => since[q] + 2 * UseBound =< now + 2 * UseBound
          BY <1>3 DEF IInv, UseInv, TypeOK
        <5> QED  BY <1>3, <4>1, <5>1, LiveEarlier DEF TypeOK
      <4>4. tokenID' = resp[p].id
        BY <2>3 DEF StoreID
      <4> QED  BY <1>1, <1>2, <4>2, <4>3, <4>4 DEF Outlives, LiveAt, Using
    <3> QED  BY <3>1, <3>2
  <2>4. CASE StoreIssuedAt(p)
    <3>1. CASE p = q
      <4>1. LiveAt(resp[p].id, now + 2 * UseBound)
        BY <2>4, FreshOutlives DEF StoreIssuedAt, Storing
      <4>2. resp[p].id = tokenID
        BY <2>4 DEF StoreIssuedAt, IInv, PartialInv
      <4>3. pc'[q] = "read" /\ since'[q] = now /\ tokenID' = tokenID
        BY <1>3, <2>4, <3>1 DEF StoreIssuedAt, TypeOK
      <4> QED  BY <1>2, <4>1, <4>2, <4>3 DEF Outlives, LiveAt
    <3>2. CASE p # q
      BY <1>3, <1>5, <2>4, <3>2 DEF StoreIssuedAt, TypeOK
    <3> QED  BY <3>1, <3>2
  <2>5. CASE BeginRead(p)
    <3>1. CASE p = q
      <4>1. /\ pc'[q] = "set" /\ pc[q] = "read" /\ half'[q] = tokenID
            /\ since'[q] = since[q] /\ tokenID' = tokenID
        BY <1>3, <2>5, <3>1 DEF BeginRead, TypeOK
      <4> QED  BY <1>1, <1>2, <4>1 DEF Outlives, LiveAt
    <3>2. CASE p # q
      BY <1>3, <1>5, <2>5, <3>2 DEF BeginRead, TypeOK
    <3> QED  BY <3>1, <3>2
  <2>6. CASE SetToken(p)
    <3>1. pc[p] = "set" /\ clientToken' \in {half[p], tokenID, Torn}
      BY <2>6 DEF SetToken, Observed
    <3>2. LiveAt(clientToken', since[p] + 2 * UseBound)
      <4>1. LiveAt(half[p], since[p] + 2 * UseBound)
            /\ LiveAt(tokenID, since[p] + 2 * UseBound)
        BY <3>1 DEF LifeInv, Outlives
      <4>2. LiveAt(Torn, since[p] + 2 * UseBound)
        BY DEF LiveAt
      <4> QED  BY <3>1, <4>1, <4>2
    <3>3. pc'[q] = "send" => LiveAt(clientToken', since[q] + UseBound)
      <4>1. now =< since[p] + UseBound
        BY <3>1 DEF IInv, UseInv, Using
      <4>2. pc'[q] = "send" => since[q] =< now
        BY <1>3, <2>6 DEF SetToken, IInv, UseInv, Using, TypeOK
      <4>3. pc'[q] = "send" => since[q] + UseBound =< since[p] + 2 * UseBound
        BY <1>3, <4>1, <4>2 DEF TypeOK
      <4> QED  BY <1>3, <3>2, <4>3, LiveEarlier DEF TypeOK
    <3>4. UNCHANGED <<tokenID, header[q], since[q]>>
      BY <2>6 DEF SetToken
    <3>5. \/ pc'[q] = "send"
          \/ UNCHANGED <<pc[q], half[q]>>
      BY <1>3, <2>6 DEF SetToken, TypeOK
    <3> QED  BY <1>1, <1>2, <3>3, <3>4, <3>5 DEF Outlives, LiveAt
  <2>7. CASE SendOp(p)
    <3>1. CASE p = q
      <4>1. /\ pc'[q] = "sent" /\ pc[q] = "send" /\ header'[q] = clientToken
            /\ since'[q] = since[q]
        BY <1>3, <2>7, <3>1 DEF SendOp, TypeOK
      <4> QED  BY <1>1, <1>2, <4>1 DEF Outlives, LiveAt
    <3>2. CASE p # q
      BY <1>3, <1>5, <2>7, <3>2 DEF SendOp, TypeOK
    <3> QED  BY <3>1, <3>2
  <2> QED  BY <1>8, <2>1, <2>2, <2>3, <2>4, <2>5, <2>6, <2>7 DEF Step
<1> QED  BY <1>7, <1>8 DEF Next

(* If the margin covers the delays, isTokenValid never vouches for a token *)
(* Vault has expired (auth_base.go:49-64).                                 *)
THEOREM NoExpiredReuse ==
  ASSUME MarginSuffices PROVE Spec => []ExpiredTokenNotReused
<1>1. IInv => ExpiredTokenNotReused
  <2> SUFFICES ASSUME IInv, mu = NoProc, TokenValid PROVE LiveAt(tokenID, now)
    BY DEF ExpiredTokenNotReused
  <2>1. LiveAt(tokenID, now + 2 * UseBound)
    BY ValidOutlives
  <2>2. now \in Nat
    BY DEF IInv, TypeOK
  <2> QED  BY <2>1, <2>2, LiveEarlier DEF IInv
<1> QED  BY Invariance, <1>1, PTL

(* Then no operation reaches Vault with an expired token either, although  *)
(* the goroutines overwrite the shared client's token at will.             *)
THEOREM OperationsLive ==
  ASSUME MarginSuffices PROVE Spec => []OperationTokenLive
<1>1. Init => LifeInv
  BY DEF Init, LifeInv, Outlives
<1>2. IInv /\ LifeInv /\ [Next]_vars => LifeInv'
  BY StepLifeInv
<1>3. IInv /\ LifeInv => OperationTokenLive
  <2> SUFFICES ASSUME IInv, LifeInv, NEW p \in Procs, pc[p] = "sent"
               PROVE  LiveAt(header[p], now)
    BY DEF OperationTokenLive
  <2>1. LiveAt(header[p], since[p] + UseBound)
    BY DEF LifeInv, Outlives
  <2>2. now \in Nat /\ since[p] \in Nat /\ now =< since[p] + UseBound
    BY DEF IInv, TypeOK, UseInv, Using
  <2> QED  BY <2>1, <2>2, LiveEarlier DEF IInv
<1> QED  BY Invariance, <1>1, <1>2, <1>3, PTL DEF Spec

-----------------------------------------------------------------------------
(* The promise of Credential.                                              *)

LEMMA PromiseInit == Init => Promise!Init
BY DEF Init, Promise!Init, Carried

(* Each step is one of Credential's, or none.                              *)
LEMMA PromiseStep ==
  ASSUME IInv, LifeInv, IInv', OperationTokenLive', [Next]_vars
  PROVE  [Promise!Next]_(Promise!vars)
<1> USE DEF Goto, Leave, cached, locals, vault
<1>0. TypeOK
  BY DEF IInv
<1>1. CASE Tick
  <2>1. now' = now + 1 /\ UNCHANGED <<issued, lease, pc, header>>
    BY <1>1 DEF Tick
  <2>2. Carried' = Carried
    BY <2>1 DEF Carried
  <2>3. ASSUME NEW p \in Procs, NEW v \in Carried[p] \ {NoToken, Torn}
        PROVE  Promise!Live(v, now + 1)
    <3>1. pc[p] = "sent" /\ v = header[p]
      BY DEF Carried
    <3>2. v \in issued /\ v \in Tokens
      BY <3>1 DEF IInv, IssuedInv, FromVault
    <3>3. LiveAt(header[p], now)'
      BY <2>1, <3>1 DEF OperationTokenLive
    <3> QED  BY <2>1, <3>1, <3>2, <3>3 DEF LiveAt, Promise!Live
  <2> QED  BY <2>1, <2>2, <2>3 DEF Promise!Pass, Promise!Next
<1>2. ASSUME UNCHANGED <<now, issued, lease>>,
             \A q \in Procs : /\ (pc'[q] = "sent") <=> (pc[q] = "sent")
                              /\ pc[q] = "sent" => header'[q] = header[q]
      PROVE  UNCHANGED Promise!vars
  <2>1. Carried' = Carried
    BY <1>2 DEF Carried
  <2> QED  BY <1>2, <2>1 DEF Promise!vars
<1>3. ASSUME NEW p \in Procs, Step(p) PROVE [Promise!Next]_(Promise!vars)
  <2>1. CASE \/ ReuseToken(p) \/ NeedLogin(p) \/ RequestLogin(p) \/ GrantNothing(p)
             \/ FailLogin(p) \/ StoreID(p) \/ StoreTTL(p) \/ StoreIssuedAt(p)
             \/ BeginRead(p) \/ SetToken(p)
    <3>1. UNCHANGED <<now, issued, lease>>
      BY <2>1 DEF ReuseToken, NeedLogin, RequestLogin, GrantNothing, FailLogin, StoreID,
         StoreTTL, StoreIssuedAt, BeginRead, SetToken
    <3>2. pc[p] # "sent" /\ pc'[p] # "sent" /\ \A q \in Procs \ {p} : pc'[q] = pc[q]
      BY <1>0, <2>1 DEF TypeOK, ReuseToken, NeedLogin, RequestLogin, GrantNothing,
         FailLogin, StoreID, StoreTTL, StoreIssuedAt, BeginRead, SetToken
    <3>3. \A q \in Procs \ {p} : header'[q] = header[q]
      BY <1>0, <2>1 DEF TypeOK, ReuseToken, NeedLogin, RequestLogin, GrantNothing,
         FailLogin, StoreID, StoreTTL, StoreIssuedAt, BeginRead, SetToken
    <3> QED  BY <1>2, <3>1, <3>2, <3>3
  <2>2. CASE Grant(p)
    <3>1. /\ pc[p] # "sent" /\ pc'[p] # "sent"
          /\ \A q \in Procs \ {p} : pc'[q] = pc[q] /\ header'[q] = header[q]
      BY <1>0, <2>2 DEF TypeOK, Grant
    <3>2. Carried' = Carried
      BY <3>1 DEF Carried
    <3>3. /\ now' = now
          /\ \E t \in Tokens \ issued, l \in TTLs :
               /\ issued' = issued \cup {t}
               /\ lease' = [lease EXCEPT ![t] = [at |-> now, ttl |-> l]]
      BY <2>2 DEF Grant
    <3> QED  BY <3>2, <3>3 DEF Promise!Issue, Promise!Next
  <2>3. CASE SendOp(p)
    <3>1. /\ UNCHANGED <<now, issued, lease>> /\ pc[p] = "send" /\ pc'[p] = "sent"
          /\ header'[p] = clientToken
          /\ \A q \in Procs \ {p} : pc'[q] = pc[q] /\ header'[q] = header[q]
      BY <1>0, <2>3 DEF TypeOK, SendOp
    <3>2. /\ Carried[p] = {} /\ Carried' = [Carried EXCEPT ![p] = {clientToken}]
      BY <3>1 DEF Carried
    <3>3. clientToken \in issued \cup {NoToken, Torn}
      BY DEF IInv, IssuedInv, FromVault
    <3>4. clientToken \notin {NoToken, Torn} => Promise!Live(clientToken, now)
      <4>1. LiveAt(clientToken, since[p] + UseBound)
        BY <3>1 DEF LifeInv, Outlives
      <4>2. now \in Nat /\ since[p] \in Nat /\ now =< since[p] + UseBound
        BY <3>1, <1>0 DEF IInv, TypeOK, UseInv, Using
      <4>3. LiveAt(clientToken, now)
        BY <1>0, <4>1, <4>2, LiveEarlier
      <4> QED  BY <3>3, <4>3 DEF LiveAt, Promise!Live, IInv, IssuedInv
    <3> QED  BY <3>1, <3>2, <3>3, <3>4 DEF Promise!Send, Promise!Next
  <2>4. CASE ReturnOp(p)
    <3>1. /\ UNCHANGED <<now, issued, lease>> /\ pc[p] = "sent" /\ pc'[p] = "idle"
          /\ \A q \in Procs \ {p} : pc'[q] = pc[q] /\ header'[q] = header[q]
      BY <1>0, <2>4 DEF TypeOK, ReturnOp
    <3>2. Carried[p] # {} /\ Carried' = [Carried EXCEPT ![p] = {}]
      BY <3>1 DEF Carried
    <3> QED  BY <3>1, <3>2 DEF Promise!Return, Promise!Next
  <2> QED  BY <1>3, <2>1, <2>2, <2>3, <2>4 DEF Step
<1>4. CASE UNCHANGED vars
  BY <1>2, <1>4 DEF vars
<1> QED  BY <1>1, <1>3, <1>4 DEF Next

(* If the margin covers the delays, the client keeps the promise of        *)
(* Credential, for any number of goroutines, tokens and steps.             *)
THEOREM Refinement ==
  ASSUME MarginSuffices PROVE Spec => KeepsPromise
<1>1. Init => LifeInv
  BY DEF Init, LifeInv, Outlives
<1>2. IInv /\ LifeInv /\ [Next]_vars => LifeInv'
  BY StepLifeInv
<1>3. IInv /\ LifeInv /\ IInv' /\ OperationTokenLive' /\ [Next]_vars
        => [Promise!Next]_(Promise!vars)
  BY PromiseStep
<1>4. Spec => []OperationTokenLive
  BY OperationsLive
<1> QED  BY Invariance, PromiseInit, <1>1, <1>2, <1>3, <1>4, PTL
            DEF Spec, KeepsPromise, Promise!Spec
=============================================================================

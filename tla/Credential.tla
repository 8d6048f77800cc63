------------------------------ MODULE Credential -----------------------------
(***************************************************************************)
(* What the login half of a Vault client promises, without goroutines,     *)
(* caches, locks or margins: Vault issues tokens; whoever sends an         *)
(* operation carries a token that was issued to this client and stays      *)
(* alive until the answer comes, or visibly none at all.                   *)
(*                                                                         *)
(* VaultAuth implements it, with the tokens of the requests in flight for  *)
(* carried.                                                                *)
(***************************************************************************)
EXTENDS Integers

CONSTANTS
  Clients,   \* who sends operations
  Tokens,    \* what Vault can issue
  Blanks,    \* what a request carries that has no token
  TTLs       \* for how long tokens are issued; 0 is for ever

VARIABLES
  now,       \* the clock
  issued,    \* the tokens issued so far
  lease,     \* lease[t], when t was issued and for how long
  carried    \* carried[c], what c's request in flight carries: {} without one

vars == <<now, issued, lease, carried>>

Init ==
  /\ now = 0
  /\ issued = {}
  /\ lease = [t \in Tokens |-> [at |-> 0, ttl |-> 0]]
  /\ carried = [c \in Clients |-> {}]

Live(t, x) ==
  /\ t \in issued
  /\ lease[t].ttl = 0 \/ x < lease[t].at + lease[t].ttl

(* Each token is issued once, and its lease never changed. *)
Issue ==
  \E t \in Tokens \ issued, l \in TTLs :
    /\ issued' = issued \cup {t}
    /\ lease' = [lease EXCEPT ![t] = [at |-> now, ttl |-> l]]
    /\ UNCHANGED <<now, carried>>

Send(c) ==
  /\ carried[c] = {}
  /\ \E v \in Blanks \cup issued :
       /\ v \notin Blanks => Live(v, now)
       /\ carried' = [carried EXCEPT ![c] = {v}]
  /\ UNCHANGED <<now, issued, lease>>

Return(c) ==
  /\ carried[c] # {}
  /\ carried' = [carried EXCEPT ![c] = {}]
  /\ UNCHANGED <<now, issued, lease>>

(* No token runs out while a request carries it. *)
Pass ==
  /\ \A c \in Clients : \A v \in carried[c] \ Blanks : Live(v, now + 1)
  /\ now' = now + 1
  /\ UNCHANGED <<issued, lease, carried>>

Next == Pass \/ Issue \/ \E c \in Clients : Send(c) \/ Return(c)

Spec == Init /\ [][Next]_vars
=============================================================================

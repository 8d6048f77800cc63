------------------------------- MODULE MCSigner ------------------------------
(***************************************************************************)
(* Signer on a small instance: two roots, an intermediate, certificates    *)
(* for the two versions of the key and for the key file, some of them      *)
(* short-lived, and settings of every kind.                                *)
(***************************************************************************)
EXTENDS Signer

Cert0(name, issuer, key, from, to, sct) ==
  [name |-> name, issuer |-> issuer, key |-> key, from |-> from, to |-> to,
   sct |-> sct]

(* R issued I, which expires at 1; R2 is a root of somebody else.  CA keys  *)
(* are 8, 9 and 10.                                                         *)
R  == Cert0("R", "R", 8, 0, 9, FALSE)
R2 == Cert0("R2", "R2", 9, 0, 9, FALSE)
I  == Cert0("I", "R", 10, 0, 1, FALSE)
L1 == Cert0("L1", "I", 1, 0, 1, FALSE)
L2 == Cert0("L2", "I", 2, 1, 2, FALSE)
X1 == Cert0("X1", "R2", 1, 0, 2, FALSE)
S1 == Cert0("S1", "R", 1, 0, 2, TRUE)
LF == Cert0("LF", "R", FileKey, 0, 2, FALSE)

MCCerts == {R, R2, I, L1, L2, X1, S1, LF}

MCCertRefs  == {<<>>, Unreadable, <<L1>>, <<L2>>, <<X1>>, <<S1>>, <<LF>>}
MCChainRefs == {<<>>, Unreadable, <<I, R>>, <<R>>, <<I>>, <<R2>>}

RootRefs == {<<>>, Unreadable, <<R>>, <<R2>>, <<I, R>>, <<L1>>}
MCRootLists == {<<>>} \cup {<<r>> : r \in RootRefs} \cup
               {<<<<R2>>, <<R>>>>, <<<<R>>, <<R2>>>>, <<Unreadable, <<R>>>>,
                <<<<R>>, Unreadable>>, <<<<>>, <<R2>>>>}

(* Two manifests whose annotations differ and read the same when joined,    *)
(* and one with two annotations.                                            *)
MCBodies == {<<>>}
MCNotes  == {<<1>> :> <<2>>, <<1, 2>> :> <<>>, <<1>> :> <<2>> @@ <<2>> :> <<1>>}

Options ==
  [{"AppRole"} -> {{"RoleID", "SecretID"}, {"RoleID", "Path"},
                   {"RoleID", "SecretID", "Path"}}]
  \cup [{"OIDC"} -> {{"Audience"}, {"Audience", "Role", "Path"}, {"Role"}}]
  \cup [{"JWT"} -> {{"JWT"}, {"JWT", "Role", "Path"}, {}}]
  \cup [{"Token"} -> {{"Token"}, {}}]
  \cup [{"JWT", "Token"} -> {{"JWT"}, {"Token"}}]
  \cup [{} -> {{}}]

Request(keyRef, envMode, options, env, address) ==
  [keyRef |-> keyRef, envMode |-> envMode, auth |-> options, env |-> env,
   address |-> address]

(* Environments: any variables set, to nothing those of E. *)
Env(set, E) == [x \in set |-> IF x \in E THEN "" ELSE x]
Masking == DOMAIN Fallback
Environments ==
  {Env(s \cup rest, E) : s \in SUBSET (AuthVars \ SharedVars), rest \in {{}, SharedVars},
                         E \in SUBSET Masking}
  \cup {Env(AuthVars, E) : E \in SUBSET AuthVars}

(* Every set of options in some environments; of those with an address, so  *)
(* that the signer is loaded, a few.                                        *)
Refused == {Request(k, TRUE, <<>>, <<>>, TRUE) : k \in {"", "unsupported"}}
Chosen0 == {Request("hashivault", TRUE, <<>>, env, FALSE) : env \in Environments}
           \cup {Request("hashivault", FALSE, o, Env(set \cup rest, E), FALSE) :
                   o \in Options, set \in SUBSET RequestVars, E \in SUBSET RequestVars,
                   rest \in {{}, AuthVars \ RequestVars}}
Loaded  == {Request("file", TRUE, <<>>, <<>>, TRUE),
            Request("hashivault", FALSE, "Token" :> {"Token"}, <<>>, TRUE),
            Request("hashivault", FALSE, "Token" :> {"Token"},
                    Env({"VAULT_ADDR"}, {}), FALSE),
            Request("hashivault", FALSE, "Token" :> {"Token"},
                    Env({"VAULT_ADDR"}, {"VAULT_ADDR"}), FALSE)}

FewRequests == Loaded
MCRequests  == Refused \cup Chosen0 \cup Loaded
=============================================================================

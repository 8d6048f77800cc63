------------------------------ MODULE AuthSelect -----------------------------
(***************************************************************************)
(* Which identity a Vault signer acts under (pkg/signver/hashivault:       *)
(* auth_factory.go, config_auth.go, config_vault.go, and the constructors  *)
(* of the authenticators).  VaultOpts.Auth == nil is env-mode, anything    *)
(* else is opts-mode.                                                      *)
(*                                                                         *)
(* A string is the name of where it comes from, or "" if it is empty.  The *)
(* environment maps the variables that are set, to the empty string some   *)
(* of them, to their strings; the options of a variant are the set of its  *)
(* fields that are not empty; an authenticator holds its strings.          *)
(***************************************************************************)
AppRoleVars == {"WERF_VAULT_AUTH_ROLE_ID", "VAULT_ROLE_ID",
                "WERF_VAULT_AUTH_SECRET_ID", "VAULT_SECRET_ID"}
RequestVars == {"ACTIONS_ID_TOKEN_REQUEST_URL", "ACTIONS_ID_TOKEN_REQUEST_TOKEN"}
OIDCVars    == {"WERF_ACTIONS_AUDIENCE"} \cup RequestVars
JWTVars     == {"WERF_VAULT_AUTH_JWT"}
TokenVars   == {"VAULT_TOKEN", "~/.vault-token"}   \* the latter a file
SharedVars  == {"WERF_VAULT_AUTH_ROLE", "WERF_VAULT_AUTH_PATH"}
AuthVars    == AppRoleVars \cup OIDCVars \cup JWTVars \cup TokenVars \cup SharedVars

IsEnvironment(env) ==
  /\ DOMAIN env \subseteq AuthVars \cup {"VAULT_ADDR"}
  /\ \A x \in DOMAIN env : env[x] \in {"", x}

Variants == {"AppRole", "OIDC", "JWT", "Token"}

-----------------------------------------------------------------------------
(* env.GetString: a variable that is set to nothing is set. *)
GetString(env, name, default) == IF name \in DOMAIN env THEN env[name] ELSE default

(* os.Getenv; a field of the options. *)
Getenv(env, name)   == GetString(env, name, "")
Field(fields, name) == IF name \in fields THEN name ELSE ""

Or(first, default) == IF first # "" THEN first ELSE default

(* An authenticator: its method, mount path, and what it logs in with.      *)
(* One that could not be made keeps the method it was tried for.            *)
Made(method, path, creds) ==
  [method |-> method, ok |-> TRUE, path |-> path, creds |-> creds]
Failed(method) ==
  [method |-> method, ok |-> FALSE, path |-> "", creds |-> {}]

NewAppRole(roleID, secretID, path) ==
  Made("AppRole", Or(path, "ar"), {roleID, secretID})

NewJWT(method, provider, role, path) ==
  Made(method, Or(path, "jwt"), provider \cup {role})

NewStatic(token) == Made("Token", "", {token})

(* What the GitHub Actions provider asks for its token with, which the      *)
(* runner sets.                                                             *)
RequestStrings(env) == {Getenv(env, x) : x \in RequestVars}

NewOIDC(env, audience, role, path) ==
  IF "" \notin RequestStrings(env)
  THEN NewJWT("OIDC", RequestStrings(env) \cup {audience}, role, path)
  ELSE Failed("OIDC")

(* getVaultToken(""): VAULT_TOKEN, then the file. *)
VaultToken(env) == Or(Getenv(env, "VAULT_TOKEN"), Getenv(env, "~/.vault-token"))

(* The variable of werf's own, set to nothing, masks Vault's. *)
RoleID(env) ==
  GetString(env, "WERF_VAULT_AUTH_ROLE_ID", GetString(env, "VAULT_ROLE_ID", ""))
SecretID(env) ==
  GetString(env, "WERF_VAULT_AUTH_SECRET_ID", GetString(env, "VAULT_SECRET_ID", ""))
Audience(env) == GetString(env, "WERF_ACTIONS_AUDIENCE", "")
JWT(env)      == GetString(env, "WERF_VAULT_AUTH_JWT", "")

MutEnvMethod(env) ==         \* the static JWT looked at first
  IF JWT(env) # ""           THEN "JWT"
  ELSE IF RoleID(env) # "" /\ SecretID(env) # "" THEN "AppRole"
  ELSE IF Audience(env) # "" THEN "OIDC"
  ELSE                            "Token"

(* The method env-mode settles on: the first whose own strings are there. *)
EnvMethod(env) ==
  IF RoleID(env) # "" /\ SecretID(env) # "" THEN "AppRole"
  ELSE IF Audience(env) # "" THEN "OIDC"
  ELSE IF JWT(env) # ""      THEN "JWT"
  ELSE                            "Token"

(* newAuthenticatorFromEnv *)
FromEnv(env) ==
  LET path == GetString(env, "WERF_VAULT_AUTH_PATH", "")
      role == GetString(env, "WERF_VAULT_AUTH_ROLE", "")
      method == EnvMethod(env)
  IN CASE method = "AppRole" -> NewAppRole(RoleID(env), SecretID(env), path)
       [] method = "OIDC"    -> NewOIDC(env, Audience(env), role, path)
       [] method = "JWT"     -> NewJWT("JWT", {JWT(env)}, role, path)
       [] OTHER -> IF VaultToken(env) # "" THEN NewStatic(VaultToken(env))
                                           ELSE Failed("Token")

(* The fields a variant must have. *)
Required == [AppRole |-> {"RoleID", "SecretID"}, OIDC |-> {"Audience"},
             JWT |-> {"JWT"}, Token |-> {"Token"}]

(* newAuthenticatorFromOpts for the variant v and its fields. *)
FromVariant(v, fields, env) ==
  LET path == Field(fields, "Path")
      role == Field(fields, "Role")
  IN CASE v = "AppRole" -> NewAppRole("RoleID", "SecretID", path)
       [] v = "OIDC"    -> NewOIDC(env, "Audience", role, path)
       [] v = "JWT"     -> NewJWT("JWT", {"JWT"}, role, path)
       [] OTHER         -> NewStatic("Token")

TheVariant(auth) == CHOOSE v \in DOMAIN auth : TRUE

(* validate(): exactly one variant is set; and that one is complete. *)
Valid(auth) ==
  \E v \in Variants : DOMAIN auth = {v} /\ Required[v] \subseteq auth[v]

MutFromOpts(auth, env) ==    \* options that will not do give way to the environment
  IF Valid(auth) THEN FromVariant(TheVariant(auth), auth[TheVariant(auth)], env)
                 ELSE FromEnv(env)

(* newAuthenticatorFromOpts.  auth maps the variants that are set to their  *)
(* fields.                                                                  *)
FromOpts(auth, env) ==
  IF Valid(auth) THEN FromVariant(TheVariant(auth), auth[TheVariant(auth)], env)
                 ELSE Failed("none")

(* newAuthenticator; in env-mode there is no auth to look at. *)
NewAuthenticator(envMode, auth, env) ==
  IF envMode THEN FromEnv(env) ELSE FromOpts(auth, env)

(* The order of the methods in env-mode, the fallbacks of two variables,    *)
(* and an environment without one of its variables.                         *)
Rank     == [AppRole |-> 1, OIDC |-> 2, JWT |-> 3, Token |-> 4]
Fallback == [WERF_VAULT_AUTH_ROLE_ID   |-> "VAULT_ROLE_ID",
             WERF_VAULT_AUTH_SECRET_ID |-> "VAULT_SECRET_ID"]
Without(env, x) == [y \in DOMAIN env \ {x} |-> env[y]]
=============================================================================

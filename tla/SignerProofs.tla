----------------------------- MODULE SignerProofs ----------------------------
(***************************************************************************)
(* Proofs about Signer: which identity it acts under, whatever the         *)
(* environment and the options; what a rotation can do to the certificate; *)
(* and what an accepted manifest tells.                                    *)
(***************************************************************************)
EXTENDS Signer, SequenceTheorems, TLAPS

USE DEF SIGNATURE, CERT, CHAIN

(* The keys of a bundle's annotations differ. *)
LEMMA KeysDiffer == SIGNATURE # CERT /\ SIGNATURE # CHAIN /\ CERT # CHAIN
  OBVIOUS

(* The empty reference reads as no certificates. *)
LEMMA EmptyReadable == <<>> \in Seq(Certs) /\ <<>> # Unreadable
  <1>1. <<>> \in Seq(Certs)
    BY EmptySeq
  <1>2. QED
    BY <1>1, UnreadableAssumption

-----------------------------------------------------------------------------
(* Whatever an environment leads to, its method is EnvMethod's.             *)
LEMMA MethodOfEnv ==
  ASSUME NEW env PROVE FromEnv(env).method = EnvMethod(env)
  <1>1. EnvMethod(env) \in {"AppRole", "OIDC", "JWT", "Token"}
    BY DEF EnvMethod
  <1>2. QED
    BY <1>1 DEF FromEnv, NewAppRole, NewOIDC, NewJWT, NewStatic, Made, Failed

(* Names of fields, defaults and "" are not variables. *)
LEMMA NotInEnv ==
  \A s \in {"", "ar", "jwt", "Path", "Role", "Audience", "RoleID", "SecretID",
             "JWT", "Token"} : s \notin AuthVars
  BY DEF AuthVars, AppRoleVars, OIDCVars, JWTVars, TokenVars, SharedVars, RequestVars

(* An authenticator that could not be made holds nothing. *)
LEMMA FailedIsEmpty ==
  ASSUME NEW method
  PROVE  /\ Failed(method).creds = {} /\ Failed(method).path = ""
         /\ Failed(method).ok = FALSE
  BY DEF Failed

(* What the authenticators hold. *)
LEMMA AppRoleHolds ==
  ASSUME NEW r, NEW s, NEW p
  PROVE  NewAppRole(r, s, p).creds = {r, s} /\ NewAppRole(r, s, p).path = Or(p, "ar")
  BY DEF NewAppRole, Made
LEMMA JWTHolds ==
  ASSUME NEW m, NEW c, NEW r, NEW p
  PROVE  NewJWT(m, c, r, p).creds = c \cup {r} /\ NewJWT(m, c, r, p).path = Or(p, "jwt")
  BY DEF NewJWT, Made
LEMMA StaticHolds ==
  ASSUME NEW t PROVE NewStatic(t).creds = {t}
  BY DEF NewStatic, Made

(* newAuthenticatorFromOpts takes nothing from the environment but the      *)
(* request variables, and refuses what is not valid.                        *)
LEMMA OptsAlone ==
  ASSUME NEW options, NEW env, IsEnvironment(env)
  PROVE  /\ FromOpts(options, env).creds \cap (AuthVars \ RequestVars) = {}
         /\ FromOpts(options, env).path \notin AuthVars
         /\ ~Valid(options) => ~FromOpts(options, env).ok
  <1>0. SUFFICES
          ASSUME NEW v, NEW fields
          PROVE  /\ FromVariant(v, fields, env).creds \cap (AuthVars \ RequestVars) = {}
                 /\ FromVariant(v, fields, env).path \notin AuthVars
    <2>1. CASE Valid(options)
      BY <2>1, <1>0 DEF FromOpts
    <2>2. CASE ~Valid(options)
      <3>1. FromOpts(options, env) = Failed("none")
        BY <2>2 DEF FromOpts
      <3>2. QED
        BY <3>1, FailedIsEmpty, NotInEnv
    <2>3. QED
      BY <2>1, <2>2
  <1> DEFINE path == Field(fields, "Path")
             role == Field(fields, "Role")
  <1>1. path \in {"", "Path"} /\ role \in {"", "Role"}
    BY DEF Field
  <1>2. CASE v = "AppRole"
    BY <1>1, <1>2, NotInEnv DEF FromVariant, NewAppRole, Made, Or
  <1>3. CASE v = "OIDC"
    <2>1. FromVariant(v, fields, env) = NewOIDC(env, "Audience", role, path)
      BY <1>3 DEF FromVariant
    <2>2. CASE "" \notin RequestStrings(env)
      <3>1. FromVariant(v, fields, env)
              = Made("OIDC", Or(path, "jwt"), (RequestStrings(env) \cup {"Audience"}) \cup {role})
        BY <2>1, <2>2 DEF NewOIDC, NewJWT
      <3>2. Or(path, "jwt") \notin AuthVars
        BY <1>1, NotInEnv DEF Or
      <3>3. "Audience" \notin AuthVars /\ role \notin AuthVars
        BY <1>1, NotInEnv
      <3>4. RequestStrings(env) \cap (AuthVars \ RequestVars) = {}
        <4>1. \A x \in RequestVars : Getenv(env, x) \in {"", x}
          BY DEF Getenv, GetString, IsEnvironment
        <4>2. QED
          BY <4>1, NotInEnv DEF RequestStrings
      <3>5. QED
        BY <3>1, <3>2, <3>3, <3>4 DEF Made
    <2>3. CASE "" \in RequestStrings(env)
      <3>1. FromVariant(v, fields, env) = Failed("OIDC")
        BY <2>1, <2>3 DEF NewOIDC
      <3>2. QED
        BY <3>1, FailedIsEmpty, NotInEnv
    <2>4. QED
      BY <2>2, <2>3
  <1>4. CASE v = "JWT"
    BY <1>1, <1>4, NotInEnv DEF FromVariant, NewJWT, Made, Or
  <1>5. CASE v \notin {"AppRole", "OIDC", "JWT"}
    BY <1>5, NotInEnv DEF FromVariant, NewStatic, Made
  <1>6. QED
    BY <1>2, <1>3, <1>4, <1>5

(* The string of a variable, and of every one when x is taken away. *)
Str(env, y) == GetString(env, y, "")
LEMMA StrWithout ==
  ASSUME NEW env, NEW x, NEW y
  PROVE  Str(Without(env, x), y) = IF y = x THEN "" ELSE Str(env, y)
  BY DEF Str, GetString, Without
LEMMA OtherStr ==
  ASSUME NEW env, NEW x
  PROVE  \A y : y # x => Str(Without(env, x), y) = Str(env, y)
  BY DEF Str, GetString, Without
LEMMA EmptyStr ==
  ASSUME NEW env, NEW x, Str(env, x) = ""
  PROVE  \A y : Str(Without(env, x), y) = Str(env, y)
  BY DEF Str, GetString, Without

(* Where the request strings agree, so do the providers.                    *)
LEMMA SameProvider ==
  ASSUME NEW env, NEW other, RequestStrings(env) = RequestStrings(other)
  PROVE  \A a, r, p : NewOIDC(env, a, r, p) = NewOIDC(other, a, r, p)
  BY DEF NewOIDC

(* Environments with the same strings lead to the same authenticator. *)
SameStrings(env, other) ==
  /\ RoleID(env) = RoleID(other) /\ SecretID(env) = SecretID(other)
  /\ \A y \in AuthVars \ AppRoleVars : Str(env, y) = Str(other, y)
LEMMA SameOutcome ==
  ASSUME NEW env, NEW other, SameStrings(env, other)
  PROVE  FromEnv(env) = FromEnv(other)
  <1>1. \A y \in OIDCVars \cup JWTVars \cup TokenVars \cup SharedVars :
          GetString(env, y, "") = GetString(other, y, "")
    BY DEF SameStrings, Str, AuthVars, AppRoleVars, OIDCVars, RequestVars, JWTVars,
           TokenVars, SharedVars
  <1>2. Audience(env) = Audience(other) /\ JWT(env) = JWT(other)
    BY <1>1 DEF Audience, JWT, OIDCVars, JWTVars
  <1>3. EnvMethod(env) = EnvMethod(other)
    BY <1>2 DEF EnvMethod, SameStrings
  <1>4. RequestStrings(env) = RequestStrings(other)
    BY <1>1 DEF RequestStrings, Getenv, OIDCVars
  <1>5. VaultToken(env) = VaultToken(other)
    <2>1. /\ GetString(env, "VAULT_TOKEN", "") = GetString(other, "VAULT_TOKEN", "")
          /\ GetString(env, "~/.vault-token", "") = GetString(other, "~/.vault-token", "")
      BY <1>1 DEF TokenVars
    <2>2. QED
      BY <2>1 DEF VaultToken, Getenv
  <1>6. /\ GetString(env, "WERF_VAULT_AUTH_PATH", "") = GetString(other, "WERF_VAULT_AUTH_PATH", "")
        /\ GetString(env, "WERF_VAULT_AUTH_ROLE", "") = GetString(other, "WERF_VAULT_AUTH_ROLE", "")
    BY <1>1 DEF SharedVars
  <1>7. \A a, r, p : NewOIDC(env, a, r, p) = NewOIDC(other, a, r, p)
    BY <1>4 DEF NewOIDC
  <1>8. QED
    BY <1>2, <1>3, <1>5, <1>6, <1>7 DEF FromEnv, SameStrings

(* What a variable x makes of the outcome without it. *)
Explained(env, x) ==
  LET auth0 == FromEnv(env)
      without == FromEnv(Without(env, x))
      value == env[x]
  IN \/ auth0 = without
     \/ /\ value # ""
        /\ Rank[auth0.method] =< Rank[without.method]
        /\ value \in auth0.creds \cup {auth0.path} \/ ~auth0.ok
     \/ /\ value = ""
        /\ x \in DOMAIN Fallback
        /\ Fallback[x] \in without.creds

(* One that none of the methods reads.                                      *)
LEMMA OthersExplained ==
  ASSUME NEW env, NEW x, x \notin AuthVars
  PROVE  Explained(env, x)
  <1>1. SameStrings(env, Without(env, x))
    BY DEF SameStrings, Str, RoleID, SecretID, GetString, Without, AuthVars, AppRoleVars
  <1>2. QED
    BY <1>1, SameOutcome DEF Explained

(* One that is empty: only the two with a fallback can matter. *)
LEMMA EmptyExplained ==
  ASSUME NEW env, NEW x \in DOMAIN env, env[x] = "", IsEnvironment(env)
  PROVE  Explained(env, x)
  <1> DEFINE w == Without(env, x)
  <1>1. \A y : Str(w, y) = Str(env, y)
    <2>1. Str(env, x) = ""
      BY DEF Str, GetString
    <2>2. QED
      BY ONLY <2>1, EmptyStr
  <1>2. x # "WERF_VAULT_AUTH_ROLE_ID" => RoleID(w) = RoleID(env)
    BY DEF RoleID, GetString, Without
  <1>3. x # "WERF_VAULT_AUTH_SECRET_ID" => SecretID(w) = SecretID(env)
    BY DEF SecretID, GetString, Without
  <1>4. SameStrings(env, w) => Explained(env, x)
    BY SameOutcome DEF Explained
  <1>5. x \notin DOMAIN Fallback => SameStrings(env, w)
    BY <1>1, <1>2, <1>3 DEF Fallback, SameStrings
  <1>6. CASE EnvMethod(w) # "AppRole"
    <2>1. EnvMethod(env) = EnvMethod(w) /\ EnvMethod(env) # "AppRole"
      <3>1. Audience(env) = Audience(w) /\ JWT(env) = JWT(w)
        BY <1>1 DEF Audience, JWT, Str
      <3>2. RoleID(env) = "" \/ SecretID(env) = ""
        <4>1. RoleID(w) = "" \/ SecretID(w) = ""
          BY <1>6 DEF EnvMethod
        <4>2. x = "WERF_VAULT_AUTH_ROLE_ID" => RoleID(env) = ""
          BY DEF RoleID, GetString
        <4>3. x = "WERF_VAULT_AUTH_SECRET_ID" => SecretID(env) = ""
          BY DEF SecretID, GetString
        <4>4. QED
          BY <1>2, <1>3, <4>1, <4>2, <4>3
      <3>3. QED
        BY <1>6, <3>1, <3>2 DEF EnvMethod
    <2>2. RequestStrings(env) = RequestStrings(w) /\ VaultToken(env) = VaultToken(w)
      <3>1. \A y : Getenv(env, y) = Getenv(w, y)
        BY <1>1 DEF Getenv, Str
      <3>2. Getenv(env, "VAULT_TOKEN") = Getenv(w, "VAULT_TOKEN")
        BY <3>1
      <3>3. Getenv(env, "~/.vault-token") = Getenv(w, "~/.vault-token")
        BY <3>1
      <3>4. QED
        BY <3>1, <3>2, <3>3 DEF RequestStrings, VaultToken
    <2>3. \A a, r, p : NewOIDC(env, a, r, p) = NewOIDC(w, a, r, p)
      BY <2>2 DEF NewOIDC
    <2>4. /\ Audience(env) = Audience(w) /\ JWT(env) = JWT(w)
          /\ GetString(env, "WERF_VAULT_AUTH_PATH", "") = GetString(w, "WERF_VAULT_AUTH_PATH", "")
          /\ GetString(env, "WERF_VAULT_AUTH_ROLE", "") = GetString(w, "WERF_VAULT_AUTH_ROLE", "")
      BY <1>1 DEF Audience, JWT, Str
    <2>5. FromEnv(env) = FromEnv(w)
      BY <2>1, <2>2, <2>3, <2>4 DEF FromEnv
    <2>6. QED
      BY <2>5 DEF Explained
  <1>7. CASE EnvMethod(w) = "AppRole" /\ x \in DOMAIN Fallback
    <2>1. FromEnv(w).creds = {RoleID(w), SecretID(w)} /\ RoleID(w) # "" /\ SecretID(w) # ""
      BY <1>7 DEF FromEnv, NewAppRole, Made, EnvMethod
    <2>2. CASE x = "WERF_VAULT_AUTH_ROLE_ID"
      <3>1. RoleID(w) = GetString(env, "VAULT_ROLE_ID", "")
        BY <2>2 DEF RoleID, GetString, Without
      <3>2. RoleID(w) = "VAULT_ROLE_ID"
        BY <2>1, <3>1 DEF GetString, IsEnvironment
      <3>3. QED
        BY <2>1, <2>2, <3>2 DEF Explained, Fallback
    <2>3. CASE x = "WERF_VAULT_AUTH_SECRET_ID"
      <3>1. SecretID(w) = GetString(env, "VAULT_SECRET_ID", "")
        BY <2>3 DEF SecretID, GetString, Without
      <3>2. SecretID(w) = "VAULT_SECRET_ID"
        BY <2>1, <3>1 DEF GetString, IsEnvironment
      <3>3. QED
        BY <2>1, <2>3, <3>2 DEF Explained, Fallback
    <2>4. QED
      BY <1>7, <2>2, <2>3 DEF Fallback
  <1>8. QED
    BY <1>4, <1>5, <1>6, <1>7

(* One that is not: the methods one by one.                                 *)
LEMMA ValueExplained ==
  ASSUME NEW env, NEW x \in DOMAIN env, x \in AuthVars, env[x] # "",
         IsEnvironment(env)
  PROVE  Explained(env, x)
  <1> DEFINE w == Without(env, x)
             path == Str(env, "WERF_VAULT_AUTH_PATH")
             role == Str(env, "WERF_VAULT_AUTH_ROLE")
  <1>0. /\ FromEnv(env).method = EnvMethod(env) /\ FromEnv(w).method = EnvMethod(w)
        /\ EnvMethod(env) \in Variants /\ EnvMethod(w) \in Variants
    BY MethodOfEnv DEF EnvMethod, Variants
  <1>1. \A y : y # x => Str(w, y) = Str(env, y)
    BY ONLY OtherStr
  <1>2. Str(env, x) = env[x] /\ Str(w, x) = ""
    BY StrWithout DEF Str, GetString
  <1>3. /\ x \notin AppRoleVars => RoleID(w) = RoleID(env) /\ SecretID(w) = SecretID(env)
        /\ RoleID(w) # RoleID(env) => RoleID(env) = env[x] /\ SecretID(w) = SecretID(env)
        /\ SecretID(w) # SecretID(env) => SecretID(env) = env[x] /\ RoleID(w) = RoleID(env)
    BY DEF RoleID, SecretID, GetString, Without, AppRoleVars
  <1>4. Rank[EnvMethod(env)] =< Rank[EnvMethod(w)]
    <2>1. EnvMethod(w) = "AppRole" => EnvMethod(env) = "AppRole"
      BY <1>3 DEF EnvMethod
    <2>2. Audience(w) # "" => Audience(env) # ""
      BY <1>1, <1>2 DEF Audience, Str
    <2>3. JWT(w) # "" => JWT(env) # ""
      BY <1>1, <1>2 DEF JWT, Str
    <2>4. EnvMethod(w) = "OIDC" => EnvMethod(env) \in {"AppRole", "OIDC"}
      BY <2>2 DEF EnvMethod
    <2>5. EnvMethod(w) = "JWT" => EnvMethod(env) \in {"AppRole", "OIDC", "JWT"}
      BY <2>3 DEF EnvMethod
    <2>6. /\ Rank["AppRole"] = 1 /\ Rank["OIDC"] = 2
          /\ Rank["JWT"] = 3 /\ Rank["Token"] = 4
      BY DEF Rank
    <2>7. CASE EnvMethod(w) = "AppRole"
      BY ONLY <2>1, <2>6, <2>7
    <2>8. CASE EnvMethod(w) = "OIDC"
      <3>1. Rank[EnvMethod(env)] \in {1, 2}
        BY <2>4, <2>6, <2>8
      <3>2. QED
        BY ONLY <2>6, <2>8, <3>1
    <2>9. CASE EnvMethod(w) = "JWT"
      <3>1. Rank[EnvMethod(env)] \in {1, 2, 3}
        BY <2>5, <2>6, <2>9
      <3>2. QED
        BY ONLY <2>6, <2>9, <3>1
    <2>10. CASE EnvMethod(w) = "Token"
      <3>1. Rank[EnvMethod(env)] \in {1, 2, 3, 4}
        BY <1>0, <2>6 DEF Variants
      <3>2. QED
        BY ONLY <2>6, <2>10, <3>1
    <2>11. QED
      BY <1>0, <2>7, <2>8, <2>9, <2>10 DEF Variants
  <1>5. SUFFICES ASSUME FromEnv(env) # FromEnv(w)
                 PROVE  \/ env[x] \in FromEnv(env).creds \cup {FromEnv(env).path}
                        \/ ~FromEnv(env).ok
    BY <1>0, <1>4 DEF Explained
  <1>6. CASE EnvMethod(env) = "AppRole"
    <2>1. FromEnv(env) = NewAppRole(RoleID(env), SecretID(env), path)
      BY <1>6 DEF FromEnv, Str
    <2>2. /\ FromEnv(env).creds = {RoleID(env), SecretID(env)}
          /\ FromEnv(env).path = Or(path, "ar")
      BY ONLY <2>1, AppRoleHolds
    <2>3. CASE RoleID(w) = RoleID(env) /\ SecretID(w) = SecretID(env)
      <3>1. FromEnv(w) = NewAppRole(RoleID(env), SecretID(env), Str(w, "WERF_VAULT_AUTH_PATH"))
        BY <1>6, <2>3 DEF FromEnv, Str, EnvMethod
      <3>2. x = "WERF_VAULT_AUTH_PATH"
        BY <1>1, <1>5, <2>1, <3>1
      <3>3. QED
        BY <1>2, <2>2, <3>2 DEF Or
    <2>4. QED
      BY <1>3, <2>2, <2>3
  <1>7. CASE EnvMethod(env) # "AppRole"
    <2>0. /\ RoleID(w) = "" \/ SecretID(w) = ""
          /\ RoleID(env) = "" \/ SecretID(env) = ""
      BY <1>3, <1>7 DEF EnvMethod
    <2>1. Audience(env) = Str(env, "WERF_ACTIONS_AUDIENCE") /\ Audience(w) = Str(w, "WERF_ACTIONS_AUDIENCE")
      BY DEF Audience, Str
    <2>2. JWT(env) = Str(env, "WERF_VAULT_AUTH_JWT") /\ JWT(w) = Str(w, "WERF_VAULT_AUTH_JWT")
      BY DEF JWT, Str
    <2>3. CASE EnvMethod(env) = "OIDC" /\ FromEnv(env).ok
      <3>1. FromEnv(env) = NewOIDC(env, Audience(env), role, path)
        BY <2>3 DEF FromEnv, Str
      <3>2. "" \notin RequestStrings(env)
        BY <2>3, <3>1, FailedIsEmpty DEF NewOIDC
      <3>3. /\ FromEnv(env).creds = (RequestStrings(env) \cup {Audience(env)}) \cup {role}
            /\ FromEnv(env).path = Or(path, "jwt")
        <4>1. FromEnv(env)
                = NewJWT("OIDC", RequestStrings(env) \cup {Audience(env)}, role, path)
          BY <3>1, <3>2 DEF NewOIDC
        <4>2. QED
          BY ONLY <4>1, JWTHolds
      <3>4. CASE x \in RequestVars
        BY <1>2, <3>3, <3>4 DEF RequestStrings, Getenv, Str
      <3>5. CASE x = "WERF_ACTIONS_AUDIENCE"
        BY <1>2, <2>1, <3>3, <3>5
      <3>6. CASE x = "WERF_VAULT_AUTH_ROLE"
        BY <1>2, <3>3, <3>6
      <3>7. CASE x = "WERF_VAULT_AUTH_PATH"
        BY <1>2, <3>3, <3>7 DEF Or
      <3>8. CASE x \notin OIDCVars \cup SharedVars
        <4>1. /\ Audience(w) = Audience(env)
              /\ Str(w, "WERF_VAULT_AUTH_PATH") = path /\ Str(w, "WERF_VAULT_AUTH_ROLE") = role
          BY <1>1, <2>1, <3>8 DEF OIDCVars, SharedVars
        <4>2. RequestStrings(w) = RequestStrings(env)
          BY <1>1, <3>8 DEF RequestStrings, Getenv, Str, OIDCVars
        <4>3. EnvMethod(w) = "OIDC"
          BY <2>0, <2>3, <4>1 DEF EnvMethod
        <4>4. FromEnv(w) = NewOIDC(w, Audience(w), role, path)
          BY <4>1, <4>3 DEF FromEnv, Str
        <4>5. QED
          <5>1. FromEnv(w) = NewOIDC(w, Audience(env), role, path)
            BY ONLY <4>1, <4>4
          <5>2. FromEnv(w) = FromEnv(env)
            BY ONLY <5>1, <3>1, <4>2, SameProvider
          <5>3. QED
            BY ONLY <5>2, <1>5
      <3>9. QED
        BY <3>4, <3>5, <3>6, <3>7, <3>8 DEF OIDCVars, SharedVars
    <2>4. CASE EnvMethod(env) = "JWT"
      <3>1. FromEnv(env) = NewJWT("JWT", {JWT(env)}, role, path)
        BY <2>4 DEF FromEnv, Str
      <3>2. /\ FromEnv(env).creds = {JWT(env)} \cup {role}
            /\ FromEnv(env).path = Or(path, "jwt")
        BY ONLY <3>1, JWTHolds
      <3>3. CASE x \in {"WERF_VAULT_AUTH_JWT", "WERF_VAULT_AUTH_ROLE"}
        BY <1>2, <2>2, <3>2, <3>3
      <3>4. CASE x = "WERF_VAULT_AUTH_PATH"
        BY <1>2, <3>2, <3>4 DEF Or
      <3>5. CASE x \notin JWTVars \cup SharedVars
        <4>1. /\ JWT(w) = JWT(env)
              /\ Str(w, "WERF_VAULT_AUTH_PATH") = path /\ Str(w, "WERF_VAULT_AUTH_ROLE") = role
          BY <1>1, <2>2, <3>5 DEF JWTVars, SharedVars
        <4>2. Audience(w) = ""
          BY <1>1, <1>2, <2>0, <2>1, <2>4 DEF EnvMethod
        <4>3. EnvMethod(w) = "JWT"
          BY <2>0, <2>4, <4>1, <4>2 DEF EnvMethod
        <4>4. FromEnv(w) = NewJWT("JWT", {JWT(w)}, role, path)
          BY <4>1, <4>3 DEF FromEnv, Str
        <4>5. QED
          BY <1>5, <3>1, <4>1, <4>4
      <3>6. QED
        BY <3>3, <3>4, <3>5 DEF JWTVars, SharedVars
    <2>5. CASE EnvMethod(env) = "Token" /\ FromEnv(env).ok
      <3>0. Audience(w) = "" /\ JWT(w) = ""
        BY <1>1, <1>2, <2>0, <2>1, <2>2, <2>5 DEF EnvMethod
      <3>1. FromEnv(env) = NewStatic(VaultToken(env)) /\ VaultToken(env) # ""
        BY <2>5, FailedIsEmpty DEF FromEnv
      <3>2. FromEnv(env).creds = {VaultToken(env)}
        BY <3>1, StaticHolds
      <3>3. EnvMethod(w) = "Token"
        BY <2>0, <3>0 DEF EnvMethod
      <3>4. VaultToken(w) # VaultToken(env)
        BY <1>5, <2>5, <3>1, <3>3 DEF FromEnv
      <3>5. VaultToken(env) = env[x]
        <4>1. \A e : VaultToken(e) = Or(Str(e, "VAULT_TOKEN"), Str(e, "~/.vault-token"))
          BY DEF VaultToken, Getenv, Str
        <4>2. QED
          BY <1>1, <1>2, <3>4, <4>1 DEF Or
      <3>6. QED
        BY <3>2, <3>5
    <2>6. QED
      BY <1>0, <1>7, <2>3, <2>4, <2>5 DEF Variants
  <1>8. QED
    BY <1>6, <1>7

(* The step out of "new" with a Vault reference is OpenVault. *)
LEMMA ChosenOpens ==
  ASSUME [Next]_vars, Chosen
  PROVE  auth' = NewAuthenticator(req.envMode, req.auth, req.env)
  <1>1. CASE OpenVault
    BY <1>1 DEF OpenVault
  <1>2. CASE LoadKey \/ RejectKeyRef
    BY <1>2 DEF LoadKey, RejectKeyRef, Chosen
  <1>3. CASE FetchKey \/ RefetchKey \/ FailFetch \/ LoadCert \/ Reload \/ Sign
    BY <1>3 DEF FetchKey, RefetchKey, FailFetch, LoadCert, Reload, Sign, Chosen
  <1>4. CASE Verify \/ Edit \/ Rotate \/ Tick \/ UNCHANGED vars
    BY <1>4 DEF Verify, Edit, Rotate, Tick, vars, signer, Chosen
  <1>5. QED
    BY <1>1, <1>2, <1>3, <1>4 DEF Next

-----------------------------------------------------------------------------
(* The bundle of the manifest is one Sign put there. *)
BundleSigned ==
  SIGNATURE \in DOMAIN manifest.annotations =>
    \E s \in signed, d \in BOOLEAN :
      manifest.annotations[SIGNATURE]
        = <<[by |-> s.by, digest |-> d, text |-> s.text]>>

(* A verdict is about the manifest as it is. *)
VerdictSound ==
  verdict.ok => \E s \in signed : s.by = TheCert.key /\ s.text \in Payloads(manifest)

AcceptInv == BundleSigned /\ VerdictSound

LEMMA AcceptInit == Init => AcceptInv
  <1> SUFFICES ASSUME Init PROVE AcceptInv
    OBVIOUS
  <1>1. SIGNATURE \notin DOMAIN manifest.annotations
    <2>1. PICK b \in Bodies, n \in Notes : manifest = [body |-> b, annotations |-> n]
      BY DEF Init
    <2>2. DOMAIN n \cap BundleKeys = {}
      BY SignerAssumption
    <2>3. QED
      BY <2>1, <2>2 DEF BundleKeys
  <1>2. ~verdict.ok
    BY DEF Init, NoVerdict
  <1>3. QED
    BY <1>1, <1>2 DEF AcceptInv, BundleSigned, VerdictSound

(* Signing puts the new signature into the manifest and into the history.   *)
LEMMA AcceptSign ==
  ASSUME AcceptInv, Sign PROVE AcceptInv'
  <1>0. ~verdict'.ok
    BY DEF Sign, NoVerdict
  <1>1. PICK text \in Payloads(manifest) :
          LET signature == <<[by |-> SigningKey, digest |-> Digests, text |-> text]>>
              bundle == [signature |-> signature, cert |-> sv.cert, chain |-> sv.chain]
          IN /\ signed' = signed \cup {[by |-> SigningKey, text |-> text]}
             /\ IF sv.cert = <<>>
                THEN UNCHANGED image
                ELSE /\ manifest' = [body |-> manifest.body, annotations |->
                          [k \in DOMAIN manifest.annotations \cup BundleKeys |->
                             IF k \in BundleKeys THEN ToMap(bundle)[k]
                                                 ELSE manifest.annotations[k]]]
                     /\ fresh' = TRUE
                     /\ signedAt' = now
    BY DEF Sign
  <1> DEFINE new == [by |-> SigningKey, text |-> text]
             signature == <<[by |-> SigningKey, digest |-> Digests, text |-> text]>>
             bundle == [signature |-> signature, cert |-> sv.cert, chain |-> sv.chain]
             notes == [k \in DOMAIN manifest.annotations \cup BundleKeys |->
                         IF k \in BundleKeys THEN ToMap(bundle)[k]
                                             ELSE manifest.annotations[k]]
  <1>2. signed \subseteq signed' /\ new \in signed'
    BY <1>1
  <1>3. BundleSigned'
    <2>1. CASE sv.cert = <<>>
      <3>1. manifest' = manifest
        BY <1>1, <2>1 DEF image
      <3>2. QED
        BY <1>2, <3>1 DEF AcceptInv, BundleSigned
    <2>2. CASE sv.cert # <<>>
      <3>1. manifest' = [body |-> manifest.body, annotations |-> notes]
        BY <1>1, <2>2
      <3>2. SIGNATURE \in BundleKeys
        BY DEF BundleKeys
      <3>3. ToMap(bundle)[SIGNATURE] = signature
        BY <3>2 DEF ToMap
      <3>4. notes[SIGNATURE] = signature
        BY <3>2, <3>3
      <3>5. SIGNATURE \in DOMAIN manifest'.annotations
              => manifest'.annotations[SIGNATURE] = signature
        BY <3>1, <3>4
      <3>6. Digests \in BOOLEAN
        BY DEF Digests
      <3>7. QED
        BY <1>2, <3>5, <3>6 DEF BundleSigned
    <2>3. QED
      BY <2>1, <2>2
  <1>4. QED
    BY <1>0, <1>3 DEF AcceptInv, VerdictSound

(* Editing keeps a bundle as it is: notes have other keys.                  *)
LEMMA AcceptEdit ==
  ASSUME AcceptInv, Edit PROVE AcceptInv'
  <1>0. ~verdict'.ok /\ signed' = signed
    BY DEF Edit, NoVerdict
  <1>1. PICK b \in Bodies, n \in Notes :
          manifest' = [body |-> b, annotations |->
            [k \in DOMAIN n \cup (DOMAIN manifest.annotations \cap BundleKeys) |->
               IF k \in DOMAIN n THEN n[k] ELSE manifest.annotations[k]]]
    BY DEF Edit
  <1>2. SIGNATURE \notin DOMAIN n
    BY SignerAssumption DEF BundleKeys
  <1>3. SIGNATURE \in DOMAIN manifest'.annotations
          => /\ SIGNATURE \in DOMAIN manifest.annotations
             /\ manifest'.annotations[SIGNATURE] = manifest.annotations[SIGNATURE]
    BY <1>1, <1>2
  <1>4. QED
    BY <1>0, <1>3 DEF AcceptInv, BundleSigned, VerdictSound

(* A verdict of "ok" has the attached signature over the payload.           *)
LEMMA AcceptVerify ==
  ASSUME AcceptInv, Verify PROVE AcceptInv'
  <1>1. PICK roots \in RootLists, text \in Payloads(manifest) :
          verdict' = [roots |-> roots,
                      ok |-> VerifyManifest(manifest, ed25519, text, roots, now)]
    BY DEF Verify
  <1>2. UNCHANGED <<manifest, signed>>
    BY DEF Verify, image
  <1>3. ASSUME verdict'.ok
        PROVE  \E s \in signed : s.by = TheCert.key /\ s.text \in Payloads(manifest)
    <2>1. VerifyManifest(manifest, ed25519, text, roots, now)
      BY <1>1, <1>3
    <2>2. /\ MapError(manifest.annotations) = ""
          /\ VerifyBundle(TheBundle, ed25519, text, roots, now)
      BY <2>1 DEF VerifyManifest, TheBundle
    <2>3. SIGNATURE \in DOMAIN manifest.annotations
      BY <2>2 DEF MapError, ErrNoSignature
    <2>4. VerifySignature(TheBundle.signature, TheCert.key, ed25519, text)
      BY <2>2 DEF VerifyBundle, TheCert
    <2>5. TheBundle.signature = manifest.annotations[SIGNATURE]
      BY DEF TheBundle, NewBundleFromMap
    <2>6. manifest.annotations[SIGNATURE]
            = <<[by |-> TheCert.key, digest |-> ~ed25519, text |-> text]>>
      BY <2>4, <2>5 DEF VerifySignature
    <2>7. PICK s \in signed, d \in BOOLEAN :
            manifest.annotations[SIGNATURE]
              = <<[by |-> s.by, digest |-> d, text |-> s.text]>>
      BY <2>3 DEF AcceptInv, BundleSigned
    <2>8. [by |-> TheCert.key, digest |-> ~ed25519, text |-> text]
            = [by |-> s.by, digest |-> d, text |-> s.text]
      BY <2>6, <2>7
    <2>9. s.by = TheCert.key /\ s.text = text
      BY <2>8
    <2>10. QED
      BY <2>9
  <1>4. QED
    BY <1>2, <1>3 DEF AcceptInv, BundleSigned, VerdictSound, TheCert, TheBundle

LEMMA AcceptNext == AcceptInv /\ [Next]_vars => AcceptInv'
  <1> SUFFICES ASSUME AcceptInv, [Next]_vars PROVE AcceptInv'
    OBVIOUS
  <1>1. ASSUME UNCHANGED <<manifest, signed>>, ~verdict'.ok PROVE AcceptInv'
    BY <1>1 DEF AcceptInv, BundleSigned, VerdictSound
  <1>2. ~NoVerdict.ok
    BY DEF NoVerdict
  <1>3. CASE OpenVault \/ LoadKey \/ RejectKeyRef
    BY <1>1, <1>2, <1>3 DEF OpenVault, LoadKey, RejectKeyRef, image
  <1>4. CASE FetchKey \/ RefetchKey \/ FailFetch \/ LoadCert \/ Reload
    BY <1>1, <1>2, <1>4 DEF FetchKey, RefetchKey, FailFetch, LoadCert, Reload, image
  <1>5. CASE Rotate \/ Tick
    BY <1>1, <1>2, <1>5 DEF Rotate, Tick, image
  <1>6. CASE UNCHANGED vars
    BY <1>6 DEF vars, image, AcceptInv, BundleSigned, VerdictSound, TheCert, TheBundle
  <1>7. QED
    BY <1>3, <1>4, <1>5, <1>6, AcceptSign, AcceptEdit, AcceptVerify DEF Next

(* A manifest that is accepted carries a signature that was made over just  *)
(* this payload with the key of the certificate (bundle.go:107-125,          *)
(* manifest.go:37-53).                                                      *)
THEOREM AcceptedTheorem == Spec => []AcceptedWasSigned
  <1>1. AcceptInv => AcceptedWasSigned
    BY DEF AcceptInv, VerdictSound, AcceptedWasSigned
  <1>2. QED
    BY <1>1, AcceptInit, AcceptNext, PTL DEF Spec

-----------------------------------------------------------------------------
LEMMA SigningKeyType == TypeOK => SigningKey \in Keys /\ SigningKey # 0
  BY SignerAssumption DEF TypeOK, SigningKey, Keys, Versions

LEMMA TypeInit == Init => TypeOK
  <1> SUFFICES ASSUME Init PROVE TypeOK
    OBVIOUS
  <1>1. /\ now = 0 /\ signedAt = 0 /\ latest = 1 /\ fresh = FALSE
        /\ pc = "new" /\ source = "none" /\ pk = 0 /\ signed = {}
        /\ req \in Requests /\ ed25519 \in BOOLEAN
    BY DEF Init
  <1>2. sv = NoCert /\ sv.cert = <<>> /\ sv.chain = <<>>
    BY DEF Init, NoCert
  <1>3. verdict.roots = <<>> /\ verdict.ok = FALSE
    BY DEF Init, NoVerdict
  <1>4. now \in 0 .. MaxTime /\ signedAt \in 0 .. now /\ latest \in Versions
    BY <1>1, SignerAssumption DEF Versions
  <1>5. sv.cert \in CertRefs /\ sv.chain \in ChainRefs /\ Unreadable \notin {sv.cert, sv.chain}
    BY <1>2, SignerAssumption, EmptyReadable
  <1>6. QED
    BY <1>1, <1>2, <1>3, <1>4, <1>5 DEF TypeOK

(* Opening the key. *)
LEMMA TypeOpen ==
  ASSUME TypeOK, OpenVault \/ LoadKey \/ RejectKeyRef PROVE TypeOK'
  <1>1. /\ UNCHANGED <<now, latest, ed25519, pk, sv, image, signed>>
        /\ pc = "new" /\ pk = 0 /\ sv = NoCert
        /\ req' = NoRequest /\ verdict' = NoVerdict
        /\ pc' \in {"key", "failed"} /\ source' \in {"none", "vault", "file"}
        /\ pc' = "key" => source' # "none"
    BY DEF TypeOK, OpenVault, LoadKey, RejectKeyRef
  <1>2. verdict'.roots = <<>> /\ verdict'.ok = FALSE
    BY <1>1 DEF NoVerdict
  <1>3. QED
    BY <1>1, <1>2 DEF TypeOK, Opened, image

(* Fetching it, or failing to, and loading anew. *)
LEMMA TypeFetch ==
  ASSUME TypeOK, FetchKey \/ RefetchKey \/ FailFetch \/ Reload PROVE TypeOK'
  <1>1. /\ UNCHANGED <<now, latest, ed25519, req, source, image, signed>>
        /\ pc # "new" /\ pc' # "new" /\ Opened /\ verdict' = NoVerdict
        /\ pc' \in {"key", "cert", "failed"}
    BY DEF TypeOK, FetchKey, RefetchKey, FailFetch, Reload, Opened
  <1>2. verdict'.roots = <<>> /\ verdict'.ok = FALSE
    BY <1>1 DEF NoVerdict
  <1>3. sv' = NoCert /\ sv'.cert = <<>> /\ sv'.chain = <<>>
    BY DEF TypeOK, FetchKey, RefetchKey, FailFetch, Reload, NoCert
  <1>4. pk' \in Keys \cup {0} /\ (pk' # 0 <=> pc' = "cert")
    BY SigningKeyType DEF TypeOK, FetchKey, RefetchKey, FailFetch, Reload
  <1>5. QED
    BY <1>1, <1>2, <1>3, <1>4, SignerAssumption, EmptyReadable
       DEF TypeOK, Opened, image

(* Checking the certificate and the chain. *)
LEMMA TypeLoadCert ==
  ASSUME TypeOK, LoadCert PROVE TypeOK'
  <1>1. /\ UNCHANGED <<now, latest, ed25519, req, source, image, signed>>
        /\ pc = "cert" /\ pk' = 0 /\ verdict' = NoVerdict
    BY DEF LoadCert
  <1>2. verdict'.roots = <<>> /\ verdict'.ok = FALSE
    BY <1>1 DEF NoVerdict
  <1>3. sv = NoCert /\ Opened
    BY <1>1 DEF TypeOK
  <1>4. PICK cert \in CertRefs, chain \in ChainRefs :
          IF Loads(cert, chain)
          THEN pc' = "ready" /\ sv' = [cert |-> cert, chain |-> chain]
          ELSE pc' = "failed" /\ UNCHANGED sv
    BY DEF LoadCert
  <1>5. CASE Loads(cert, chain)
    <2>1. cert # Unreadable /\ chain # Unreadable /\ (chain # <<>> => cert # <<>>)
      BY <1>5, EmptyReadable DEF Loads, VerifyCert, VerifyChain
    <2>2. pc' = "ready" /\ sv'.cert = cert /\ sv'.chain = chain
      BY <1>4, <1>5
    <2>3. QED
      BY <1>1, <1>2, <1>3, <2>1, <2>2 DEF TypeOK, Opened, image
  <1>6. CASE ~Loads(cert, chain)
    BY <1>1, <1>2, <1>3, <1>4, <1>6 DEF TypeOK, Opened, image
  <1>7. QED
    BY <1>5, <1>6

(* What happens to the manifest, the clock and the key. *)
LEMMA TypeRest ==
  ASSUME TypeOK, Sign \/ Verify \/ Edit \/ Rotate \/ Tick PROVE TypeOK'
  <1>0. UNCHANGED <<ed25519, req, signer>>
    BY DEF Sign, Verify, Edit, Rotate, Tick
  <1>1. NoVerdict.roots = <<>> /\ NoVerdict.ok = FALSE
    BY DEF NoVerdict
  <1>2. CASE Sign
    <2>1. UNCHANGED <<now, latest>> /\ verdict' = NoVerdict
      BY <1>2 DEF Sign
    <2>2. signedAt' \in {signedAt, now} /\ fresh' \in {fresh, TRUE}
      BY <1>2 DEF Sign, image
    <2>3. PICK text \in Payloads(manifest) :
            signed' = signed \cup {[by |-> SigningKey, text |-> text]}
      BY <1>2 DEF Sign
    <2>4. \A s \in signed' : s.by \in Keys
      BY <2>3, SigningKeyType DEF TypeOK
    <2>5. signedAt' \in 0 .. now /\ fresh' \in BOOLEAN
      <3>1. signedAt \in 0 .. now /\ now \in 0 .. MaxTime /\ fresh \in BOOLEAN
        BY DEF TypeOK
      <3>2. now \in 0 .. now
        BY <3>1, SignerAssumption
      <3>3. QED
        BY <2>2, <3>1, <3>2
    <2>6. QED
      BY <1>0, <1>1, <2>1, <2>4, <2>5 DEF TypeOK, signer, Opened
  <1>3. CASE Verify
    <2>1. PICK roots \in RootLists, text \in Payloads(manifest) :
            verdict' = [roots |-> roots,
                        ok |-> VerifyManifest(manifest, ed25519, text, roots, now)]
      BY <1>3 DEF Verify
    <2>2. VerifyManifest(manifest, ed25519, text, roots, now) \in BOOLEAN
      BY DEF VerifyManifest
    <2>3. verdict'.roots \in RootLists /\ verdict'.ok \in BOOLEAN
      BY <2>1, <2>2
    <2>4. QED
      BY <1>0, <1>3, <2>3 DEF Verify, TypeOK, signer, image, Opened
  <1>4. CASE Edit
    <2>1. fresh' \in BOOLEAN
      BY <1>4 DEF Edit, TypeOK
    <2>2. QED
      BY <1>0, <1>1, <1>4, <2>1 DEF Edit, TypeOK, signer, Opened
  <1>5. CASE Rotate
    <2>1. latest' \in Versions
      BY <1>5, SignerAssumption DEF Rotate, TypeOK, Versions
    <2>2. UNCHANGED <<now, image, signed>> /\ verdict' = NoVerdict
      BY <1>5 DEF Rotate
    <2>3. QED
      BY <1>0, <1>1, <2>1, <2>2 DEF TypeOK, signer, image, Opened
  <1>6. CASE Tick
    <2>1. UNCHANGED <<latest, image, signed>> /\ verdict' = NoVerdict
      BY <1>6 DEF Tick
    <2>2. now' \in 0 .. MaxTime /\ signedAt' \in 0 .. now'
      <3>1. signedAt' = signedAt
        BY <2>1 DEF image
      <3>2. QED
        BY <1>6, <3>1, SignerAssumption DEF Tick, TypeOK
    <2>3. QED
      BY <1>0, <1>1, <2>1, <2>2 DEF TypeOK, signer, image, Opened
  <1>7. QED
    BY <1>2, <1>3, <1>4, <1>5, <1>6

LEMMA TypeNext == TypeOK /\ [Next]_vars => TypeOK'
  <1> SUFFICES ASSUME TypeOK, [Next]_vars PROVE TypeOK'
    OBVIOUS
  <1>1. CASE UNCHANGED vars
    BY <1>1 DEF vars, signer, image, TypeOK, Opened
  <1>2. QED
    BY <1>1, TypeOpen, TypeFetch, TypeLoadCert, TypeRest DEF Next

(* Types, and the state the steps of the constructor leave.                 *)
THEOREM TypeCorrect == Spec => []TypeOK
  BY TypeInit, TypeNext, PTL DEF Spec

-----------------------------------------------------------------------------
(* What a signer is loaded with has an environment. *)
LEMMA ChosenEnvironment ==
  ASSUME TypeOK, Chosen PROVE IsEnvironment(req.env)
  BY SignerAssumption DEF TypeOK, Chosen

(* Opts-mode: the identity is the options' alone, in every environment and  *)
(* for any options, ambiguous and incomplete ones included                  *)
(* (auth_factory.go:47-113).                                                *)
THEOREM OptionsTheorem == Spec => OptsIgnoreEnv
  <1>1. ASSUME TypeOK, [Next]_vars, Chosen, ~req.envMode
        PROVE  /\ auth'.creds \cap (AuthVars \ RequestVars) = {}
               /\ auth'.path \notin AuthVars
               /\ ~Valid(req.auth) => ~auth'.ok
    <2>1. auth' = FromOpts(req.auth, req.env)
      BY <1>1, ChosenOpens DEF NewAuthenticator
    <2>2. QED
      BY <1>1, <2>1, ChosenEnvironment, OptsAlone
  <1>2. QED
    BY <1>1, TypeCorrect, PTL DEF Spec, OptsIgnoreEnv

(* Env-mode: a variable in the environment makes no difference, or the      *)
(* signer acts on it by a method no further down, or it is empty and masks  *)
(* its fallback; in every environment (auth_factory.go:14-46,               *)
(* config_auth.go:7-13).                                                    *)
THEOREM PriorityTheorem == Spec => EnvPriority
  <1>1. ASSUME TypeOK, [Next]_vars, Chosen, req.envMode, NEW x \in DOMAIN req.env
        PROVE  LET without == FromEnv(Without(req.env, x))
                   value == req.env[x]
               IN \/ auth' = without
                  \/ /\ value # ""
                     /\ Rank[auth'.method] =< Rank[without.method]
                     /\ value \in auth'.creds \cup {auth'.path} \/ ~auth'.ok
                  \/ /\ value = ""
                     /\ x \in DOMAIN Fallback
                     /\ Fallback[x] \in without.creds
    <2>1. auth' = FromEnv(req.env)
      BY <1>1, ChosenOpens DEF NewAuthenticator
    <2>2. Explained(req.env, x)
      BY <1>1, ChosenEnvironment, OthersExplained, EmptyExplained, ValueExplained
    <2>3. QED
      BY <2>1, <2>2 DEF Explained
  <1>2. TypeOK /\ [Next]_vars =>
          [(Chosen /\ req.envMode) =>
             \A x \in DOMAIN req.env :
               LET without == FromEnv(Without(req.env, x))
                   value == req.env[x]
               IN \/ auth' = without
                  \/ /\ value # ""
                     /\ Rank[auth'.method] =< Rank[without.method]
                     /\ value \in auth'.creds \cup {auth'.path} \/ ~auth'.ok
                  \/ /\ value = ""
                     /\ x \in DOMAIN Fallback
                     /\ Fallback[x] \in without.creds]_vars
    BY <1>1
  <1>3. QED
    BY <1>2, TypeCorrect, PTL DEF Spec, EnvPriority

-----------------------------------------------------------------------------
(* The key fetched last, the certificate of a loaded signer, and the bundle *)
(* of the manifest: each is behind, at most.                                *)
FetchedBehind == pc = "cert" => Behindness(pk, SigningKey)
LoadedBehind  == (pc = "ready" /\ sv.cert # <<>>) =>
                   /\ sv.cert[1].key \in Keys
                   /\ Behindness(sv.cert[1].key, SigningKey)
BundleBehind ==
  LET notes == manifest.annotations
  IN {SIGNATURE, CERT} \subseteq DOMAIN notes
       => Behindness(notes[CERT][1].key, notes[SIGNATURE][1].by)
RotationInv == TypeOK /\ FetchedBehind /\ LoadedBehind /\ BundleBehind

(* What is behind stays behind when the key is rotated.                     *)
LEMMA BehindStays ==
  ASSUME TypeOK, source' = source, latest' \in {latest, latest + 1},
         NEW key \in Keys, Behindness(key, SigningKey)
  PROVE  Behindness(key, SigningKey')
  <1>1. latest \in Nat /\ key \in Nat \cup {FileKey} /\ FileKey \notin Nat
    BY SignerAssumption DEF TypeOK, Versions, Keys
  <1>2. CASE source = "file"
    BY <1>2 DEF SigningKey
  <1>3. CASE source # "file"
    <2>1. SigningKey = latest /\ SigningKey' = latest'
      BY <1>3 DEF SigningKey
    <2>2. key \in Nat /\ key =< latest
      BY <1>1, <2>1 DEF Behindness
    <2>3. latest' \in Nat /\ key =< latest'
      BY <1>1, <2>2
    <2>4. QED
      BY <1>1, <2>1, <2>2, <2>3 DEF Behindness
  <1>4. QED
    BY <1>2, <1>3

LEMMA BehindItself == TypeOK => Behindness(SigningKey, SigningKey)
  <1> SUFFICES ASSUME TypeOK PROVE Behindness(SigningKey, SigningKey)
    OBVIOUS
  <1>1. SigningKey \in Nat \cup {FileKey}
    BY SigningKeyType, SignerAssumption DEF Keys, Versions
  <1>2. QED
    BY <1>1 DEF Behindness

(* Steps that leave the bundle, the signer's certificate and the key alone. *)
LEMMA RotationStutter ==
  ASSUME RotationInv, TypeOK', UNCHANGED <<pc, source, pk, sv>>,
         latest' \in {latest, latest + 1}, BundleBehind'
  PROVE  RotationInv'
  <1>1. FetchedBehind'
    BY BehindStays, SignerAssumption DEF RotationInv, FetchedBehind, TypeOK
  <1>2. LoadedBehind'
    BY BehindStays DEF RotationInv, LoadedBehind
  <1>3. QED
    BY <1>1, <1>2 DEF RotationInv

LEMMA RotationNext == RotationInv /\ [Next]_vars => RotationInv'
  <1> SUFFICES ASSUME RotationInv, [Next]_vars PROVE RotationInv'
    OBVIOUS
  <1>0. TypeOK /\ TypeOK'
    BY TypeNext DEF RotationInv
  <1>1. ASSUME manifest' = manifest PROVE BundleBehind'
    BY <1>1 DEF RotationInv, BundleBehind
  <1>2. latest \in {latest, latest + 1}
    OBVIOUS
  <1>3. CASE OpenVault \/ LoadKey \/ RejectKeyRef \/ FailFetch \/ Reload
    <2>1. manifest' = manifest /\ pc' \in {"key", "failed"}
      BY <1>3 DEF OpenVault, LoadKey, RejectKeyRef, FailFetch, Reload, image
    <2>2. QED
      BY <1>0, <1>1, <2>1 DEF RotationInv, FetchedBehind, LoadedBehind
  <1>4. CASE FetchKey \/ RefetchKey
    <2>1. /\ manifest' = manifest /\ pc' = "cert" /\ pk' = SigningKey
          /\ latest' = latest /\ source' = source
      BY <1>4 DEF FetchKey, RefetchKey, image
    <2>2. SigningKey' = SigningKey
      BY <2>1 DEF SigningKey
    <2>3. QED
      BY <1>0, <1>1, <2>1, <2>2, BehindItself DEF RotationInv, FetchedBehind, LoadedBehind
  <1>5. CASE LoadCert
    <2>1. manifest' = manifest /\ latest' = latest /\ source' = source /\ pc = "cert"
      BY <1>5 DEF LoadCert, image
    <2>2. SigningKey' = SigningKey
      BY <2>1 DEF SigningKey
    <2>3. Behindness(pk, SigningKey) /\ pk \in Keys
      BY <2>1 DEF RotationInv, FetchedBehind, TypeOK
    <2>4. PICK cert \in CertRefs, chain \in ChainRefs :
            IF Loads(cert, chain)
            THEN pc' = "ready" /\ sv' = [cert |-> cert, chain |-> chain]
            ELSE pc' = "failed" /\ UNCHANGED sv
      BY <1>5 DEF LoadCert
    <2>5. CASE Loads(cert, chain)
      <3>1. pc' = "ready" /\ sv'.cert = cert /\ (cert # <<>> => cert[1].key = pk)
        BY <2>4, <2>5 DEF Loads, VerifyCert
      <3>2. QED
        BY <1>0, <1>1, <2>1, <2>2, <2>3, <3>1 DEF RotationInv, FetchedBehind, LoadedBehind
    <2>6. CASE ~Loads(cert, chain)
      BY <1>0, <1>1, <2>1, <2>4, <2>6 DEF RotationInv, FetchedBehind, LoadedBehind
    <2>7. QED
      BY <2>5, <2>6
  <1>6. CASE Sign
    <2>1. UNCHANGED <<pc, source, pk, sv, latest>> /\ pc = "ready"
      BY <1>6 DEF Sign, signer
    <2>2. CASE sv.cert = <<>>
      <3>1. manifest' = manifest
        BY <1>6, <2>2 DEF Sign, image
      <3>2. QED
        BY <1>0, <1>1, <1>2, <2>1, <3>1, RotationStutter
    <2>3. CASE sv.cert # <<>>
      <3>1. PICK text \in Payloads(manifest) :
              LET signature == <<[by |-> SigningKey, digest |-> Digests, text |-> text]>>
                  bundle == [signature |-> signature, cert |-> sv.cert, chain |-> sv.chain]
              IN manifest' = [body |-> manifest.body, annotations |->
                   [k \in DOMAIN manifest.annotations \cup BundleKeys |->
                      IF k \in BundleKeys THEN ToMap(bundle)[k]
                                          ELSE manifest.annotations[k]]]
        BY <1>6, <2>3 DEF Sign
      <3> DEFINE signature == <<[by |-> SigningKey, digest |-> Digests, text |-> text]>>
                 bundle == [signature |-> signature, cert |-> sv.cert, chain |-> sv.chain]
      <3>2. SIGNATURE \in BundleKeys /\ CERT \in BundleKeys
        BY DEF BundleKeys
      <3>3. ToMap(bundle)[SIGNATURE] = signature /\ ToMap(bundle)[CERT] = sv.cert
        BY <3>2, KeysDiffer DEF ToMap
      <3>4. /\ manifest'.annotations[SIGNATURE] = signature
            /\ manifest'.annotations[CERT] = sv.cert
        BY <3>1, <3>2, <3>3
      <3>5. BundleBehind'
        BY <2>1, <2>3, <3>4 DEF RotationInv, LoadedBehind, BundleBehind
      <3>6. QED
        BY <1>0, <1>2, <2>1, <3>5, RotationStutter
    <2>4. QED
      BY <2>2, <2>3
  <1>7. CASE Edit
    <2>1. UNCHANGED <<pc, source, pk, sv, latest>>
      BY <1>7 DEF Edit, signer
    <2>2. PICK b \in Bodies, n \in Notes :
            manifest' = [body |-> b, annotations |->
              [k \in DOMAIN n \cup (DOMAIN manifest.annotations \cap BundleKeys) |->
                 IF k \in DOMAIN n THEN n[k] ELSE manifest.annotations[k]]]
      BY <1>7 DEF Edit
    <2>3. SIGNATURE \notin DOMAIN n /\ CERT \notin DOMAIN n
      BY SignerAssumption DEF BundleKeys
    <2>4. \A k \in {SIGNATURE, CERT} : k \in DOMAIN manifest'.annotations
            => /\ k \in DOMAIN manifest.annotations
               /\ manifest'.annotations[k] = manifest.annotations[k]
      BY <2>2, <2>3
    <2>5. BundleBehind'
      BY <2>4 DEF RotationInv, BundleBehind
    <2>6. QED
      BY <1>0, <1>2, <2>1, <2>5, RotationStutter
  <1>8. CASE Verify \/ Rotate \/ Tick \/ UNCHANGED vars
    <2>1. /\ UNCHANGED <<pc, source, pk, sv, manifest>>
          /\ latest' \in {latest, latest + 1}
      BY <1>8 DEF Verify, Rotate, Tick, vars, signer, image
    <2>2. QED
      BY <1>0, <1>1, <2>1, RotationStutter
  <1>9. QED
    BY <1>3, <1>4, <1>5, <1>6, <1>7, <1>8 DEF Next

LEMMA RotationInit == Init => RotationInv
  <1> SUFFICES ASSUME Init PROVE RotationInv
    OBVIOUS
  <1>1. SIGNATURE \notin DOMAIN manifest.annotations
    <2>1. PICK b \in Bodies, n \in Notes : manifest = [body |-> b, annotations |-> n]
      BY DEF Init
    <2>2. DOMAIN n \cap BundleKeys = {}
      BY SignerAssumption
    <2>3. QED
      BY <2>1, <2>2 DEF BundleKeys
  <1>2. pc = "new"
    BY DEF Init
  <1>3. QED
    BY <1>1, <1>2, TypeInit DEF RotationInv, FetchedBehind, LoadedBehind, BundleBehind

(* However the key is rotated between fetching, checking and signing: a     *)
(* certificate is behind its signature, at most (signerverifier.go:55-58).  *)
THEOREM RotationTheorem == Spec => []RotationOnlyOutdates
  <1>1. RotationInv => RotationOnlyOutdates
    <2> SUFFICES ASSUME RotationInv PROVE RotationOnlyOutdates
      OBVIOUS
    <2>1. HasBundle => {SIGNATURE, CERT} \subseteq DOMAIN manifest.annotations
      BY DEF HasBundle, MapError, ErrNoSignature, ErrNoCert
    <2>2. /\ TheCert = manifest.annotations[CERT][1]
          /\ TheSignature = manifest.annotations[SIGNATURE][1]
      BY DEF TheCert, TheSignature, TheBundle, NewBundleFromMap
    <2>3. QED
      BY <2>1, <2>2 DEF RotationInv, LoadedBehind, BundleBehind, RotationOnlyOutdates
  <1>2. QED
    BY <1>1, RotationInit, RotationNext, PTL DEF Spec
=============================================================================

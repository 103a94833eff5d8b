----------------------------- MODULE MuxProofs -----------------------------
(***************************************************************************)
(* Proofs about Mux for every configuration, every set of credentials and  *)
(* any number of sessions and attempts.                                    *)
(***************************************************************************)
EXTENDS Mux, SequenceTheorems, WellFoundedInduction, TLAPS

-----------------------------------------------------------------------------
(* The configuration *)

\* A non-empty set of naturals has a least element.
LEMMA LeastElement ==
    ASSUME NEW T, T \subseteq Nat, T # {}
    PROVE  \E x \in T : \A y \in T : x <= y
<1> DEFINE R == OpToRel(<, Nat)
<1>1. \E x \in T : \A y \in T : ~(<<y, x>> \in R)
  BY NatLessThanWellFounded, WFMin
<1>2. PICK x \in T : \A y \in T : ~(<<y, x>> \in R)
  BY <1>1
<1>3. \A y \in T : x <= y
  <2>1. SUFFICES ASSUME NEW y \in T PROVE x <= y
    OBVIOUS
  <2>2. ~(y < x)
    BY <1>2 DEF OpToRel
  <2>3. QED
    BY <2>2
<1>4. QED
  BY <1>3

\* findRouteIndex returns the first matching route whenever one matches.
LEMMA FindRouteIndex ==
    ASSUME NEW c, c.Routes \in Seq(RouteEntry), NEW u,
           NEW k \in DOMAIN c.Routes, Match(c.Routes[k].Username, u)
    PROVE  LET i == findRouteIndex(c, u) IN
           /\ i \in DOMAIN c.Routes /\ i # 0
           /\ Match(c.Routes[i].Username, u)
           /\ \A j \in DOMAIN c.Routes : Match(c.Routes[j].Username, u) => i <= j
<1> DEFINE found == {i \in DOMAIN c.Routes : matchesRouteSession(c.Routes[i], u)}
<1>1. k \in found
  BY DEF matchesRouteSession
<1>2. found \subseteq Nat /\ 0 \notin found
  OBVIOUS
<1>3. \E x \in found : \A y \in found : x <= y
  BY <1>1, <1>2, LeastElement
<1>4. findRouteIndex(c, u) = CHOOSE i \in found : \A j \in found : i <= j
  BY <1>1 DEF findRouteIndex
<1>5. findRouteIndex(c, u) \in found /\ \A j \in found : findRouteIndex(c, u) <= j
  BY <1>3, <1>4
<1>6. QED
  BY <1>2, <1>5 DEF matchesRouteSession

\* Parsing yields a well-formed configuration.
LEMMA UnmarshalType ==
    ASSUME NEW raw \in RawConfigType
    PROVE  Unmarshal(raw) \in ConfigType
<1>1. ASSUME NEW r \in RawKey PROVE ParseSSHKey(r) \in SSHKey
  BY <1>1 DEF RawKey, ParseSSHKey, SSHKey
<1>2. ASSUME NEW p \in SUBSET Part PROVE ParsePattern(p) \in Pattern
  BY <1>2 DEF ParsePattern, Pattern
<1>3. ASSUME NEW a \in RawAuth PROVE [a EXCEPT !.Key = ParseSSHKey(@)] \in AuthEntry
  <2>1. ParseSSHKey(a.Key) \in SSHKey
    BY <1>1 DEF RawAuth
  <2>2. QED
    BY <2>1 DEF RawAuth, AuthEntry
<1>4. ASSUME NEW r \in RawRoute
      PROVE  [r EXCEPT !.Username = ParsePattern(@), !.ProxyKey = ParseSSHKey(@)] \in RouteEntry
  <2>1. ParseSSHKey(r.ProxyKey) \in SSHKey /\ ParsePattern(r.Username) \in Pattern
    BY <1>1, <1>2 DEF RawRoute
  <2>2. QED
    BY <2>1 DEF RawRoute, RouteEntry
<1>5. raw.Auth \in Seq(RawAuth) /\ raw.Routes \in Seq(RawRoute)
  BY DEF RawConfigType
<1>6. [i \in DOMAIN raw.Auth |-> [raw.Auth[i] EXCEPT !.Key = ParseSSHKey(@)]] \in Seq(AuthEntry)
  <2>1. \A i \in 1 .. Len(raw.Auth) : raw.Auth[i] \in RawAuth
    BY <1>5
  <2>2. DOMAIN raw.Auth = 1 .. Len(raw.Auth) /\ Len(raw.Auth) \in Nat
    BY <1>5
  <2>3. QED
    BY <1>3, <2>1, <2>2
<1>7. [i \in DOMAIN raw.Routes |-> [raw.Routes[i] EXCEPT !.Username = ParsePattern(@),
                                                        !.ProxyKey = ParseSSHKey(@)]]
         \in Seq(RouteEntry)
  <2>1. \A i \in 1 .. Len(raw.Routes) : raw.Routes[i] \in RawRoute
    BY <1>5
  <2>2. DOMAIN raw.Routes = 1 .. Len(raw.Routes) /\ Len(raw.Routes) \in Nat
    BY <1>5
  <2> DEFINE parsed(i) == [raw.Routes[i] EXCEPT !.Username = ParsePattern(@),
                                                !.ProxyKey = ParseSSHKey(@)]
  <2>3. \A i \in 1 .. Len(raw.Routes) : parsed(i) \in RouteEntry
    BY <1>4, <2>1
  <2> HIDE DEF parsed
  <2>4. [i \in DOMAIN raw.Routes |-> parsed(i)] \in Seq(RouteEntry)
    BY <2>2, <2>3
  <2>5. QED
    BY <2>4 DEF parsed
<1>8. QED
  BY <1>6, <1>7 DEF Unmarshal, ConfigType

\* The roles of a credential are role strings of the file.
LEMMA RolesType ==
    ASSUME NEW c \in ConfigType
    PROVE  /\ \A k : publicKeyRoles(c, k) \subseteq RoleString
           /\ \A p : passwordRoles(c, p) \subseteq RoleString
<1>1. \A i \in DOMAIN c.Auth : c.Auth[i].Role \subseteq RoleString
  <2>1. c.Auth \in Seq(AuthEntry)
    BY DEF ConfigType
  <2>2. \A i \in 1 .. Len(c.Auth) : c.Auth[i] \in AuthEntry
    BY <2>1
  <2>3. DOMAIN c.Auth = 1 .. Len(c.Auth)
    BY <2>1
  <2>4. QED
    BY <2>2, <2>3 DEF AuthEntry
<1>2. QED
  BY <1>1 DEF publicKeyRoles, passwordRoles, RolesOf

-----------------------------------------------------------------------------
(* Sessions of an authenticated user *)

\* A password role is the role of an entry with a password.
LEMMA PasswordRolesOffered ==
    ASSUME NEW c, NEW p
    PROVE  passwordRoles(c, p) \subseteq passwordAuthRoles(c)
BY DEF passwordRoles, passwordAuthRoles, RolesOf

\* For a user with a route, under a validated configuration, MuxMiddleware
\* calls a handler or denies, by the role of the first matching route.
LEMMA Disposition ==
    ASSUME TypeOK, validate(cfg), providers = CloudRoutes(cfg),
           usernameMatchingRoutes(cfg, user) # {}
    PROVE  LET i == findRouteIndex(cfg, user) IN
           /\ findRoute(cfg, user)
           /\ i \in DOMAIN cfg.Routes /\ FirstRoute(i)
           /\ MuxMiddleware \in Served \cup {"denied"}
           /\ MuxMiddleware \in Served <=> routeRoleAllowed(cfg.Routes[i], roles)
<1> DEFINE i == findRouteIndex(cfg, user)
<1>1. cfg.Routes \in Seq(RouteEntry)
  BY DEF TypeOK, ConfigType
<1>2. PICK k \in DOMAIN cfg.Routes : Match(cfg.Routes[k].Username, user)
  BY DEF usernameMatchingRoutes
<1>3. /\ i \in DOMAIN cfg.Routes /\ i # 0
      /\ Match(cfg.Routes[i].Username, user)
      /\ \A j \in DOMAIN cfg.Routes : Match(cfg.Routes[j].Username, user) => i <= j
  BY <1>1, <1>2, FindRouteIndex
<1>4. FirstRoute(i)
  <2>1. DOMAIN cfg.Routes = 1 .. Len(cfg.Routes) /\ Len(cfg.Routes) \in Nat
    BY <1>1
  <2>2. \A j \in 1 .. i - 1 : j \in DOMAIN cfg.Routes /\ ~(i <= j)
    BY <1>3, <2>1
  <2>3. QED
    BY <1>3, <2>2 DEF FirstRoute
<1>5. OneTarget(cfg.Routes[i])
  BY <1>3 DEF validate
<1>6. cfg.Routes[i].Cloud # "" => i \in providers
  BY <1>3 DEF CloudRoutes
<1>7. findRoute(cfg, user)
  BY <1>3 DEF findRoute
<1>8. cfg.Routes[i].Run \in BOOLEAN /\ cfg.Routes[i].Proxy \in BOOLEAN
  <2>1. cfg.Routes[i] \in RouteEntry
    BY <1>1, <1>3
  <2>2. QED
    BY <2>1 DEF RouteEntry
<1> HIDE DEF i
<1>9. /\ MuxMiddleware \in Served \cup {"denied"}
      /\ MuxMiddleware \in Served <=> routeRoleAllowed(cfg.Routes[i], roles)
  <2>1. CASE ~routeRoleAllowed(cfg.Routes[i], roles)
    <3>1. MuxMiddleware = "denied"
      BY <1>3, <2>1 DEF MuxMiddleware, i
    <3>2. QED
      BY <2>1, <3>1 DEF Served
  <2>2. CASE routeRoleAllowed(cfg.Routes[i], roles)
    <3>1. CASE cfg.Routes[i].Proxy
      <4>1. MuxMiddleware = "proxy"
        BY <1>3, <2>2, <3>1 DEF MuxMiddleware, i
      <4>2. QED
        BY <2>2, <4>1 DEF Served
    <3>2. CASE ~cfg.Routes[i].Proxy /\ cfg.Routes[i].Cloud # ""
      <4>1. MuxMiddleware = "cloud"
        BY <1>3, <1>6, <2>2, <3>2 DEF MuxMiddleware, i
      <4>2. QED
        BY <2>2, <4>1 DEF Served
    <3>3. CASE ~cfg.Routes[i].Proxy /\ cfg.Routes[i].Cloud = ""
      <4>1. MuxMiddleware = "run"
        BY <1>3, <1>5, <2>2, <3>3 DEF MuxMiddleware, OneTarget, i
      <4>2. QED
        BY <2>2, <4>1 DEF Served
    <3>4. QED
      BY <3>1, <3>2, <3>3
  <2>3. QED
    BY <2>1, <2>2
<1>10. QED
  BY <1>3, <1>4, <1>7, <1>9 DEF i
-----------------------------------------------------------------------------
(* The inductive invariant *)

\* The values a connection starts from have their types.
LEMMA NoConnectionType ==
    /\ NoUser \in Usernames \cup {NoUser}
    /\ NoCache \in [key: Keys \cup {NoKey}, ok: BOOLEAN] /\ NoCache.ok = FALSE
    /\ Nothing \in Credential
    /\ 0 \in 0 .. MaxAuthTries - 1
    /\ [s \in Sessions |-> "idle"] \in [Sessions -> Outcome]
<1>1. NoCache \in [key: Keys \cup {NoKey}, ok: BOOLEAN] /\ NoCache.ok = FALSE
  BY DEF NoCache
<1>2. Nothing \in Credential
  BY DEF Credential
<1>3. 0 \in 0 .. MaxAuthTries - 1
  BY MuxAssumption
<1>4. [s \in Sessions |-> "idle"] \in [Sessions -> Outcome]
  BY DEF Outcome
<1>5. QED
  BY <1>1, <1>2, <1>3, <1>4

LEMMA MuxInit == Init => MuxInv
<1> SUFFICES ASSUME Init PROVE MuxInv
  OBVIOUS
<1> USE MuxAssumption DEF Init
<1>1. cfg \in ConfigType
  BY DEF EmptyConfig, ConfigType
<1>2. TypeOK
  BY <1>1, NoConnectionType DEF TypeOK
<1>3. QED
  BY <1>2 DEF MuxInv, ServedConfig, Unauthenticated, Authenticated, Disposed

\* What hanging up leaves satisfies the invariant.
LEMMA HangUp == MuxInv /\ NoConnection /\ UNCHANGED server => MuxInv'
<1> SUFFICES ASSUME MuxInv, NoConnection, UNCHANGED server PROVE MuxInv'
  OBVIOUS
<1> USE MuxAssumption DEF MuxInv, NoConnection, server
<1>1. TypeOK'
  BY NoConnectionType DEF TypeOK
<1>2. QED
  BY <1>1 DEF ServedConfig, Unauthenticated, Authenticated, Disposed

\* A refused attempt that leaves the roles alone keeps the invariant when the
\* cache does not come to accept anything new.
LEMMA Refused ==
    ASSUME MuxInv, conn \in {"first", "next"}, UNCHANGED server,
           NEW c \in [key: Keys \cup {NoKey}, ok: BOOLEAN],
           c = cache \/ (conn = "next" /\ ~c.ok), Failure(c, roles)
    PROVE  MuxInv'
<1> USE MuxAssumption DEF MuxInv, server
<1>1. CASE failures + 1 >= MaxAuthTries
  BY <1>1, HangUp DEF Failure
<1>2. CASE ~(failures + 1 >= MaxAuthTries)
  <2>1. /\ failures' = failures + 1 /\ cache' = c /\ roles' = roles
        /\ UNCHANGED <<conn, user, pwCallback, authedBy, outcome>>
    BY <1>2 DEF Failure
  <2>2. TypeOK'
    BY <1>2, <2>1 DEF TypeOK
  <2>3. ServedConfig' /\ Unauthenticated'
    BY <2>1 DEF ServedConfig, Unauthenticated
  <2>4. Authenticated' /\ Disposed'
    BY <2>1 DEF Authenticated, Disposed, Unauthenticated
  <2>5. QED
    BY <2>2, <2>3, <2>4
<1>3. QED
  BY <1>1, <1>2

\* An accepted credential opens the connection with its roles.
LEMMA Accepted ==
    ASSUME MuxInv, conn = "next", UNCHANGED server,
           NEW c \in [key: Keys \cup {NoKey}, ok: BOOLEAN],
           NEW r \in SUBSET RoleString, NEW a \in Credential, a # Nothing,
           Success(c, r, a), accepts(cfg, user, r),
           \/ a.method = "publickey" /\ r = publicKeyRoles(cfg, a.key)
           \/ a.method = "password" /\ r = passwordRoles(cfg, a.password)
    PROVE  MuxInv'
<1> USE MuxAssumption DEF MuxInv, server, Success
<1>1. TypeOK'
  BY DEF TypeOK
<1>2. ServedConfig' /\ Unauthenticated'
  BY DEF ServedConfig, Unauthenticated
<1>3. Authenticated'
  <2>1. roles' = CredentialRoles'
    BY DEF CredentialRoles
  <2>2. usernameMatchingRoutes(cfg, user) # {}
    BY DEF accepts, canReachRoute, usernameMatchingRoutes
  <2>3. QED
    BY <2>1, <2>2 DEF Authenticated
<1>4. Disposed'
  BY DEF Disposed, Unauthenticated
<1>5. QED
  BY <1>1, <1>2, <1>3, <1>4

\* What the answer to a public key says and leaves in the context.
LEMMA KeyAnswer ==
    ASSUME MuxInv, conn = "next", NEW k \in Keys
    PROVE  LET answer == PublicKeyCallback(k) IN
           /\ answer.ok \in BOOLEAN
           /\ answer.ok => /\ answer.roles = publicKeyRoles(cfg, k)
                           /\ answer.roles \subseteq RoleString
                           /\ accepts(cfg, user, answer.roles)
           /\ ~answer.ok => answer.roles = roles
<1> USE DEF MuxInv
<1>1. cache.ok \in BOOLEAN /\ cfg \in ConfigType
  BY DEF TypeOK
<1>2. publicKeyRoles(cfg, k) \subseteq RoleString
  BY <1>1, RolesType
<1>3. CASE cache.key = k
  BY <1>1, <1>2, <1>3 DEF PublicKeyCallback, Unauthenticated
<1>4. CASE cache.key # k
  BY <1>2, <1>4 DEF PublicKeyCallback
<1>5. QED
  BY <1>3, <1>4
\* Every step keeps the invariant.
LEMMA MuxStep == MuxInv /\ [Next]_vars => MuxInv'
<1> SUFFICES ASSUME MuxInv, [Next]_vars PROVE MuxInv'
  OBVIOUS
<1> USE MuxAssumption DEF server
<1> DEFINE connection == <<conn, user, pwCallback, cache, roles, authedBy, failures, outcome>>
<1>1. ASSUME NEW raw \in RawConfigs, NEW token \in BOOLEAN, Start(raw, token)
      PROVE  MuxInv'
  <2> DEFINE c == Unmarshal(raw)
  <2>1. UNCHANGED connection /\ srv = "stopped"
    BY <1>1 DEF Start
  <2>2. conn = "none"
    BY <2>1 DEF MuxInv, ServedConfig, TypeOK
  <2>3. CASE ~(Loads(raw) /\ BuildsProviders(c, token))
    BY <1>1, <2>1, <2>2, <2>3 DEF Start, MuxInv, TypeOK, ServedConfig, Unauthenticated,
                                  Authenticated, Disposed
  <2>4. CASE Loads(raw) /\ BuildsProviders(c, token)
    <3>1. srv' = "serving" /\ cfg' = c /\ providers' = BuildProviders(c)
      BY <1>1, <2>4 DEF Start
    <3>2. c \in ConfigType
      BY UnmarshalType
    <3> HIDE DEF c
    <3>3. BuildProviders(c) = CloudRoutes(c)
      BY <2>4 DEF BuildProviders, BuildsProviders
    <3>4. TypeOK'
      BY <2>1, <3>1, <3>2, <3>3 DEF TypeOK, MuxInv, CloudRoutes
    <3>5. ServedConfig'
      BY <2>4, <3>1, <3>3 DEF ServedConfig, Loads, c
    <3>6. Unauthenticated' /\ Authenticated' /\ Disposed'
      BY <2>1, <2>2 DEF MuxInv, Unauthenticated, Authenticated, Disposed
    <3>7. QED
      BY <3>4, <3>5, <3>6 DEF MuxInv
  <2>5. QED
    BY <2>3, <2>4
<1>2. ASSUME Connect PROVE MuxInv'
  <2>1. /\ srv = "serving" /\ conn = "none" /\ conn' = "first" /\ UNCHANGED server
        /\ UNCHANGED <<user, pwCallback, cache, roles, authedBy, failures, outcome>>
    BY <1>2 DEF Connect
  <2>2. TypeOK'
    BY <2>1 DEF MuxInv, TypeOK
  <2>3. QED
    BY <2>1, <2>2 DEF MuxInv, ServedConfig, Unauthenticated, Authenticated, Disposed
<1>3. ASSUME Disconnect PROVE MuxInv'
  BY <1>3, HangUp DEF Disconnect
<1>4. ASSUME UnofferedMethod PROVE MuxInv'
  <2>1. cache \in [key: Keys \cup {NoKey}, ok: BOOLEAN]
    BY DEF MuxInv, TypeOK
  <2>2. QED
    BY <1>4, <2>1, Refused DEF UnofferedMethod
<1>5. ASSUME NEW u \in Usernames, NoClientAuthCallback(u) PROVE MuxInv'
  <2>1. /\ conn = "first" /\ user' = u /\ UNCHANGED server
        /\ UNCHANGED <<cache, roles, authedBy, failures, outcome>>
    BY <1>5 DEF NoClientAuthCallback
  <2>2. cache = NoCache /\ roles = {} /\ authedBy = Nothing
    BY <2>1 DEF MuxInv, Unauthenticated
  <2>3. CASE isPublic(cfg, u)
    <3>1. conn' = "open" /\ UNCHANGED pwCallback
      BY <1>5, <2>3 DEF NoClientAuthCallback
    <3>2. TypeOK'
      BY <2>1, <3>1 DEF MuxInv, TypeOK
    <3>3. CredentialRoles' = {}
      BY <2>1, <2>2 DEF CredentialRoles, Nothing
    <3>4. Authenticated'
      BY <2>1, <2>2, <2>3, <3>1, <3>3 DEF Authenticated, isPublic
    <3>5. QED
      BY <2>1, <3>1, <3>2, <3>4 DEF MuxInv, ServedConfig, Unauthenticated, Disposed
  <2>4. CASE ~isPublic(cfg, u)
    <3>1. conn' = "next" /\ pwCallback' = passwordAllowedForUsername(cfg, u)
      BY <1>5, <2>4 DEF NoClientAuthCallback
    <3>2. passwordAllowedForUsername(cfg, u) \in BOOLEAN
      BY DEF passwordAllowedForUsername
    <3>3. TypeOK'
      BY <2>1, <3>1, <3>2 DEF MuxInv, TypeOK
    <3>4. Unauthenticated'
      BY <2>1, <2>2, <3>1, NoConnectionType DEF MuxInv, Unauthenticated
    <3>5. QED
      BY <2>1, <3>1, <3>3, <3>4 DEF MuxInv, ServedConfig, Unauthenticated, Authenticated, Disposed
  <2>5. QED
    BY <2>3, <2>4
<1>6. ASSUME NEW k \in Keys, QueryKey(k) PROVE MuxInv'
  <2> DEFINE answer == PublicKeyCallback(k)
             shown  == [key |-> k, ok |-> answer.ok]
  <2>1. conn = "next" /\ UNCHANGED server
    BY <1>6 DEF QueryKey
  <2>2. /\ answer.ok \in BOOLEAN
        /\ answer.ok => /\ answer.roles = publicKeyRoles(cfg, k)
                        /\ answer.roles \subseteq RoleString
                        /\ accepts(cfg, user, answer.roles)
        /\ ~answer.ok => answer.roles = roles
    BY <2>1, KeyAnswer
  <2>3. shown \in [key: Keys \cup {NoKey}, ok: BOOLEAN]
    BY <2>2
  <2>4. CASE answer.ok
    <3>1. /\ cache' = shown /\ roles' = answer.roles
          /\ UNCHANGED <<conn, user, pwCallback, authedBy, failures, outcome>>
      BY <1>6, <2>4 DEF QueryKey
    <3>2. cache'.key = k
      BY <3>1
    <3> HIDE DEF answer, shown
    <3>3. TypeOK'
      BY <2>1, <2>2, <2>3, <2>4, <3>1 DEF MuxInv, TypeOK
    <3>4. Unauthenticated'
      BY <2>1, <2>2, <2>4, <3>1, <3>2 DEF MuxInv, Unauthenticated
    <3>5. QED
      BY <2>1, <3>1, <3>3, <3>4 DEF MuxInv, ServedConfig, Unauthenticated, Authenticated, Disposed
  <2>5. CASE ~answer.ok
    <3>1. Failure(shown, roles)
      BY <1>6, <2>2, <2>5 DEF QueryKey
    <3>2. ~shown.ok
      BY <2>5
    <3> HIDE DEF shown
    <3>3. QED
      BY <2>1, <2>3, <3>1, <3>2, Refused
  <2>6. QED
    BY <2>4, <2>5
<1>7. ASSUME NEW k \in Keys, SignKey(k) PROVE MuxInv'
  <2> DEFINE answer == PublicKeyCallback(k)
             shown  == [key |-> k, ok |-> answer.ok]
  <2>1. conn = "next" /\ UNCHANGED server
    BY <1>7 DEF SignKey
  <2>2. /\ answer.ok \in BOOLEAN
        /\ answer.ok => /\ answer.roles = publicKeyRoles(cfg, k)
                        /\ answer.roles \subseteq RoleString
                        /\ accepts(cfg, user, answer.roles)
        /\ ~answer.ok => answer.roles = roles
    BY <2>1, KeyAnswer
  <2>3. shown \in [key: Keys \cup {NoKey}, ok: BOOLEAN]
    BY <2>2
  <2>4. CASE answer.ok
    <3>1. Success(shown, answer.roles, ByKey(k))
      BY <1>7, <2>4 DEF SignKey
    <3>2. /\ ByKey(k) \in Credential /\ ByKey(k) # Nothing
          /\ ByKey(k).method = "publickey" /\ ByKey(k).key = k
      BY DEF Credential, ByKey, Nothing
    <3> HIDE DEF answer, shown
    <3>3. QED
      BY <2>1, <2>2, <2>3, <2>4, <3>1, <3>2, Accepted
  <2>5. CASE ~answer.ok
    <3>1. Failure(shown, roles)
      BY <1>7, <2>2, <2>5 DEF SignKey
    <3>2. ~shown.ok
      BY <2>5
    <3> HIDE DEF shown
    <3>3. QED
      BY <2>1, <2>3, <3>1, <3>2, Refused
  <2>6. QED
    BY <2>4, <2>5
<1>8. ASSUME NEW p \in Passwords, TryPassword(p) PROVE MuxInv'
  <2> DEFINE granted == passwordRoles(cfg, p)
  <2>1. conn = "next" /\ UNCHANGED server
    BY <1>8 DEF TryPassword
  <2>2. /\ cache \in [key: Keys \cup {NoKey}, ok: BOOLEAN]
        /\ granted \subseteq RoleString
    BY RolesType DEF MuxInv, TypeOK
  <2>3. CASE accepts(cfg, user, granted)
    <3>1. Success(cache, granted, ByPassword(p))
      BY <1>8, <2>3 DEF TryPassword, PasswordCallback
    <3>2. /\ ByPassword(p) \in Credential /\ ByPassword(p) # Nothing
          /\ ByPassword(p).method = "password" /\ ByPassword(p).password = p
      BY DEF Credential, ByPassword, Nothing
    <3>3. QED
      BY <2>1, <2>2, <2>3, <3>1, <3>2, Accepted
  <2>4. CASE ~accepts(cfg, user, granted)
    <3>1. Failure(cache, roles)
      BY <1>8, <2>4 DEF TryPassword, PasswordCallback
    <3>2. QED
      BY <2>1, <2>2, <3>1, Refused
  <2>5. QED
    BY <2>3, <2>4
<1>9. ASSUME NEW s \in Sessions, SessionRequest(s) PROVE MuxInv'
  <2>1. /\ conn = "open" /\ UNCHANGED server
        /\ UNCHANGED <<conn, user, pwCallback, cache, roles, authedBy, failures>>
    BY <1>9 DEF SessionRequest
  <2>2. findRoute(cfg, user)
    BY <2>1, Disposition DEF MuxInv, ServedConfig, Authenticated
  <2>3. outcome' = [outcome EXCEPT ![s] = "requested"]
    BY <1>9, <2>2 DEF SessionRequest
  <2>4. TypeOK'
    BY <2>1, <2>3 DEF MuxInv, TypeOK, Outcome
  <2>5. Disposed'
    <3>1. MuxMiddleware' = MuxMiddleware
      BY <2>1 DEF MuxMiddleware
    <3>2. QED
      BY <2>3, <3>1 DEF MuxInv, TypeOK, Disposed
  <2>6. ServedConfig' /\ Unauthenticated' /\ Authenticated'
    BY <2>1 DEF MuxInv, ServedConfig, Unauthenticated, Authenticated, CredentialRoles
  <2>7. QED
    BY <2>4, <2>5, <2>6 DEF MuxInv
<1>10. ASSUME NEW s \in Sessions, HandleSession(s) PROVE MuxInv'
  <2>1. /\ conn = "open" /\ UNCHANGED server
        /\ UNCHANGED <<conn, user, pwCallback, cache, roles, authedBy, failures>>
        /\ outcome' = [outcome EXCEPT ![s] = MuxMiddleware]
    BY <1>10 DEF HandleSession
  <2>2. MuxMiddleware \in Served \cup {"denied"}
    BY <2>1, Disposition DEF MuxInv, ServedConfig, Authenticated
  <2>3. MuxMiddleware \in Outcome
    BY <2>2 DEF Served, Outcome
  <2>4. TypeOK'
    BY <2>1, <2>3 DEF MuxInv, TypeOK
  <2>5. Disposed'
    <3>1. MuxMiddleware' = MuxMiddleware
      BY <2>1 DEF MuxMiddleware
    <3>2. QED
      BY <2>1, <3>1 DEF MuxInv, TypeOK, Disposed
  <2>6. ServedConfig' /\ Unauthenticated' /\ Authenticated'
    BY <2>1 DEF MuxInv, ServedConfig, Unauthenticated, Authenticated, CredentialRoles
  <2>7. QED
    BY <2>4, <2>5, <2>6 DEF MuxInv
<1>11. CASE UNCHANGED vars
  <2>1. MuxMiddleware' = MuxMiddleware /\ CredentialRoles' = CredentialRoles
    BY <1>11 DEF MuxMiddleware, CredentialRoles, vars
  <2>2. QED
    BY <1>11, <2>1 DEF vars, MuxInv, TypeOK, ServedConfig, Unauthenticated, Authenticated, Disposed
<1>12. QED
  BY <1>1, <1>2, <1>3, <1>4, <1>5, <1>6, <1>7, <1>8, <1>9, <1>10, <1>11 DEF Next
-----------------------------------------------------------------------------
(* The properties *)

\* The inductive invariant holds in every reachable state.
THEOREM MuxInvariant == Spec => []MuxInv
BY MuxInit, MuxStep, PTL DEF Spec

\* The variables keep their types; in particular the loaded configuration is
\* well formed and a provider belongs to one of its routes.
THEOREM MuxTypeOK == Spec => []TypeOK
<1>1. MuxInv => TypeOK
  BY DEF MuxInv
<1>2. QED
  BY <1>1, MuxInvariant, PTL

\* The roles of an open connection (ContextWithRoles, auth.go:119) are those of
\* the credential that completed authentication, whatever was queried, cached
\* or tried before.
THEOREM MuxRolesFollowCredential == Spec => []RolesFollowCredential
<1>1. MuxInv => RolesFollowCredential
  BY DEF MuxInv, Authenticated, RolesFollowCredential
<1>2. QED
  BY <1>1, MuxInvariant, PTL

\* No session meets MuxMiddleware's branches for a missing provider, a missing
\* target or a missing route (router.go:44-48, 67).
THEOREM MuxSessionsReachAHandler == Spec => []SessionsReachAHandler
<1>1. MuxInv => SessionsReachAHandler
  <2> SUFFICES ASSUME MuxInv, NEW s \in Sessions
               PROVE  outcome[s] \notin {"refused", "unconfigured", "unrouted"}
    BY DEF SessionsReachAHandler
  <2>1. CASE conn # "open"
    BY <2>1 DEF MuxInv, Unauthenticated
  <2>2. CASE conn = "open"
    <3>1. MuxMiddleware \in Served \cup {"denied"}
      BY <2>2, Disposition DEF MuxInv, ServedConfig, Authenticated
    <3>2. outcome[s] \in {"idle", "requested"} \cup Served \cup {"denied"}
      BY <3>1 DEF MuxInv, Disposed
    <3>3. QED
      BY <3>2 DEF Served
  <2>3. QED
    BY <2>1, <2>2
<1>2. QED
  BY <1>1, MuxInvariant, PTL

\* A session reaches a handler exactly when its first matching route is public
\* or asks for a role of the proved credential (auth.go:160-167 and
\* router.go:77-88 together).
THEOREM MuxDecisionMatchesCredential == Spec => []DecisionMatchesCredential
<1>1. MuxInv => DecisionMatchesCredential
  <2> SUFFICES ASSUME MuxInv, NEW s \in Sessions, outcome[s] \notin {"idle", "requested"}
               PROVE  outcome[s] \in Served <=>
                        \E i \in DOMAIN cfg.Routes :
                            /\ FirstRoute(i)
                            /\ cfg.Routes[i].Role \in {NoRole} \cup CredentialRoles
    BY DEF DecisionMatchesCredential
  <2> DEFINE f == findRouteIndex(cfg, user)
  <2>1. conn = "open"
    BY DEF MuxInv, Unauthenticated
  <2>2. /\ f \in DOMAIN cfg.Routes /\ FirstRoute(f)
        /\ MuxMiddleware \in Served <=> routeRoleAllowed(cfg.Routes[f], roles)
    BY <2>1, Disposition DEF MuxInv, ServedConfig, Authenticated
  <2>3. outcome[s] = MuxMiddleware /\ roles = CredentialRoles
    BY <2>1 DEF MuxInv, Disposed, Authenticated
  <2> HIDE DEF f
  <2>4. ASSUME NEW i \in DOMAIN cfg.Routes, FirstRoute(i) PROVE i = f
    <3>1. cfg.Routes \in Seq(RouteEntry)
      BY DEF MuxInv, TypeOK, ConfigType
    <3>2. i \in Nat \ {0} /\ f \in Nat \ {0}
      BY <2>2, <3>1
    <3>3. ~(i < f) /\ ~(f < i)
      BY <2>2, <2>4, <3>2 DEF FirstRoute
    <3>4. QED
      BY <3>2, <3>3
  <2>5. routeRoleAllowed(cfg.Routes[f], roles) <=>
            cfg.Routes[f].Role \in {NoRole} \cup CredentialRoles
    BY <2>3 DEF routeRoleAllowed
  <2>6. QED
    BY <2>2, <2>3, <2>4, <2>5
<1>2. QED
  BY <1>1, MuxInvariant, PTL

\* Without a credential a handler runs only where every matching route is
\* public (routesArePublic, auth.go:73-80).
THEOREM MuxUnauthenticatedOnlyWherePublic == Spec => []UnauthenticatedOnlyWherePublic
<1>1. MuxInv => UnauthenticatedOnlyWherePublic
  <2> SUFFICES ASSUME MuxInv, NEW s \in Sessions, outcome[s] \in Served, authedBy = Nothing,
                      NEW i \in DOMAIN cfg.Routes, Match(cfg.Routes[i].Username, user)
               PROVE  cfg.Routes[i].Role = NoRole
    BY DEF UnauthenticatedOnlyWherePublic
  <2>1. conn = "open"
    BY DEF MuxInv, Unauthenticated, Served
  <2>2. isPublic(cfg, user)
    BY <2>1 DEF MuxInv, Authenticated
  <2>3. QED
    BY <2>2 DEF isPublic, routesArePublic, usernameMatchingRoutes
<1>2. QED
  BY <1>1, MuxInvariant, PTL

\* Password authentication is offered whenever a password could give the role
\* of a matching route (passwordAllowedForUsername, auth.go:123-137).
THEOREM MuxPasswordOfferedWhenUseful == Spec => []PasswordOfferedWhenUseful
<1>1. MuxInv => PasswordOfferedWhenUseful
  <2> SUFFICES ASSUME MuxInv, conn = "next", ~pwCallback, NEW p \in Passwords,
                      NEW i \in DOMAIN cfg.Routes, Match(cfg.Routes[i].Username, user)
               PROVE  cfg.Routes[i].Role \notin passwordRoles(cfg, p) \ {NoRole}
    BY DEF PasswordOfferedWhenUseful
  <2>1. ~passwordAllowedForUsername(cfg, user)
    BY DEF MuxInv, Unauthenticated
  <2>2. QED
    BY <2>1, PasswordRolesOffered DEF passwordAllowedForUsername
<1>2. QED
  BY <1>1, MuxInvariant, PTL

-----------------------------------------------------------------------------
(* The refinement of Access *)

\* Access reads the configuration as Mux does.
LEMMA SameConfig ==
    /\ \A pattern, name : Door!Match(pattern, name) <=> Match(pattern, name)
    /\ Door!RoleString = RoleString
    /\ Door!ConfigType = ConfigType
<1>1. \A pattern, name : Door!Match(pattern, name) <=> Match(pattern, name)
  BY DEF Door!Match, Match, Door!matchGlob, matchGlob
<1>2. Door!RoleString = RoleString
  BY DEF Door!RoleString, RoleString
<1>3. Door!Pattern = Pattern /\ Door!SSHKey = SSHKey
  BY DEF Door!Pattern, Pattern, Door!Part, Part, Door!SSHKey, SSHKey
<1>4. Door!AuthEntry = AuthEntry
  BY <1>2, <1>3 DEF Door!AuthEntry, AuthEntry, Door!StoredPassword, StoredPassword
<1>5. Door!RouteEntry = RouteEntry
  BY <1>2, <1>3 DEF Door!RouteEntry, RouteEntry
<1>6. Door!ConfigType = ConfigType
  BY <1>4, <1>5 DEF Door!ConfigType, ConfigType
<1>7. QED
  BY <1>1, <1>2, <1>6

\* The verdict on one session.
LEMMA DoorVerdictOf ==
    ASSUME NEW s \in Sessions
    PROVE  /\ outcome[s] \in {"idle", "requested"} => DoorVerdict[s] = "none"
           /\ outcome[s] \in Served => DoorVerdict[s] = "served"
           /\ outcome[s] = "denied" => DoorVerdict[s] = "refused"
BY DEF DoorVerdict, Served

\* Before authentication is complete Access sees nobody and no verdict.
LEMMA DoorClosed ==
    MuxInv /\ conn # "open" => DoorCaller = Door!Nobody /\ DoorVerdict = Door!NoVerdict
<1> SUFFICES ASSUME MuxInv, conn # "open"
             PROVE  DoorCaller = Door!Nobody /\ DoorVerdict = Door!NoVerdict
  OBVIOUS
<1>1. DoorCaller = Door!Nobody
  BY DEF DoorCaller, Door!Nobody
<1>2. \A s \in Sessions : outcome[s] = "idle"
  BY DEF MuxInv, Unauthenticated
<1>3. \A s \in Sessions : DoorVerdict[s] = "none"
  BY <1>2, DoorVerdictOf
<1>4. DoorVerdict = [s \in Sessions |-> DoorVerdict[s]]
  BY DEF DoorVerdict
<1>5. DoorVerdict = [s \in Sessions |-> "none"]
  BY <1>3, <1>4
<1>6. QED
  BY <1>1, <1>5 DEF Door!NoVerdict

\* An open connection is somebody's.
LEMMA DoorOpen ==
    ASSUME conn = "open"
    PROVE  /\ DoorCaller = [user |-> user, proof |-> authedBy]
           /\ DoorCaller # Door!Nobody
<1>1. DoorCaller = [user |-> user, proof |-> authedBy]
  BY DEF DoorCaller
<1>2. DOMAIN DoorCaller = {"user", "proof"} /\ DOMAIN Door!Nobody = {"user"}
  BY <1>1 DEF Door!Nobody
<1>3. "proof" \notin {"user"}
  OBVIOUS
<1>4. QED
  BY <1>1, <1>2, <1>3

\* What a proof gives in Access is what the code collects for the credential.
LEMMA GivesRoles ==
    /\ \A k, role : Door!Gives(ByKey(k), role) <=> role \in publicKeyRoles(cfg, k)
    /\ \A p, role : Door!Gives(ByPassword(p), role) <=> role \in passwordRoles(cfg, p)
    /\ \A role : ~Door!Gives(Nothing, role)
<1>1. ASSUME NEW k, NEW role PROVE Door!Gives(ByKey(k), role) <=> role \in publicKeyRoles(cfg, k)
  <2>1. ByKey(k).method = "publickey" /\ ByKey(k).key = k
    BY DEF ByKey
  <2>2. \A entry : Door!Proves(entry, ByKey(k)) <=>
                        /\ entry.Key.hasFingerprint \/ entry.Key.hasPublicKey
                        /\ entry.Key.key = k
    BY <2>1 DEF Door!Proves
  <2>3. QED
    BY <2>2 DEF Door!Gives, publicKeyRoles, RolesOf
<1>2. ASSUME NEW p, NEW role PROVE Door!Gives(ByPassword(p), role) <=> role \in passwordRoles(cfg, p)
  <2>1. ByPassword(p).method = "password" /\ ByPassword(p).password = p
    BY DEF ByPassword
  <2>2. \A entry : Door!Proves(entry, ByPassword(p)) <=>
                        entry.Password.present /\ p \in entry.Password.accepts
    BY <2>1 DEF Door!Proves
  <2>3. QED
    BY <2>2 DEF Door!Gives, passwordRoles, matchPassword, RolesOf
<1>3. ASSUME NEW role PROVE ~Door!Gives(Nothing, role)
  <2>1. Nothing.method = "none"
    BY DEF Nothing
  <2>2. QED
    BY <2>1 DEF Door!Gives, Door!Proves
<1>4. QED
  BY <1>1, <1>2, <1>3

\* An open connection's roles are what its proof gives.
LEMMA CallerRoles ==
    ASSUME MuxInv, conn = "open"
    PROVE  \A role : Door!Gives(authedBy, role) <=> role \in roles
<1>1. authedBy \in Credential /\ roles = CredentialRoles
  BY DEF MuxInv, TypeOK, Authenticated
<1>2. CASE authedBy = Nothing
  <2>1. roles = {}
    BY <1>1, <1>2 DEF CredentialRoles, Nothing
  <2>2. QED
    BY <1>2, <2>1, GivesRoles
<1>3. ASSUME NEW k \in Keys, authedBy = ByKey(k)
      PROVE  \A role : Door!Gives(authedBy, role) <=> role \in roles
  <2>1. roles = publicKeyRoles(cfg, k)
    BY <1>1, <1>3 DEF CredentialRoles, ByKey
  <2>2. QED
    BY <1>3, <2>1, GivesRoles
<1>4. ASSUME NEW p \in Passwords, authedBy = ByPassword(p)
      PROVE  \A role : Door!Gives(authedBy, role) <=> role \in roles
  <2>1. roles = passwordRoles(cfg, p)
    BY <1>1, <1>4 DEF CredentialRoles, ByPassword
  <2>2. QED
    BY <1>4, <2>1, GivesRoles
<1>5. QED
  BY <1>1, <1>2, <1>3, <1>4 DEF Credential

\* The router serves a session exactly when Access lets the caller use it.
LEMMA ServedIffMayUse ==
    ASSUME MuxInv, conn = "open"
    PROVE  /\ MuxMiddleware \in Served \cup {"denied"}
           /\ MuxMiddleware \in Served <=> Door!MayUse
<1> DEFINE f == findRouteIndex(cfg, user)
<1>1. /\ f \in DOMAIN cfg.Routes /\ FirstRoute(f)
      /\ MuxMiddleware \in Served \cup {"denied"}
      /\ MuxMiddleware \in Served <=> routeRoleAllowed(cfg.Routes[f], roles)
  BY Disposition DEF MuxInv, ServedConfig, Authenticated
<1>2. DOMAIN cfg.Routes \subseteq Nat \ {0}
  <2>1. cfg.Routes \in Seq(RouteEntry)
    BY DEF MuxInv, TypeOK, ConfigType
  <2>2. QED
    BY <2>1
<1> HIDE DEF f
<1>3. DoorCaller.user = user /\ DoorCaller.proof = authedBy
  BY DoorOpen
<1>4. \A i : i \in Door!Matching(user) <=>
                i \in DOMAIN cfg.Routes /\ Match(cfg.Routes[i].Username, user)
  BY SameConfig DEF Door!Matching
<1>5. f \in Door!Matching(user) /\ \A j \in Door!Matching(user) : f <= j
  <2>1. ASSUME NEW j \in Door!Matching(user) PROVE f <= j
    <3>1. ~(j \in 1 .. f - 1)
      BY <1>1, <1>4 DEF FirstRoute
    <3>2. j \in Nat \ {0} /\ f \in Nat \ {0}
      BY <1>1, <1>2, <1>4
    <3>3. QED
      BY <3>1, <3>2
  <2>2. QED
    BY <1>1, <1>4, <2>1 DEF FirstRoute
<1>6. \A i \in Door!Matching(user) : (\A j \in Door!Matching(user) : i <= j) => i = f
  <2>1. \A i \in Door!Matching(user) : i \in Nat
    BY <1>2, <1>4
  <2>2. QED
    BY <1>5, <2>1
<1>7. Door!Open(f, authedBy) <=> routeRoleAllowed(cfg.Routes[f], roles)
  BY CallerRoles DEF Door!Open, Door!Public, routeRoleAllowed
<1>8. Door!MayUse <=> Door!Open(f, authedBy)
  BY <1>3, <1>5, <1>6 DEF Door!MayUse
<1>9. QED
  BY <1>1, <1>7, <1>8

\* A credential the callbacks accept may enter.
LEMMA AcceptedMayEnter ==
    ASSUME MuxInv, NEW proof, proof.method # "none", NEW granted \in SUBSET RoleString,
           \A role : Door!Gives(proof, role) <=> role \in granted,
           accepts(cfg, user, granted)
    PROVE  Door!MayEnter(user, proof)
<1>1. PICK i \in DOMAIN cfg.Routes :
          Match(cfg.Routes[i].Username, user) /\ routeRoleAllowed(cfg.Routes[i], granted)
  BY DEF accepts, canReachRoute
<1>2. i \in Door!Matching(user) /\ Door!Open(i, proof)
  BY <1>1, SameConfig DEF Door!Matching, Door!Open, Door!Public, routeRoleAllowed
<1>3. \E role \in RoleString : Door!Gives(proof, role)
  BY DEF accepts, rolesApply
<1>4. QED
  BY <1>2, <1>3, SameConfig DEF Door!MayEnter

\* A user all of whose routes are public, and who has one, may enter without a proof.
LEMMA PublicMayEnter ==
    ASSUME NEW u, isPublic(cfg, u)
    PROVE  Door!MayEnter(u, Nothing)
<1>1. Door!Matching(u) = usernameMatchingRoutes(cfg, u)
  BY SameConfig DEF Door!Matching, usernameMatchingRoutes
<1>2. Nothing.method = "none"
  BY DEF Nothing
<1>3. QED
  BY <1>1, <1>2 DEF Door!MayEnter, Door!Public, isPublic, routesArePublic

\* Mux starts as Access does.
LEMMA DoorInit == Init => Door!Init
<1> SUFFICES ASSUME Init PROVE Door!Init
  OBVIOUS
<1>1. MuxInv /\ conn # "open" /\ cfg = EmptyConfig
  BY MuxInit DEF Init
<1>2. QED
  BY <1>1, DoorClosed DEF Door!Init, EmptyConfig

\* A step between two closed states, or that closes the connection.
LEMMA DoorCloses == MuxInv' /\ conn' # "open" /\ cfg' = cfg => Door!Leave
<1>1. (MuxInv /\ conn # "open" => DoorCaller = Door!Nobody /\ DoorVerdict = Door!NoVerdict)'
  BY DoorClosed, PTL
<1>2. QED
  BY <1>1 DEF Door!Leave, Door!Nobody, Door!NoVerdict

\* A step that opens the connection on a proof the caller can give.
LEMMA DoorOpens ==
    ASSUME MuxInv, conn # "open", conn' = "open", UNCHANGED <<cfg, outcome>>,
           user' \in Usernames, authedBy' \in Door!Proof, Door!MayEnter(user', authedBy')
    PROVE  Door!Next
<1>1. DoorCaller = Door!Nobody
  BY DoorClosed
<1>2. DoorCaller' = [user |-> user', proof |-> authedBy']
  BY DEF DoorCaller
<1>3. DoorVerdict' = DoorVerdict
  BY DEF DoorVerdict
<1>4. Door!Enter(user', authedBy')
  BY <1>1, <1>2, <1>3 DEF Door!Enter
<1>5. QED
  BY <1>4 DEF Door!Next

\* An accepted credential, with its roles, opens the door.
LEMMA DoorAccepts ==
    ASSUME MuxInv, conn = "next", UNCHANGED cfg, NEW proof \in Door!Proof, proof.method # "none",
           NEW c, NEW granted \in SUBSET RoleString, Success(c, granted, proof),
           \A role : Door!Gives(proof, role) <=> role \in granted,
           accepts(cfg, user, granted)
    PROVE  Door!Next
<1>1. /\ conn' = "open" /\ authedBy' = proof /\ user' = user
      /\ UNCHANGED outcome
  BY DEF Success
<1>2. user \in Usernames
  BY DEF MuxInv, Unauthenticated
<1>3. Door!MayEnter(user, proof)
  BY AcceptedMayEnter
<1>4. QED
  BY <1>1, <1>2, <1>3, DoorOpens

\* Every step is a step of Access, or leaves what Access sees unchanged.
LEMMA DoorStep == MuxInv /\ MuxInv' /\ [Next]_vars => [Door!Next]_(Door!access)
<1> SUFFICES ASSUME MuxInv, MuxInv', [Next]_vars
             PROVE  Door!Next \/ UNCHANGED Door!access
  OBVIOUS
<1> USE DEF server
<1>1. ASSUME NEW raw \in RawConfigs, NEW token \in BOOLEAN, Start(raw, token)
      PROVE  Door!Next \/ UNCHANGED Door!access
  <2>1. /\ srv = "stopped" /\ UNCHANGED <<conn, user, authedBy, outcome>>
        /\ cfg' = cfg \/ cfg' = Unmarshal(raw)
    BY <1>1 DEF Start
  <2>2. conn = "none" /\ cfg = EmptyConfig
    BY <2>1 DEF MuxInv, ServedConfig, TypeOK
  <2>3. DoorCaller = Door!Nobody
    BY <2>2, DoorClosed
  <2>4. DoorCaller' = DoorCaller /\ DoorVerdict' = DoorVerdict
    BY <2>1 DEF DoorCaller, DoorVerdict
  <2>5. cfg' \in Door!ConfigType
    BY SameConfig DEF MuxInv, TypeOK
  <2>6. Door!Load
    BY <2>2, <2>3, <2>4, <2>5 DEF Door!Load, EmptyConfig
  <2>7. QED
    BY <2>6 DEF Door!Next
<1>2. ASSUME Connect PROVE Door!Next \/ UNCHANGED Door!access
  BY <1>2, DoorCloses DEF Connect, Door!Next
<1>3. ASSUME Disconnect PROVE Door!Next \/ UNCHANGED Door!access
  BY <1>3, DoorCloses DEF Disconnect, NoConnection, Door!Next
<1>4. ASSUME NEW c, NEW r, Failure(c, r), conn # "open", UNCHANGED server PROVE Door!Next
  <2>1. conn' # "open"
    BY <1>4 DEF Failure, NoConnection
  <2>2. QED
    BY <1>4, <2>1, DoorCloses DEF Door!Next
<1>5. ASSUME UnofferedMethod PROVE Door!Next \/ UNCHANGED Door!access
  BY <1>4, <1>5 DEF UnofferedMethod
<1>6. ASSUME NEW u \in Usernames, NoClientAuthCallback(u)
      PROVE  Door!Next \/ UNCHANGED Door!access
  <2>1. conn = "first" /\ user' = u /\ UNCHANGED <<cfg, authedBy, outcome>>
    BY <1>6 DEF NoClientAuthCallback
  <2>2. authedBy = Nothing /\ Nothing \in Door!Proof
    BY <2>1 DEF MuxInv, Unauthenticated, Door!Proof, Nothing
  <2>3. CASE isPublic(cfg, u)
    <3>1. conn' = "open"
      BY <1>6, <2>3 DEF NoClientAuthCallback
    <3>2. Door!MayEnter(user', authedBy')
      BY <2>1, <2>2, <2>3, PublicMayEnter
    <3>3. QED
      BY <2>1, <2>2, <3>1, <3>2, DoorOpens
  <2>4. CASE ~isPublic(cfg, u)
    <3>1. conn' = "next"
      BY <1>6, <2>4 DEF NoClientAuthCallback
    <3>2. QED
      BY <2>1, <3>1, DoorCloses DEF Door!Next
  <2>5. QED
    BY <2>3, <2>4
<1>7. ASSUME NEW k \in Keys, QueryKey(k) PROVE Door!Next \/ UNCHANGED Door!access
  <2>1. conn = "next" /\ UNCHANGED server
    BY <1>7 DEF QueryKey
  <2>2. CASE PublicKeyCallback(k).ok
    <3>1. conn' = conn
      BY <1>7, <2>2 DEF QueryKey
    <3>2. QED
      BY <2>1, <3>1, DoorCloses DEF Door!Next
  <2>3. CASE ~PublicKeyCallback(k).ok
    BY <1>4, <1>7, <2>1, <2>3 DEF QueryKey
  <2>4. QED
    BY <2>2, <2>3
<1>8. ASSUME NEW k \in Keys, SignKey(k) PROVE Door!Next \/ UNCHANGED Door!access
  <2> DEFINE answer == PublicKeyCallback(k)
             shown  == [key |-> k, ok |-> answer.ok]
  <2>1. conn = "next" /\ k \in OwnedKeys /\ UNCHANGED server
    BY <1>8 DEF SignKey
  <2>2. CASE answer.ok
    <3>1. Success(shown, answer.roles, ByKey(k))
      BY <1>8, <2>2 DEF SignKey
    <3>2. /\ answer.roles = publicKeyRoles(cfg, k) /\ answer.roles \in SUBSET RoleString
          /\ accepts(cfg, user, answer.roles)
      BY <2>1, <2>2, KeyAnswer
    <3>3. ByKey(k) \in Door!Proof /\ ByKey(k).method # "none"
      BY <2>1 DEF Door!Proof, ByKey
    <3>4. \A role : Door!Gives(ByKey(k), role) <=> role \in answer.roles
      BY <3>2, GivesRoles
    <3> HIDE DEF answer, shown
    <3>5. QED
      BY <2>1, <3>1, <3>2, <3>3, <3>4, DoorAccepts
  <2>3. CASE ~answer.ok
    BY <1>4, <1>8, <2>1, <2>3 DEF SignKey
  <2>4. QED
    BY <2>2, <2>3
<1>9. ASSUME NEW p \in Passwords, TryPassword(p) PROVE Door!Next \/ UNCHANGED Door!access
  <2> DEFINE granted == passwordRoles(cfg, p)
  <2>1. conn = "next" /\ UNCHANGED server
    BY <1>9 DEF TryPassword
  <2>2. CASE accepts(cfg, user, granted)
    <3>1. Success(cache, granted, ByPassword(p))
      BY <1>9, <2>2 DEF TryPassword, PasswordCallback
    <3>2. granted \in SUBSET RoleString
      BY RolesType DEF MuxInv, TypeOK
    <3>3. ByPassword(p) \in Door!Proof /\ ByPassword(p).method # "none"
      BY DEF Door!Proof, ByPassword
    <3>4. \A role : Door!Gives(ByPassword(p), role) <=> role \in granted
      BY GivesRoles
    <3> HIDE DEF granted
    <3>5. QED
      BY <2>1, <2>2, <3>1, <3>2, <3>3, <3>4, DoorAccepts
  <2>3. CASE ~accepts(cfg, user, granted)
    <3>1. Failure(cache, roles)
      BY <1>9, <2>3 DEF TryPassword, PasswordCallback
    <3>2. QED
      BY <1>4, <2>1, <3>1
  <2>4. QED
    BY <2>2, <2>3
<1>10. ASSUME NEW s \in Sessions, SessionRequest(s) PROVE UNCHANGED Door!access
  <2>1. conn = "open" /\ outcome[s] = "idle" /\ UNCHANGED <<cfg, conn, user, authedBy>>
    BY <1>10 DEF SessionRequest
  <2>2. findRoute(cfg, user)
    BY <2>1, Disposition DEF MuxInv, ServedConfig, Authenticated
  <2>3. outcome' = [outcome EXCEPT ![s] = "requested"] /\ outcome \in [Sessions -> Outcome]
    BY <1>10, <2>2 DEF SessionRequest, MuxInv, TypeOK
  <2>4. \A x \in Sessions : outcome'[x] = outcome[x] \/
            (outcome[x] \in {"idle", "requested"} /\ outcome'[x] \in {"idle", "requested"})
    BY <2>1, <2>3
  <2>5. DoorVerdict' = DoorVerdict
    BY <2>4 DEF DoorVerdict, Served
  <2>6. QED
    BY <2>1, <2>5 DEF Door!access, DoorCaller
<1>11. ASSUME NEW s \in Sessions, HandleSession(s) PROVE Door!Next
  <2>1. /\ conn = "open" /\ outcome[s] = "requested" /\ UNCHANGED <<cfg, conn, user, authedBy>>
        /\ outcome' = [outcome EXCEPT ![s] = MuxMiddleware] /\ outcome \in [Sessions -> Outcome]
    BY <1>11 DEF HandleSession, MuxInv, TypeOK
  <2>2. /\ MuxMiddleware \in Served \cup {"denied"}
        /\ MuxMiddleware \in Served <=> Door!MayUse
    BY <2>1, ServedIffMayUse
  <2>3. DoorVerdict[s] = "none"
    BY <2>1, DoorVerdictOf
  <2> DEFINE v == IF Door!MayUse THEN "served" ELSE "refused"
  <2>4. DoorVerdict'[s] = v
    BY <2>1, <2>2 DEF DoorVerdict, Served
  <2>5. \A x \in Sessions \ {s} : DoorVerdict'[x] = DoorVerdict[x]
    BY <2>1 DEF DoorVerdict
  <2>6. /\ DoorVerdict = [x \in Sessions |-> DoorVerdict[x]]
        /\ DoorVerdict' = [x \in Sessions |-> DoorVerdict'[x]]
    BY DEF DoorVerdict
  <2> HIDE DEF v
  <2>7. DoorVerdict' = [DoorVerdict EXCEPT ![s] = v]
    BY <2>4, <2>5, <2>6
  <2>8. DoorCaller' = DoorCaller /\ DoorCaller # Door!Nobody
    BY <2>1, DoorOpen DEF DoorCaller
  <2>9. Door!Decide(s)
    BY <2>1, <2>3, <2>7, <2>8 DEF Door!Decide, v
  <2>10. QED
    BY <2>9 DEF Door!Next
<1>12. CASE UNCHANGED vars
  BY <1>12 DEF vars, Door!access, DoorCaller, DoorVerdict
<1>13. QED
  BY <1>1, <1>2, <1>3, <1>5, <1>6, <1>7, <1>8, <1>9, <1>10, <1>11, <1>12 DEF Next

\* The connection implements Access for every file, every set of credentials
\* and any number of sessions: whatever keys are queried, answers cached and
\* passwords tried (auth.go:33-62), it opens only for a caller with a proof the
\* file accepts, and MuxMiddleware decides each session by its first route.
THEOREM MuxRefinesAccess == Spec => RefinesAccess
<1>1. Spec => Door!Init
  BY DoorInit DEF Spec
<1>2. QED
  BY <1>1, DoorStep, MuxInvariant, PTL DEF Spec, RefinesAccess, Door!Spec
=============================================================================

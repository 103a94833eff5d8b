-------------------------------- MODULE Mux --------------------------------
(***************************************************************************)
(* The front end of sshmux from the start of the process to the handler of *)
(* a session: main.go and server.Run up to ListenAndServe, the user        *)
(* authentication of one connection (WithAuth and the callbacks it         *)
(* installs), the session request policy and MuxMiddleware.                *)
(*                                                                         *)
(* Connections share only the immutable configuration, so one connection   *)
(* at a time is enough; it may carry several sessions.  The authentication *)
(* loop of golang.org/x/crypto/ssh is external: it calls the callbacks,    *)
(* keeps the answer for the last public key it was shown, fixes the user   *)
(* after a partial success and hangs up after MaxAuthTries failures.       *)
(***************************************************************************)
EXTENDS Policy

CONSTANTS RawConfigs,    \* the configuration files the process may be given
          Sessions,      \* the sessions of a connection
          OwnedKeys,     \* the keys whose private half the client holds
          MaxAuthTries   \* failed attempts after which the library hangs up

ASSUME MuxAssumption == /\ RawConfigs \subseteq RawConfigType
                        /\ OwnedKeys \subseteq Keys
                        /\ MaxAuthTries \in Nat \ {0}

VARIABLES
    srv,        \* "stopped" or "serving"
    cfg,        \* the loaded configuration
    providers,  \* the route indices that have a provider
    conn,       \* the connection: "none", "first" (before the answer to the
                \* none method), "next" (the Next callbacks installed), "open"
    user,       \* the username of the connection
    pwCallback, \* whether Next holds a PasswordCallback
    cache,      \* the library's cache: the last key shown and the answer to it
    roles,      \* the roles stored in the ssh.Context
    authedBy,   \* the credential that completed authentication
    failures,   \* failed attempts
    outcome     \* what became of each session

vars == <<srv, cfg, providers, conn, user, pwCallback, cache, roles, authedBy,
          failures, outcome>>
server == <<srv, cfg, providers>>

NoUser  == "no user"
NoKey   == "no key"
NoCache == [key |-> NoKey, ok |-> FALSE]
Nothing == [method |-> "none"]
ByKey(k)      == [method |-> "publickey", key |-> k]
ByPassword(p) == [method |-> "password", password |-> p]

Outcome == {"idle", "requested", "refused", "denied", "proxy", "cloud",
            "unconfigured", "run", "unrouted"}
Served  == {"proxy", "cloud", "run"}

EmptyConfig == [Auth |-> <<>>, Routes |-> <<>>]

NoConnection ==
    /\ conn' = "none" /\ user' = NoUser /\ pwCallback' = FALSE /\ cache' = NoCache
    /\ roles' = {} /\ authedBy' = Nothing /\ failures' = 0
    /\ outcome' = [s \in Sessions |-> "idle"]

Init ==
    /\ srv = "stopped" /\ cfg = EmptyConfig /\ providers = {}
    /\ conn = "none" /\ user = NoUser /\ pwCallback = FALSE /\ cache = NoCache
    /\ roles = {} /\ authedBy = Nothing /\ failures = 0
    /\ outcome = [s \in Sessions |-> "idle"]

-----------------------------------------------------------------------------
(* Starting the process *)

\* main and server.Run: the process exits, and may be started again, when
\* the file does not load or a provider cannot be built.
Start(raw, token) ==
    /\ srv = "stopped"
    /\ LET c == Unmarshal(raw) IN
       IF Loads(raw) /\ BuildsProviders(c, token)
         THEN srv' = "serving" /\ cfg' = c /\ providers' = BuildProviders(c)
         ELSE UNCHANGED server
    /\ UNCHANGED <<conn, user, pwCallback, cache, roles, authedBy, failures, outcome>>

-----------------------------------------------------------------------------
(* Authentication *)

\* A client connects: WithAuth makes a ServerConfig around a new context.
Connect ==
    /\ srv = "serving" /\ conn = "none"
    /\ conn' = "first"
    /\ UNCHANGED <<server, user, pwCallback, cache, roles, authedBy, failures, outcome>>

\* The client goes away, or sends what makes the library hang up (another
\* username after the partial success, a signature that does not verify).
Disconnect == conn # "none" /\ NoConnection /\ UNCHANGED server

\* What the library does with a refused attempt; r is what the callback left
\* in the context and c what the library then has in its cache.
Failure(c, r) ==
    IF failures + 1 >= MaxAuthTries
      THEN NoConnection
      ELSE /\ failures' = failures + 1 /\ cache' = c /\ roles' = r
           /\ UNCHANGED <<conn, user, pwCallback, authedBy, outcome>>

\* What it does with an accepted one.
Success(c, r, credential) ==
    /\ conn' = "open" /\ authedBy' = credential /\ cache' = c /\ roles' = r
    /\ UNCHANGED <<user, pwCallback, failures, outcome>>

\* A method with no callback: anything but none before the partial success,
\* none after it, a password when there is no PasswordCallback.
UnofferedMethod ==
    /\ conn \in {"first", "next"}
    /\ Failure(cache, roles)
    /\ UNCHANGED server

\* The none method: NoClientAuthCallback and authCallbacks.
NoClientAuthCallback(u) ==
    /\ conn = "first"
    /\ user' = u
    /\ IF isPublic(cfg, u)
         THEN conn' = "open" /\ UNCHANGED pwCallback
         ELSE conn' = "next" /\ pwCallback' = passwordAllowedForUsername(cfg, u)
    /\ UNCHANGED <<server, cache, roles, authedBy, failures, outcome>>

\* The answer to a public key, and the roles in the context after it: the
\* library asks PublicKeyCallback unless the key is the one it asked last.
PublicKeyCallback(k) ==
    IF cache.key = k
      THEN [ok |-> cache.ok, roles |-> roles]
      ELSE LET granted == publicKeyRoles(cfg, k) IN
           IF accepts(cfg, user, granted)
             THEN [ok |-> TRUE, roles |-> granted]
             ELSE [ok |-> FALSE, roles |-> roles]

\* The client asks whether a public key, not necessarily its own, would do.
QueryKey(k) ==
    /\ conn = "next"
    /\ LET answer == PublicKeyCallback(k)
           shown  == [key |-> k, ok |-> answer.ok]
       IN  IF answer.ok
             THEN /\ cache' = shown /\ roles' = answer.roles
                  /\ UNCHANGED <<conn, user, pwCallback, authedBy, failures, outcome>>
             ELSE Failure(shown, answer.roles)
    /\ UNCHANGED server

\* The client signs with a key it holds.
SignKey(k) ==
    /\ conn = "next" /\ k \in OwnedKeys
    /\ LET answer == PublicKeyCallback(k)
           shown  == [key |-> k, ok |-> answer.ok]
       IN  IF answer.ok THEN Success(shown, answer.roles, ByKey(k))
                        ELSE Failure(shown, answer.roles)
    /\ UNCHANGED server

\* Mutant: the roles are stored before the route is checked.
PasswordCallbackRolesFirst(p) ==
    LET granted == passwordRoles(cfg, p) IN
    [ok    |-> accepts(cfg, user, granted),
     roles |-> IF rolesApply(granted) THEN granted ELSE roles]

\* The answer to a password, and the roles in the context after it.
PasswordCallback(p) ==
    LET granted == passwordRoles(cfg, p) IN
    IF accepts(cfg, user, granted)
      THEN [ok |-> TRUE, roles |-> granted]
      ELSE [ok |-> FALSE, roles |-> roles]

\* The client sends a password.
TryPassword(p) ==
    /\ conn = "next" /\ pwCallback
    /\ LET answer == PasswordCallback(p)
       IN  IF answer.ok THEN Success(cache, answer.roles, ByPassword(p))
                        ELSE Failure(cache, answer.roles)
    /\ UNCHANGED server

-----------------------------------------------------------------------------
(* Sessions *)

\* How MuxMiddleware disposes of a session: the handler it calls, or the
\* reason it exits with status 1.
MuxMiddleware ==
    LET i == findRouteIndex(cfg, user)
        route == cfg.Routes[i]
    IN  CASE i = 0 -> "unrouted"
          [] i # 0 /\ ~routeRoleAllowed(route, roles) -> "denied"
          [] i # 0 /\ routeRoleAllowed(route, roles) ->
               (CASE route.Proxy -> "proxy"
                  [] ~route.Proxy /\ route.Cloud # "" ->
                       IF i \in providers THEN "cloud" ELSE "unconfigured"
                  [] ~route.Proxy /\ route.Cloud = "" ->
                       IF route.Run THEN "run" ELSE "unrouted")

\* A shell or exec request: the SessionRequestCallback of
\* WithSessionRoutingPolicy refuses it when the username has no route.
SessionRequest(s) ==
    /\ conn = "open" /\ outcome[s] = "idle"
    /\ outcome' = [outcome EXCEPT ![s] = IF findRoute(cfg, user) THEN "requested" ELSE "refused"]
    /\ UNCHANGED <<server, conn, user, pwCallback, cache, roles, authedBy, failures>>

\* The handler of an admitted session runs in a goroutine of its own.
HandleSession(s) ==
    /\ conn = "open" /\ outcome[s] = "requested"
    /\ outcome' = [outcome EXCEPT ![s] = MuxMiddleware]
    /\ UNCHANGED <<server, conn, user, pwCallback, cache, roles, authedBy, failures>>

Next ==
    \/ \E raw \in RawConfigs, token \in BOOLEAN : Start(raw, token)
    \/ Connect
    \/ Disconnect
    \/ UnofferedMethod
    \/ \E u \in Usernames : NoClientAuthCallback(u)
    \/ \E k \in Keys : QueryKey(k) \/ SignKey(k)
    \/ \E p \in Passwords : TryPassword(p)
    \/ \E s \in Sessions : SessionRequest(s) \/ HandleSession(s)

Spec == Init /\ [][Next]_vars

-----------------------------------------------------------------------------
(* Properties *)

Credential == {Nothing} \cup {ByKey(k) : k \in Keys} \cup {ByPassword(p) : p \in Passwords}

\* The types of the variables; a provider belongs to a route of the file.
TypeOK ==
    /\ srv \in {"stopped", "serving"}
    /\ cfg \in ConfigType
    /\ providers \subseteq DOMAIN cfg.Routes
    /\ conn \in {"none", "first", "next", "open"}
    /\ user \in Usernames \cup {NoUser}
    /\ pwCallback \in BOOLEAN
    /\ cache \in [key: Keys \cup {NoKey}, ok: BOOLEAN]
    /\ roles \subseteq RoleString
    /\ authedBy \in Credential
    /\ failures \in 0 .. MaxAuthTries - 1
    /\ outcome \in [Sessions -> Outcome]

\* The roles the configuration gives to the credential that was proved.
CredentialRoles ==
    CASE authedBy.method = "none"      -> {}
      [] authedBy.method = "publickey" -> publicKeyRoles(cfg, authedBy.key)
      [] authedBy.method = "password"  -> passwordRoles(cfg, authedBy.password)

\* A key query stores roles in the context before anything is proved
\* (auth.go:42), and a later answer may come from the library's cache without
\* a callback.  However keys are queried, signed with and mixed with
\* passwords, an open connection has exactly the roles of the credential that
\* completed authentication.
RolesFollowCredential == conn = "open" => roles = CredentialRoles

\* i is the first route of the file that matches the user.
FirstRoute(i) ==
    /\ i \in DOMAIN cfg.Routes /\ Match(cfg.Routes[i].Username, user)
    /\ \A j \in 1 .. i - 1 : ~Match(cfg.Routes[j].Username, user)

\* Authentication accepts a credential that can reach any matching route
\* (auth.go:162), the router takes the first one whatever the roles
\* (router.go:79).  Together they hand a session to a handler exactly when the
\* first matching route is public or asks for a role of the proved credential.
DecisionMatchesCredential ==
    \A s \in Sessions : outcome[s] \notin {"idle", "requested"} =>
        (outcome[s] \in Served <=>
            \E i \in DOMAIN cfg.Routes :
                /\ FirstRoute(i)
                /\ cfg.Routes[i].Role \in {NoRole} \cup CredentialRoles)

\* MuxMiddleware's branches for a route with no provider or no target, for no
\* route at all, and the refusal of WithSessionRoutingPolicy are never taken:
\* validate, BuildProviders and authentication have excluded them.
SessionsReachAHandler ==
    \A s \in Sessions : outcome[s] \notin {"refused", "unconfigured", "unrouted"}

\* A handler runs without a credential only for a username none of whose
\* matching routes is protected.
UnauthenticatedOnlyWherePublic ==
    \A s \in Sessions : outcome[s] \in Served /\ authedBy = Nothing =>
        \A i \in DOMAIN cfg.Routes :
            Match(cfg.Routes[i].Username, user) => cfg.Routes[i].Role = NoRole

\* When password authentication is not offered, no password would have given
\* the role of a protected route that matches the user.
PasswordOfferedWhenUseful ==
    conn = "next" /\ ~pwCallback =>
        \A p \in Passwords, i \in DOMAIN cfg.Routes :
            Match(cfg.Routes[i].Username, user) =>
                cfg.Routes[i].Role \notin passwordRoles(cfg, p) \ {NoRole}

\* Who is in, as Access sees it: nobody before authentication is complete.
DoorCaller == IF conn = "open" THEN [user |-> user, proof |-> authedBy]
                               ELSE [user |-> "nobody"]

\* A session counts as decided once the router, or the request policy, has
\* disposed of it.
DoorVerdict ==
    [s \in Sessions |-> CASE outcome[s] \in {"idle", "requested"} -> "none"
                          [] outcome[s] \in Served -> "served"
                          [] OTHER -> "refused"]

Door == INSTANCE Access WITH policy <- cfg, caller <- DoorCaller, verdict <- DoorVerdict

\* However keys are queried, answers cached and passwords mixed in, the
\* connection implements Access: it opens only for a caller that has proved, by
\* a key it holds or a password, what the file asks of it, and each session is
\* decided once, by the first matching route.
RefinesAccess == Door!Spec

-----------------------------------------------------------------------------
(* The inductive invariant from which MuxProofs derives the properties.    *)

\* The configuration served has passed validate and every cloud route of it
\* has a provider; none is in force before.
ServedConfig ==
    /\ srv = "stopped" => cfg = EmptyConfig
    /\ srv = "serving" => validate(cfg) /\ providers = CloudRoutes(cfg)
    /\ conn # "none" => srv = "serving"

\* Before authentication is complete no session exists, and what the cache
\* accepts is what the context says.
Unauthenticated ==
    /\ conn # "open" => authedBy = Nothing /\ \A s \in Sessions : outcome[s] = "idle"
    /\ conn \in {"none", "first"} => cache = NoCache /\ roles = {}
    /\ conn = "next" => user \in Usernames /\ pwCallback = passwordAllowedForUsername(cfg, user)
    /\ conn = "next" /\ cache.ok =>
           roles = publicKeyRoles(cfg, cache.key) /\ accepts(cfg, user, roles)

\* An authenticated user has a route; without a credential all its routes are
\* public.
Authenticated ==
    conn = "open" =>
        /\ roles = CredentialRoles
        /\ usernameMatchingRoutes(cfg, user) # {}
        /\ authedBy = Nothing => isPublic(cfg, user)

\* A session was disposed of as it would be now.
Disposed == \A s \in Sessions : outcome[s] \in {"idle", "requested", MuxMiddleware}

MuxInv == TypeOK /\ ServedConfig /\ Unauthenticated /\ Authenticated /\ Disposed
=============================================================================

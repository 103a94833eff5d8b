------------------------------- MODULE Policy -------------------------------
(***************************************************************************)
(* The decisions of internal/server/auth.go and router.go as functions of  *)
(* the configuration: which authentication a username needs, which roles a *)
(* credential carries, and which route a session takes.                    *)
(*                                                                         *)
(* A []string of roles is a set: the code only asks whether it is empty    *)
(* and whether it contains a role.                                         *)
(***************************************************************************)
EXTENDS Config

\* The roles of the auth entries that satisfy Test.
RolesOf(c, Test(_)) ==
    UNION {c.Auth[i].Role : i \in {j \in DOMAIN c.Auth : Test(c.Auth[j])}}

-----------------------------------------------------------------------------
(* router.go *)

matchesRouteSession(route, username) == Match(route.Username, username)

routeRoleAllowed(route, roles) == route.Role = NoRole \/ route.Role \in roles

\* The indices of the routes whose username pattern matches.
usernameMatchingRoutes(c, username) ==
    {i \in DOMAIN c.Routes : Match(c.Routes[i].Username, username)}

\* Mutant: the last matching route instead of the first.
findRouteIndexLast(c, username) ==
    LET found == {i \in DOMAIN c.Routes : matchesRouteSession(c.Routes[i], username)} IN
    IF found = {} THEN 0 ELSE CHOOSE i \in found : \A j \in found : j <= i

\* The first route that matches, whatever the roles; 0 stands for nil, -1.
findRouteIndex(c, username) ==
    LET found == {i \in DOMAIN c.Routes : matchesRouteSession(c.Routes[i], username)} IN
    IF found = {} THEN 0 ELSE CHOOSE i \in found : \A j \in found : i <= j

findRoute(c, username) == findRouteIndex(c, username) # 0

-----------------------------------------------------------------------------
(* auth.go *)

\* Mutant: only the first of the matching routes is looked at.
routesArePublicFirst(c, routes) ==
    \A i \in routes : (\A j \in routes : i <= j) => c.Routes[i].Role = NoRole

routesArePublic(c, routes) == \A i \in routes : c.Routes[i].Role = NoRole

publicKeyRoles(c, key) ==
    LET Proves(entry) == /\ entry.Key.hasFingerprint \/ entry.Key.hasPublicKey
                         /\ entry.Key.key = key
    IN  RolesOf(c, Proves)

matchPassword(stored, password) == password \in stored.accepts

passwordRoles(c, password) ==
    LET Accepts(entry) == entry.Password.present /\ matchPassword(entry.Password, password)
    IN  RolesOf(c, Accepts)

passwordAuthRoles(c) ==
    LET HasPassword(entry) == entry.Password.present
    IN  RolesOf(c, HasPassword)

\* Mutant: only the first route of the file is looked at.
passwordAllowedForUsernameFirst(c, username) ==
    \E i \in DOMAIN c.Routes :
        /\ i = 1
        /\ Match(c.Routes[i].Username, username)
        /\ c.Routes[i].Role # NoRole
        /\ c.Routes[i].Role \in passwordAuthRoles(c)

passwordAllowedForUsername(c, username) ==
    \E i \in DOMAIN c.Routes :
        /\ Match(c.Routes[i].Username, username)
        /\ c.Routes[i].Role # NoRole
        /\ c.Routes[i].Role \in passwordAuthRoles(c)

canReachRoute(c, username, roles) ==
    \E i \in DOMAIN c.Routes :
        Match(c.Routes[i].Username, username) /\ routeRoleAllowed(c.Routes[i], roles)

\* authCallbacks' second result: the user may enter without a credential.
isPublic(c, username) ==
    LET candidates == usernameMatchingRoutes(c, username)
    IN  candidates # {} /\ routesArePublic(c, candidates)

\* Whether applyRoles stores the roles and returns true.
rolesApply(roles) == roles # {}

\* Mutant: a credential no entry knows is let in where some route is public.
acceptsStranger(c, username, roles) == canReachRoute(c, username, roles)

\* The condition under which PublicKeyCallback and PasswordCallback accept.
accepts(c, username, roles) == canReachRoute(c, username, roles) /\ rolesApply(roles)
=============================================================================

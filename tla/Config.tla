------------------------------- MODULE Config -------------------------------
(***************************************************************************)
(* The configuration file of sshmux (internal/config) and the providers    *)
(* built from it (internal/cloud/provider.go).  Everything here is a pure  *)
(* function of the file, evaluated once when the server starts.            *)
(*                                                                         *)
(* Strings are abstracted to what the program tells apart: a part of a     *)
(* username pattern to the set of usernames its glob or regular expression *)
(* matches, a key to its identity, a stored password to the set of         *)
(* passwords its hash accepts.                                             *)
(***************************************************************************)
EXTENDS Integers, Sequences

CONSTANTS Usernames,    \* the SSH usernames clients may present
          Roles,        \* the role names configurations use
          NoRole,       \* the empty role string
          Keys,         \* public keys, one per key pair
          Passwords     \* the passwords clients may send

ASSUME NoRoleAssumption == NoRole \notin Roles

-----------------------------------------------------------------------------
(* SSH keys: sshkey.go *)

\* What a key setting may hold, by the branch of ParseSSHKey it takes.
KeyForm == {"empty", "fingerprint", "private", "public", "unreadable", "malformed"}

RawKey == [form: KeyForm, key: Keys]

\* The parsed SSHKey; hasFingerprint, hasPublicKey and hasSigner stand for
\* the fields that are set, all of them about the same key.
SSHKey == [key: Keys, hasFingerprint: BOOLEAN, hasPublicKey: BOOLEAN, hasSigner: BOOLEAN]

\* A key file that cannot be read and a value no parser accepts are errors.
KeyParses(raw) == raw.form \notin {"unreadable", "malformed"}

ParseSSHKey(raw) ==
    [key            |-> raw.key,
     hasFingerprint |-> raw.form = "fingerprint",
     hasPublicKey   |-> raw.form \in {"private", "public"},
     hasSigner      |-> raw.form = "private"]

-----------------------------------------------------------------------------
(* Username patterns: pattern.go *)

\* One string of a pattern: whether it has the prefix !, whether it is
\* delimited by slashes, whether the glob or regular expression is well
\* formed, and the usernames it matches.
Part == [deny: BOOLEAN, regexp: BOOLEAN, wellFormed: BOOLEAN, names: SUBSET Usernames]

Pattern == [Allow: SUBSET Part, Deny: SUBSET Part,
            AllowRegexp: SUBSET Part, DenyRegexp: SUBSET Part]

\* A malformed regular expression is an error; a malformed glob is kept.
PatternCompiles(parts) == \A part \in parts : part.regexp => part.wellFormed

ParsePattern(parts) ==
    [Allow       |-> {part \in parts : ~part.regexp /\ ~part.deny},
     Deny        |-> {part \in parts : ~part.regexp /\ part.deny},
     AllowRegexp |-> {part \in parts : part.regexp /\ ~part.deny},
     DenyRegexp  |-> {part \in parts : part.regexp /\ part.deny}]

\* path.Match reports a malformed glob, which matchGlob takes as no match.
matchGlob(glob, value) == glob.wellFormed /\ value \in glob.names

Match(p, value) ==
    /\ \A deny \in p.Deny : ~matchGlob(deny, value)
    /\ \A deny \in p.DenyRegexp : value \notin deny.names
    /\ \/ \E allow \in p.Allow : matchGlob(allow, value)
       \/ \E allow \in p.AllowRegexp : value \in allow.names
       \/ p.Allow = {} /\ p.AllowRegexp = {}

-----------------------------------------------------------------------------
(* The file: config.go *)

\* A stored password: absent, or a hash that accepts some passwords (none if
\* no htpasswd parser understands it).
StoredPassword == [present: BOOLEAN, accepts: SUBSET Passwords]

RoleString == Roles \cup {NoRole}

AuthEntry == [Key: SSHKey, Password: StoredPassword, Role: SUBSET RoleString]

\* Run and Proxy say whether run.cmd and proxy.host are set.
RouteEntry == [Username: Pattern, Role: RoleString, Run: BOOLEAN, Proxy: BOOLEAN,
               ProxyKey: SSHKey, Cloud: {"", "unikraft", "other"}, MaxInstances: Int]

ConfigType == [Auth: Seq(AuthEntry), Routes: Seq(RouteEntry)]

\* A route names exactly one target.
OneTarget(route) ==
    \/ route.Run /\ ~route.Proxy /\ route.Cloud = ""
    \/ ~route.Run /\ route.Proxy /\ route.Cloud = ""
    \/ ~route.Run /\ ~route.Proxy /\ route.Cloud # ""

\* Mutant: a route that names no target is accepted.
validateAtMostOne(c) ==
    \A i \in DOMAIN c.Routes :
        LET route == c.Routes[i] IN
        /\ OneTarget(route) \/ (~route.Run /\ ~route.Proxy /\ route.Cloud = "")
        /\ route.Cloud \in {"", "unikraft"}
        /\ route.MaxInstances >= 0
        /\ ~route.ProxyKey.hasFingerprint

validate(c) ==
    \A i \in DOMAIN c.Routes :
        LET route == c.Routes[i] IN
        /\ OneTarget(route)
        /\ route.Cloud \in {"", "unikraft"}
        /\ route.MaxInstances >= 0
        /\ ~route.ProxyKey.hasFingerprint

\* A file as written: the shape of a Config with its keys and patterns unparsed.
RawAuth  == [Key: RawKey, Password: StoredPassword, Role: SUBSET RoleString]
RawRoute == [Username: SUBSET Part, Role: RoleString, Run: BOOLEAN, Proxy: BOOLEAN,
             ProxyKey: RawKey, Cloud: {"", "unikraft", "other"}, MaxInstances: Int]
RawConfigType == [Auth: Seq(RawAuth), Routes: Seq(RawRoute)]

\* UnmarshalStrict, which calls the UnmarshalJSON methods of keys and patterns.
Unmarshals(raw) ==
    /\ \A i \in DOMAIN raw.Auth : KeyParses(raw.Auth[i].Key)
    /\ \A i \in DOMAIN raw.Routes : /\ PatternCompiles(raw.Routes[i].Username)
                                    /\ KeyParses(raw.Routes[i].ProxyKey)

Unmarshal(raw) ==
    [Auth   |-> [i \in DOMAIN raw.Auth |->
                    [raw.Auth[i] EXCEPT !.Key = ParseSSHKey(@)]],
     Routes |-> [i \in DOMAIN raw.Routes |->
                    [raw.Routes[i] EXCEPT !.Username = ParsePattern(@),
                                          !.ProxyKey = ParseSSHKey(@)]]]

\* Load returns Unmarshal(raw) exactly when this holds, and an error otherwise.
Loads(raw) == Unmarshals(raw) /\ validate(Unmarshal(raw))

-----------------------------------------------------------------------------
(* provider.go: the routes that get a provider.  NewUnikraftProvider fails *)
(* when the environment holds no UKC_TOKEN.                                *)

CloudRoutes(c) == {i \in DOMAIN c.Routes : c.Routes[i].Cloud # ""}

BuildsProviders(c, token) ==
    \A i \in CloudRoutes(c) : c.Routes[i].Cloud = "unikraft" /\ token

\* Mutant: the providers are numbered from zero, the routes from one.
BuildProvidersOffByOne(c) == {i - 1 : i \in CloudRoutes(c)}

BuildProviders(c) == {i \in CloudRoutes(c) : c.Routes[i].Cloud = "unikraft"}
=============================================================================

------------------------------- MODULE MCMux -------------------------------
(* Configuration files and constants with which TLC checks Mux.            *)
EXTENDS Mux

MCUsernames == {"alice", "bob"}
MCRoles     == {"admin", "dev"}
MCKeys      == {"k1", "k2"}
MCOwnedKeys == {"k1"}
MCPasswords == {"p1", "p2"}
MCSessions  == {"s1", "s2"}

Glob(names)     == [deny |-> FALSE, regexp |-> FALSE, wellFormed |-> TRUE, names |-> names]
DenyGlob(names) == [Glob(names) EXCEPT !.deny = TRUE]
Regexp(names)   == [Glob(names) EXCEPT !.regexp = TRUE]
BadGlob         == [Glob({}) EXCEPT !.wellFormed = FALSE]
BadRegexp       == [BadGlob EXCEPT !.regexp = TRUE]

\* Everyone, alice by regular expression, everyone but alice.
UserPatterns == {{Glob(MCUsernames)}, {Regexp({"alice"})}, {DenyGlob({"alice"})}}

NoKeySet == [form |-> "empty", key |-> "k1"]
Route(username, role) ==
    [Username |-> username, Role |-> role, Run |-> TRUE, Proxy |-> FALSE,
     ProxyKey |-> NoKeySet, Cloud |-> "", MaxInstances |-> 0]

KeyEntry(form, k, role) ==
    [Key |-> [form |-> form, key |-> k], Password |-> [present |-> FALSE, accepts |-> {}],
     Role |-> role]
PasswordEntry(accepted, role) ==
    [Key |-> NoKeySet, Password |-> [present |-> TRUE, accepts |-> accepted], Role |-> role]

AuthLists ==
    {<<>>,
     <<KeyEntry("public", "k1", {"dev"})>>,
     <<KeyEntry("fingerprint", "k1", {"admin"}), KeyEntry("public", "k2", {"dev"})>>,
     <<KeyEntry("private", "k1", {NoRole}), PasswordEntry({"p1"}, {"admin"})>>,
     <<KeyEntry("public", "k1", {"admin"}), PasswordEntry({"p1"}, {"dev"}),
       PasswordEntry({}, {"admin"})>>,
     <<PasswordEntry({"p1"}, {"admin"}), PasswordEntry({"p1", "p2"}, {"dev"})>>,
     <<KeyEntry("public", "k2", {"admin"}), KeyEntry("fingerprint", "k1", {}),
       PasswordEntry({"p2"}, {"admin", "dev"})>>}

\* Every pair of patterns and roles, in both orders.
RunRoutes == {Route(u, r) : u \in UserPatterns, r \in MCRoles \cup {NoRole}}
RouteLists == {<<>>} \cup {<<a>> : a \in RunRoutes} \cup (RunRoutes \X RunRoutes)

\* Targets, valid and not, keys and patterns that do not parse.
Odd == LET base == Route({Glob(MCUsernames)}, NoRole) IN
    {[base EXCEPT !.Run = run, !.Proxy = proxy, !.Cloud = cloud] :
        run \in BOOLEAN, proxy \in BOOLEAN, cloud \in {"", "unikraft", "other"}}
    \cup {[base EXCEPT !.MaxInstances = -1], [base EXCEPT !.Username = {BadRegexp}],
          [base EXCEPT !.Username = {BadGlob, Glob({"bob"})}],
          [base EXCEPT !.Proxy = TRUE, !.Run = FALSE, !.ProxyKey.form = "fingerprint"],
          [base EXCEPT !.Proxy = TRUE, !.Run = FALSE, !.ProxyKey.form = "unreadable"],
          [base EXCEPT !.Proxy = TRUE, !.Run = FALSE, !.ProxyKey.form = "private"]}

MCRawConfigs ==
    {[Auth |-> a, Routes |-> r] : a \in AuthLists, r \in RouteLists}
    \cup {[Auth |-> <<>>, Routes |-> <<r>>] : r \in Odd}
    \cup {[Auth |-> <<>>, Routes |-> <<Route({Regexp({"alice"})}, NoRole), r>>] : r \in Odd}
    \cup {[Auth |-> <<KeyEntry("malformed", "k1", {"dev"})>>, Routes |-> <<>>]}
=============================================================================

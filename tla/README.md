# sshmux in TLA+

A verification project for `sshmux`, an SSH server that authenticates a client,
picks a route by username and role, and hands the session to a local command, to
a proxied SSH backend or to a cloud guest that it creates on demand. Everything
is translated from the Go code; `PROJECT.json` gives the source lines of every
definition, the runs, the mutants, the hazards and the theorems.

Run a check with `tlc -config MCMux.cfg MCMux` (and likewise for the other
configurations), a proof with `tlapm MuxProofs.tla`.

## The system

| Part | Source | State | Operations | Talks to |
| --- | --- | --- | --- | --- |
| Configuration | `internal/config` | none after `Load` | `Load`, `validate`, `ParsePattern`, `Match`, `ParseSSHKey` | read once at start by everything else |
| Providers | `internal/cloud/provider.go` | map from route index to provider | `BuildProviders` | configuration; used by the router |
| Authentication | `internal/server/auth.go`, `role.go` | roles in the connection's context | the callbacks for none, public key and password | called by the SSH library, in the order the client chooses |
| Router | `internal/server/router.go`, `server.go:111` | none | session request policy, `MuxMiddleware` | reads the roles; calls run, proxy or cloud |
| Server | `internal/server/server.go`, `cmd/sshmux` | signal count, shutdown channel | start, signals, shutdown | everything |
| Run command | `internal/server/cmd.go`, `pty.go` | PTY, copying goroutines | `runCmd`, `resizePty` | session, child process |
| Proxy | `internal/server/proxy.go` | backend session, signal channel | `proxySSHSession`, `dialBackend` | session, backend |
| Unikraft provider | `internal/cloud/unikraft.go` | random seed of the process | `Dial`, `getOrCreate`, `sshClient` | cloud platform, guests; many sessions at once |
| Guest | `support/guest` | counter, generation and timer under `idleMu` | sessions, idle timer | sshmux connects to it; exits by itself |
| Hello-world shell | `support/hello-world-shell` | overlay file system | file operations, commands | its client |

What is hard here:

* **Authentication.** The client chooses the order of messages. A mere *query*
  for a public key runs the callback that stores roles, and the library caches
  its answer. Authentication asks whether *any* matching route can be reached,
  the router takes the *first* matching one.
* **Provider.** Sessions call `Dial` concurrently; the steps look up, check the
  limit, create, look up again are separate calls to the platform with nothing
  held in between. Guests exit on their own, answers get lost, sshmux restarts
  with new keys while guests live on, a deadline races a retry loop.
* **Guest.** A timer callback that has already started waits for the mutex
  while sessions start and finish. What it runs for a session goes on when the
  session's client, or sshmux, is gone.
* **Handlers.** A command, what it leaves behind, the copies of its input and
  output, the client's connection and the signals it sends all end, or block, in
  any order; the handler must return in each and say what happened.
* **Shutdown.** Up to three signals with three meanings race a listener that is
  not registered yet or fails, handshakes under way and a timeout.
* **Overlay.** The shell's file system keeps one tree in three maps and a
  read-only base.

The properties that make the parts correct: a session is served only by the
route its proved credential allows (and is served when it does); the instance
limit and host keys hold, or fail only in a way that can be bounded; a dial
returns; a guest does not end under a session and does end when it is idle, also
when sshmux has forgotten it; a client gets all output before a status that does
not call a failure a success; a handler ends when its other side does and the
client takes what was printed; a signal ends the process; the shell's files are
one tree within a quota that holds what was written.

## Modules

| Module | What it models |
| --- | --- |
| `Config` | the configuration file, its parsing and validation, the providers built from it: pure operators |
| `Policy` | the decisions of `auth.go` and `router.go`: pure operators over a configuration |
| `Mux` | start, authentication of a connection, sessions up to their handler |
| `Guest` | the guest: configuration, idle timer, sessions |
| `CloudDial` | concurrent `Dial` calls, the platform's instances, restarts |
| `CloudGuest` | `CloudDial` composed with the guests: idle timeout from the configuration to the guest, sessions in guests, sessions left behind |
| `Session` | a connection and its session as the handlers see it: channel, context, signals, exit status |
| `RunCmd` | the handler of a run route |
| `ProxySession` | the handler of a proxy route (and the second half of a cloud route) |
| `ServerRun` | `server.Run` from its select on: signals, listener, shutdown; composed with a connection and its handler |
| `Paths` | paths and nodes, shared by the next two |
| `WriteFS` | the shell's overlay file system and the commands that change it |
| `Access` | abstract: who may enter and which session is served; `Mux` implements it |
| `GuestLife` | abstract: a guest lives while it has sessions and then ends; `Guest` implements it |
| `FileTree` | abstract: one tree of files and directories; `WriteFS` implements it |
| `MCMux`, `MCGuest`, `MCCloudDial`, `MCCloudGuest`, `MCServer`, `MCWriteFS` | values of the constants for TLC |
| `MuxProofs`, `GuestProofs`, `CloudDialProofs`, `CloudGuestProofs`, `ServerRunProofs`, `WriteFSProofs` | theorems and proofs about the module in the name |
| `SizeSums` | lemmas about sums over finite sets, for `WriteFSProofs` |

`Mux` extends `Policy`, which extends `Config`; `CloudGuest` extends `CloudDial`;
`ServerRun` extends `RunCmd` and `ProxySession`, which extend `Session`;
`WriteFS` and `FileTree` extend `Paths`. Each component module ends with
its properties, those with proofs also with the inductive invariant the proofs
use. Operators whose
comment begins with *Mutant:* are deliberately wrong versions of the definition
that follows; they are used only to show that a property can fail.

### Config and Policy

Strings become what the code tells apart: a part of a username pattern is the
set of usernames it matches with its flags (deny, regular expression, well
formed), a key is its identity with the fields that are set, a stored password
is the set of passwords it accepts. A list of roles is a set, since the code
only asks whether it is empty and whether it contains a role; an empty role
string is `NoRole`, and an auth entry may hold it. Route indices start at 1, and
0 stands for "no route". A malformed glob parses and matches nothing, a
malformed regular expression is an error, as in `pattern.go`.

### Mux

One connection at a time, with several sessions: connections share only the
configuration, which does not change. `Start` is `main.run` and `server.Run` up
to `ListenAndServe`; a host key that cannot be read or a port that cannot be
bound leaves the process stopped, which is a stutter. `conn` goes from `first`
(before the none method has been answered) to `next` (the callbacks of the
partial success are installed) to `open`.

The authentication loop of `golang.org/x/crypto/ssh` is external. What is
modelled of it: the none method runs `NoClientAuthCallback`; a query or a
signature for the key it was last shown is answered from its cache, any other
runs `PublicKeyCallback`; a signature needs the private key (`OwnedKeys`); a
refused attempt counts, and after `MaxAuthTries` of them, or on a username that
differs after the partial success, the connection ends. The variable `authedBy`
records the credential that completed authentication.

### Guest

Every critical section of `idleMu` is one step. A timer that expires becomes a
member of `fired`: its callback runs but does not yet hold the mutex. `events`
and `exitAt` are history variables: the number of session starts and ends, and
its value when the timer that ended the guest was armed. Without a PTY,
`cmd.Wait` also waits for the goroutines that copy the session's input and
output (`WaitReturns`), so a finished command is not reported while the client's
input stays open. Commands, their descendants and clients are external.

### CloudDial

Within one provider an instance name is a hash of the username, so users stand
for names. The keys of a guest are derived from the provider's seed and the
name, so two keys agree when their seeds do; the seed is the number of restarts
so far. Each call to the platform is one step. A `create` may succeed while its
answer is an error (`lost`). A request of a process that dies is taken to have
reached the platform before the restart or not at all. `Faults` says what may go
wrong, so that a run can ask what holds when nothing does.

The `select` of `Dial` takes a channel that is ready when it is entered and
otherwise the first that becomes ready. That the goroutine sleeps more than
500 ms between evaluating `time.After` and blocking is left out. The handshake
has no timeout in the code; the model assumes that it ends.

### CloudGuest

`session_ttl` is followed from the file (`Duration.UnmarshalJSON`: what is
refused, and the sign of what is not) through the default of
`NewUnikraftProvider` and `GUEST_IDLE_TIMEOUT` to the guest's `parseIdleTimeout`,
which takes a non-positive value as fatal. A connected call has a session:
`opening` until the guest's `sessionStarted`, `serving` after it, `cut` when the
guest or the connection to it is gone. `orphans` are the sessions a guest still
serves for nobody: the code that runs a session's command (`exec.Command` without
a context) never learns that its client has gone, so a session whose sshmux has
restarted, or whose connection broke, counts as active until its command ends.
A client that leaves sshmux changes nothing here: `proxySSHSession` goes on
waiting for the backend. A guest behaves as `GuestLife` says, which the `guest`
run shows of `Guest`; at most one orphan per call slot and guest is kept apart.

### Session, RunCmd, ProxySession and ServerRun

One connection with one session, handled by `runCmd` or by `proxySession`; a
handler never looks at another session. `charmbracelet/ssh` is external. What is
modelled of it: a connection is tracked once its handshake is done; its end
cancels the context and closes the channel; `Exit` sends a status and closes the
channel; signals are handed over by the loop that reads the session's requests,
which holds the session's lock while the channel it sends into is full (`locked`),
and `Signals(nil)` needs that lock; `Shutdown` closes the listeners it knows of,
waits for their loops and then for tracked connections, but for no handler;
`Close` also closes the tracked connections.

`out` is output on its way to the client, `child` a descendant of the command
that still holds its output. With a PTY `runCmd` waits for the command and then
for the copy of its output; without one `Wait` waits for the copies of output
*and* input. `backend.Wait` waits for the output and reports, where the status is
0, a copy that failed: of output to a client that is gone, or of input to a backend
that has ended (`copyFailed`, which `RunCmd` has too). When the handler of a proxy
or cloud route returns an error, the router prints it to the client before it sends
the status (`returned`); as any output, that waits for the client. The process ends
when `Run` returns, whatever its handlers are
doing: `Next` asks for `Alive`, and the properties of handlers say "or the
process has ended".

### WriteFS

A path is the sequence of its components, a file a sequence of chunks of equal
size, so that quota and lengths are numbers of chunks. The shell is sequential
and a command that fails changes nothing. `WriteFile` is modelled with the
behaviour of an empty written file, which `append([]byte(nil), data...)` keeps as
nil and the next append takes for a file never written. Three uses are outside
what one tree does: moving a directory made with `mkdir` (it reads as an empty
file), moving a file onto itself (it is gone), and that append. The history
variable `careful` records whether one of them has happened; from then on
`FileTree` promises nothing (`Lost`). The first two are how the code treats a
request no document mentions; the third contradicts the shell's own test and is
a finding. What a command prints is nothing, a chunk or what a file holds
(`Outputs`).

### The abstract specifications

* `Access` knows the configuration, who has entered on which proof, and a verdict
  for each session. Its `Gives` and `MayUse` quantify over the file and share
  nothing with `Policy` but `Match`. In `Mux`, key queries, failed attempts,
  session requests are stutters; a connection that opens is `Enter`, the router's
  decision is `Decide`.
* `GuestLife` has the life of the guest and the set of sessions it serves. In
  `Guest`, timers, callbacks and everything a session does between its start and
  end are stutters. Its fairness (a guest left alone ends) is part of what is
  refined; `SafeSpec` is the rest, which is proved.
* `FileTree` is a function from paths to nodes; each command changes one node, or
  two for a move. A write leaves exactly what a command can produce from the tree
  (`Data`), or adds it to what the file held, so that an overlay that brings back
  what was hidden, or mixes in what the tree does not show, does not implement it.

## Runs

| Run | Checks | Shows |
| --- | --- | --- |
| `mux` | `TypeOK`, `RolesFollowCredential`, `DecisionMatchesCredential`, `SessionsReachAHandler`, `UnauthenticatedOnlyWherePublic`, `PasswordOfferedWhenUseful`, `RefinesAccess` | authentication, roles and routing agree with the configuration in every order of messages |
| `guest` | `TypeOK`, `NoExitDuringSession`, `FullIdlePeriod`, `CounterExact`, `IdleTimerPending`, `ZeroMeansSuccess`, `IdleGuestExits`, `RefinesGuestLife` | the idle timer is right in every interleaving, exit status 0 means success |
| `guest_command` | `CommandHonoured` (violated) | with a PTY the requested command is dropped |
| `cloud_dial` | `TypeOK`, `LimitOvershootBounded`, `MismatchOnlyAfterRestart`, `DialReturns` | the overshoot of `max_instances` is bounded by the concurrency; every call returns; only restarts cause host key mismatches |
| `cloud_calm` | `DialConnects` | without faults every call connects, however creations race |
| `cloud_max` | `InstancesWithinLimit` (violated) | two sessions that start together exceed `max_instances` |
| `cloud_own` | `LimitSparesOwnGuest` (violated) | a user's second session is refused because of the user's own new guest |
| `cloud_restart` | `ExistingGuestAccepted` (violated) | after a restart a running guest is refused for its host key |
| `cloud_guest` | `GuestTypeOK`, `ServedByLiveGuest`, `FatalOnlyWhenNegative`, `UnusedGuestExits`, `RefusalsEnd` | a session being served has a live guest with the right keys; an unused guest goes away, also one a restart has left behind; refused handshakes do not keep it |
| `server` | `TypeOK`, `ZeroMeansSuccess`, `OutputBeforeStatus`, `HangupEndsRun`, `BackendEndsProxy`, `SignalsNotLost`, `ShutdownCompletes`, `OkMeansDrained` | a handler ends when its connection or backend does, unless the client leaves output untaken, and reports what happened; signals end the process, and `Run` reports success only when the connection that was up as `Shutdown` was called has ended, by itself or forced closed by the third signal |
| `writefs` | `TypeOK`, `QuotaHolds`, `CountedFilesReadable`, `TreeShape`, `WriteStores`, `RefinesFileTree` | the overlay keeps its quota, holds what was written and appended, and is one tree for a careful user |
| `writefs_append` | `AppendExtends` (violated) | appending to an emptied embedded file brings its content back |

`OkMeansDrained` says nothing of a connection that is still in its handshake when
`Shutdown` is called: the library does not track it yet, `Shutdown` does not wait
for it, and the end of the process cuts it off. `WriteStores` and `RefinesFileTree`
complement each other: the first says what a given `>` or `>>` leaves at its
target, the second that every command, also `rm` and `mv`, leaves the rest alone.

The violated properties state what the repository's README or, for
`writefs_append`, a test of the shell says; each is a finding in `PROJECT.json`.

### Bounds

* `mux`: 674 configuration files: every list of at most two run routes over
  three patterns (everyone, one user by regular expression, everyone but one)
  and three roles (none and two), in both orders, with seven auth lists (keys by
  fingerprint, public and private key, empty roles, no roles, passwords that
  overlap, a hash nobody understands), and files with every combination of
  targets, bad keys, bad patterns and a negative limit. Two routes suffice for
  everything that depends on "first" against "any". Two users, two keys of which
  the client owns one, two passwords, two sessions. `MaxAuthTries` is 4, where
  the library has 6: two failures with cache effects in between and a success
  already fit.
* `guest`: two sessions, which is enough for a late callback to meet a complete
  session and the next idle period. Exit codes 0 and -1 (a signal).
  `Uint32Values` is 256 for TLC; the theorems hold for 2^32.
* `cloud_dial`: two calls at a time, three users, a limit of one, a restart and
  every fault but answers without data (with those there is no limit to hold):
  the bound of two instances is reached and a third user is there to exceed it.
  `cloud_calm`: three calls for two users, no limit.
* `cloud_guest`: one user, two calls, two restarts, every `session_ttl` that
  parses, no limit. Without a limit users do not affect each other. With two
  restarts a guest may be older than one process and a call may meet the guest
  of either. Faults: answers without data, crashes, broken connections, slow
  guests, clients that leave, restarts.
* `server`: `SigCap` is 1 where the code has 16 (the channel is full after one
  signal, and any number may follow), `MaxSignals` 3: every signal the code tells
  apart. One piece of output at a time may be on its way, again and again.
* `writefs`: five paths on two levels (the root, two names in it, the same two in
  one of them), an embedded directory with a file of two chunks, which no `echo`
  prints, two kinds of chunks, a quota of three chunks: a file can fill it alone or
  together with another, and the embedded file can be appended to.

`CHECK_DEADLOCK FALSE` in the runs of the guest and the server: both end.

### Fairness

* `Guest`: the runtime fires an expired timer and runs every runnable goroutine
  (weak fairness of the timer, its callback and each session's handler). Nothing
  is assumed of commands and clients, so `IdleGuestExits` speaks of guests whose
  counter stays at zero.
* `CloudDial`: the goroutine of a call runs; platform calls, connections and
  handshakes end one way or another; the deadline timer expires. That guests
  boot is assumed only when `slow` is not among the faults, in `cloud_calm`.
* `CloudGuest`: the same for calls; a guest boots or refuses its configuration;
  and what `GuestLife` promises, which `Guest` is shown to keep: a guest that
  stays without a session ends. Commands and clients owe nothing, so
  `UnusedGuestExits` and `RefusalsEnd` speak of guests in which no session is
  left. A command that never ends keeps its guest for ever.
* `ServerRun`: every runnable goroutine runs (each has a weak fairness condition
  of its own), the timer of `Shutdown` expires. The goroutine that waits for the
  session's lock has strong fairness: Go's mutexes hand the lock to a waiter
  that has waited long, so that a loop that takes it again and again does not
  starve it. Clients, commands, descendants and backends owe nothing. In
  particular a client need not read: output for an open channel may wait for ever
  in the SSH window, so writing it is fair only once the channel is closed, and
  `BackendEndsProxy` excepts a client that leaves output untaken (`Unread`). Nor
  need a backend answer: the steps of the handler that ask it something
  (`AskBackend`) have no fairness. What needs no answer and no window, a status or
  a signal, is taken to be sent.

## Proofs

Every invariant and every action property that a passing run checks is also a
theorem, and so are the refinements of `Access` and `FileTree` and the safety
part of that of `GuestLife`. They hold for every value of the constants that
satisfies the named assumptions: `MuxAssumption`, `NoRoleAssumption`,
`GuestAssumption` (finitely many sessions, exit codes from -1 to 255, more than
255 values of a status), `CloudAssumption` (finitely many users and calls),
`SessionAssumption` (the signal channel has room for one signal),
`ServerAssumption` (a natural number of signals) and `PathsAssumption` (the names
are closed under `Dir` and the base is a tree). TLC evaluates each in a run. Each
module proves that its inductive invariant holds initially and is kept by every
action, and derives the properties.

* **`MuxInv`.** `RolesFollowCredential` alone is not inductive: a signature is
  answered from the cache, so one must know that an accepting cache entry agrees
  with the roles in the context (`Unauthenticated`). That a session reaches a
  handler needs what start established (`ServedConfig`: the configuration is
  valid and its cloud routes are the ones with providers) and that an
  authenticated user has a route (`Authenticated`). `Disposed` ties each
  session's outcome to `MuxMiddleware`.
  *`MuxRefinesAccess`*: that a connection opens only for who may enter, and a
  session is served exactly when the first route allows it, is proved between the
  operators of `Policy`, which pick a route, and the quantifiers of `Access` (`GivesRoles`,
  `ServedIffMayUse`, `AcceptedMayEnter`, `PublicMayEnter`); the rest of `Mux`
  leaves `DoorCaller` and `DoorVerdict` alone.
* **`GuestInv`.** `TimerInv` says that a timer or callback of the current
  generation belongs to the idle period that began with the last session event,
  and that all others are older; with `CounterExact`, proved by counting the
  sessions between start and finish, this gives the rest.
  *`GuestRefinesLife`*: a start or finish that holds the mutex is a step of
  `GuestLife`, and the exit of an idle guest is one because the counter is exact.
* **`CloudInv`.** A call that passes the limit check has seen fewer than
  `max_instances` instances; from then on a created instance replaces the call
  that was about to create it, so the sum only falls until the next check. No
  guest has a seed that is still to be drawn, so a guest whose keys differ is an
  older one (`MismatchOnlyAfterRestart`, an action property).
* **`CloudGuestInv`.** `CloudInv` is kept by what guests do on their own, since an
  instance that ends only lowers the number (`ExitKeepsInv`). `ServedByLiveGuest`
  is not inductive: a session is opened before it is served, so its guest must be
  there from the opening on (`LiveSessions`); a guest that ends takes its sessions
  along, a call never replaces an instance that is up, and a restart, which
  changes the keys, ends every session.
  *`CompositionImplementsCloudDial`*: with guests that may exit among the faults,
  every step of the composition is a step of `CloudDial`, so what is proved of
  `CloudDial` holds of the composition. The bound on the instances and
  `MismatchOnlyAfterRestart` are proved of the composition without that
  assumption too.
* **`ServerInv`.** In two halves that hardly share a variable. `SessionInv`: at
  each point of a handler what has been started, waited for and copied
  (`HandlerInv`, `RunInv`, `BackendInv`); it gives `ZeroMeansSuccess` and, for the
  step that sends the status, `OutputBeforeStatus`. The steps of the proxy handler
  share two lemmas, for going on (`ProxyMoves`) and for returning to the router
  (`ProxyReturns`). `ControlInv`: what `Shutdown`
  has seen of the connection (`ShutdownInv`), and `SignalsNotLost`, which is
  inductive as it stands.
* **`OverlayInv`.** `TypeOK` and `QuotaHolds` need each other (a file is in
  `Contents` because it fits beside the others), and finitely many files. The sum
  of their sizes is `MapThenSumSet`, a recursive function over sets that takes
  elements in an arbitrary order; `SizeSums` proves that the function exists, that
  the order does not matter, and what one more or one less file does to the sum.
  Induction is had from the least-number principle (`NatLessThanWellFounded` and
  `WFMin` of the library): each fact is proved by refuting a smallest set for which
  it fails. The shape of the tree needs that written files, made directories and
  removed names stay apart (`CountedFilesReadable`, `DirsThere`): without
  `DirsThere` a write to a removed name could be hidden by an old directory.
  *`WriteFSRefinesFileTree`*: for each command a lemma says what it changes of the
  tree (`WriteBecomes` to `RenameBecomes`), from which both `TreeShape` and the
  step of `FileTree` follow. That a write stores what it should (`StoredIs`, from
  which *`WriteFSStores`* follows too) needs `CountedFilesReadable`: where no file
  is found, nothing is in `files` for an append to start from.

Only model-checked: the liveness properties (`IdleGuestExits`, `DialReturns`,
`DialConnects`, `UnusedGuestExits`, `RefusalsEnd`, `HangupEndsRun`,
`BackendEndsProxy`, `ShutdownCompletes`, and the fairness of `GuestLife` in
`RefinesGuestLife`), which are out of the prover's reach; and the violated
properties, for which a counterexample is the result.

## Not modelled, and the plan

Left out for good:

* text: log lines, error wording, the environment of commands, command line
  flags, terminal modes;
* window changes (`resizePty` and the loops over `winCh`): they change the size of
  a terminal and nothing else. One hazard goes with them: with `pty: false` and
  a client that has a PTY nobody reads `winCh`, and the loop that reads the
  session's requests blocks as it does for a full signal channel;
* the shell's parser, variables, working directory and the output of `ls`, `grep`
  and the like: text processing over `WriteFS`, in a sequential program;
* the protocol inside the SSH library, HTTP and TLS.

What is left for proofs, in this order:

1. That the guests in `CloudGuest` live as `GuestLife` says: today the two are
   connected by the fairness `CloudGuest` takes from `GuestLife`, not by a
   refinement. `GuestLife` is one guest from start to end; a user of `CloudGuest`
   has several, one after the other, and they may crash, so the mapping needs the
   current guest of each user and a step for the crash.
2. The safety facts the liveness properties rest on (a call that waits has a
   deadline, a guest without a session has a timer, a handler that waits has
   something that still ends), as invariants of `CloudDial` and `ServerRun`.

---------------------------- MODULE ProxySession ----------------------------
(***************************************************************************)
(* The handler of a proxy route (internal/server/proxy.go): dialBackend    *)
(* and proxySSHSession, which also serves cloud routes.  Signals go to the *)
(* backend through a channel and a goroutine that forwards them.           *)
(***************************************************************************)
EXTENDS Session

VARIABLES
    backend,  \* the backend's session: "none", "open", "running" or "ended"
    sigFwd    \* the goroutine that forwards signals is running

proxy == <<backend, sigFwd>>

ProxyInit == backend = "none" /\ sigFwd = FALSE

-----------------------------------------------------------------------------
(* dialBackend.  A route is abstracted to what its checks tell apart.      *)

ProxyRoute == [key: {"zero", "fingerprint", "public", "private"},
               password: BOOLEAN,
               hostKey: {"none", "malformed", "pinned"}]

\* Only a key with a private half can sign.
proxySigner(key) == key = "private"

\* At least one method; a key that cannot sign is an error, not a fallback.
proxyAuthMethods(r) == IF r.key = "zero" THEN r.password ELSE proxySigner(r.key)

proxyHostKeyParses(r) == r.hostKey # "malformed"

\* Without pinned keys every host key is accepted.
proxyHostKeyAccepts(r, known) == r.hostKey = "none" \/ known

\* known: the backend's key is one of those pinned; reached: it answers within
\* the timeout and accepts the credential.
dialBackend(r, known, reached) ==
    proxyAuthMethods(r) /\ proxyHostKeyParses(r) /\ reached /\ proxyHostKeyAccepts(r, known)

-----------------------------------------------------------------------------
(* proxySSHSession *)

Step(l) == pc' = l /\ UNCHANGED <<link, status>>

\* The handler returns to the router, which prints an error to the client.
Return(err) == Step("returned") /\ ended' = err /\ out' = (err # "nil")

\* An error before the signals are registered.
FailProxy == Return("other") /\ UNCHANGED <<handing, sigCh, proxy>>

Proceed(l) == Step(l) /\ UNCHANGED <<handing, out, ended>>

DialBackend ==
    /\ kind = "proxy" /\ pc = "routed"
    /\ \E r \in ProxyRoute, known, reached \in BOOLEAN :
         IF dialBackend(r, known, reached) THEN Proceed("dialed") /\ UNCHANGED <<sigCh, proxy>>
                                           ELSE FailProxy

\* NewSession and the environment, which may be refused without consequence.
NewBackendSession(ok) ==
    /\ pc = "dialed"
    /\ IF ok THEN Proceed("opened") /\ backend' = "open" /\ UNCHANGED <<sigCh, sigFwd>>
             ELSE FailProxy

\* RequestPty, if the client has a PTY; then the signals.
Forward(pty, ok) ==
    /\ pc = "opened" /\ (~pty => ok)
    /\ IF ok THEN /\ Proceed("wired")
                  /\ sigCh' = TRUE /\ sigFwd' = TRUE
                  /\ UNCHANGED backend
             ELSE FailProxy

\* Start or Shell; after an error only the deferred calls are left.
StartBackend(ok) ==
    /\ pc = "wired"
    /\ IF ok THEN Step("waiting") /\ backend' = "running" /\ UNCHANGED ended
             ELSE Step("unwinding") /\ ended' = "other" /\ UNCHANGED backend
    /\ UNCHANGED <<handing, out, sigCh, sigFwd>>

BackendPrints ==
    /\ backend = "running" /\ ~out
    /\ out' = TRUE
    /\ UNCHANGED <<link, handing, pc, status, sigCh, ended, proxy>>

\* The backend's session ends with a status, for a signal, or because its
\* connection is lost.
BackendEnds(how) ==
    /\ backend = "running"
    /\ backend' = "ended" /\ ended' = how
    /\ UNCHANGED <<link, handing, pc, status, out, sigCh, sigFwd>>

\* Output, or the router's message, reaches the client, or is lost where the
\* channel is closed.  Until the client takes it the write waits.
ForwardOutput ==
    /\ kind = "proxy" /\ out
    /\ out' = FALSE
    /\ UNCHANGED <<link, handing, pc, status, sigCh, ended, proxy>>

\* backend.Wait waits for the status and for the copies of the output; that of
\* the input ends as soon as there is a status.
BackendDone == backend = "ended" /\ ~out

\* Where the status is 0, Wait reports a copy that failed: of the output, as
\* the client is gone, or of input the backend did not take.
WaitBackend(copyFailed) ==
    /\ pc = "waiting" /\ BackendDone
    /\ Step("unwinding")
    /\ ended' = IF copyFailed /\ ended = "nil" THEN "other" ELSE ended
    /\ UNCHANGED <<handing, out, sigCh, proxy>>

\* The deferred calls: Signals(nil), which needs the session's lock, and the
\* closing of session and client.
Unwind ==
    /\ pc = "unwinding" /\ ~locked
    /\ sigCh' = FALSE
    /\ Return(ended)
    /\ UNCHANGED <<handing, proxy>>

\* The router, or the library after it, sends the status.
ExitProxy ==
    /\ pc = "returned" /\ ~out
    /\ Exit(Result(ended))
    /\ UNCHANGED <<handing, out, sigCh, ended, proxy>>

\* Mutant: the forwarder gives up when the backend no longer takes signals.
ForwardSignalOnce ==
    /\ sigFwd /\ sigs > 0
    /\ sigs' = sigs - 1
    /\ sigFwd' = (backend # "ended")
    /\ UNCHANGED <<link, pc, status, out, locked, sigCh, ended, backend>>

\* The range over sigCh: the error of a backend that has ended is ignored.
\* Nothing closes sigCh, so that this goroutine never ends.
ForwardSignal ==
    /\ sigFwd /\ sigs > 0
    /\ sigs' = sigs - 1
    /\ UNCHANGED <<link, pc, status, out, locked, sigCh, ended, proxy>>

\* The handler's steps that wait for an answer of the backend.
AskBackend ==
    \/ DialBackend
    \/ \E pty, ok \in BOOLEAN : NewBackendSession(ok) \/ Forward(pty, ok) \/ StartBackend(ok)

\* Those that only need the handler to run.
ProxyHandler == ExitProxy \/ \E copyFailed \in BOOLEAN : WaitBackend(copyFailed)

ProxyNext ==
    \/ AskBackend \/ ProxyHandler \/ Unwind \/ ForwardOutput \/ ForwardSignal
    \/ BackendPrints \/ \E how \in {"nil", "exit", "other"} : BackendEnds(how)
=============================================================================

------------------------------ MODULE Session ------------------------------
(***************************************************************************)
(* One SSH connection and the session it carries, as the handlers of       *)
(* internal/server see them.  The library (charmbracelet/ssh) is external: *)
(* it reads the requests of a session one after the other and hands        *)
(* signals over through a channel, waiting with the session's lock held    *)
(* while it is full; the session's context is that of its connection; Exit *)
(* sends a status and closes the session's channel.  RunCmd and            *)
(* ProxySession are the two kinds of handler.                              *)
(***************************************************************************)
EXTENDS Integers

CONSTANT SigCap   \* the capacity of sigCh (16 in proxySSHSession)

ASSUME SessionAssumption == SigCap \in Nat \ {0}

VARIABLES
    conn,     \* "none", "handshake", "up" (tracked by the server) or "closed"
    chan,     \* the session's channel: "none", "open" or "closed"
    kind,     \* the handler the router chose: "none", "run" or "proxy"
    pc,       \* where the handler is
    status,   \* the exit status that was sent
    input,    \* the client may still send input
    out,      \* output on its way to the client
    locked,   \* the library's loop is handing a signal over, with the lock
    sigs,     \* signals in sigCh
    sigCh,    \* whether s.Signals has a channel
    ended     \* how the command, or the handler of a proxied session, ended

link    == <<conn, chan, kind, input>>
handing == <<locked, sigs>>
session == <<link, handing, pc, status, out, sigCh, ended>>

NoStatus == -2
Done     == pc = "done"

SessionInit ==
    /\ conn = "none" /\ chan = "none" /\ kind = "none" /\ input = TRUE
    /\ pc = "none" /\ status = NoStatus /\ out = FALSE
    /\ locked = FALSE /\ sigs = 0 /\ sigCh = FALSE
    /\ ended = "none"

\* The context of the session is done.
Cancelled == conn = "closed"

\* A client opens a session and the router picks its handler.
OpenSession(k) ==
    /\ conn = "up" /\ chan = "none"
    /\ chan' = "open" /\ kind' = k /\ pc' = "routed"
    /\ UNCHANGED <<conn, status, input, out, handing, sigCh, ended>>

\* The client ends its input, or the channel.
InputEnds ==
    /\ chan = "open" /\ input
    /\ input' = FALSE
    /\ UNCHANGED <<conn, chan, kind, pc, status, out, handing, sigCh, ended>>

\* The connection has ended, for whatever reason: so has its channel.
ConnectionEnds ==
    /\ conn' = "closed"
    /\ chan' = IF chan = "open" THEN "closed" ELSE chan
    /\ input' = FALSE
    /\ UNCHANGED <<kind, pc, status, out, handing, sigCh, ended>>

\* The client sends a signal; it counts only where a channel is registered.
SignalArrives ==
    /\ chan = "open" /\ ~locked /\ sigCh
    /\ locked' = TRUE
    /\ UNCHANGED <<link, pc, status, out, sigs, sigCh, ended>>

\* The loop sends the signal into the channel once there is room.
HandOver ==
    /\ locked /\ sigs < SigCap
    /\ sigs' = sigs + 1 /\ locked' = FALSE
    /\ UNCHANGED <<link, pc, status, out, sigCh, ended>>

\* The handler returns with Exit(code), which closes the channel.
Exit(code) ==
    /\ pc' = "done" /\ status' = code
    /\ chan' = "closed"
    /\ UNCHANGED <<conn, kind, input>>

\* How a command or a backend's session ended, as the error of Wait: none, an
\* ExitError with a status or for a signal, or another error.
Endings == {"nil", "exit", "signal", "other"}

\* Mutant: an error that carries no code counts as success.
ExitCodeOfNone(err) == CASE err = "exit" -> 3 [] err = "signal" -> -1 [] OTHER -> 0

\* Mutant: an error that carries no code has the status ssh itself uses.
ExitCode255(err) == CASE err = "exit" -> 3 [] err = "signal" -> -1 [] OTHER -> 255

\* 3 stands for any status a program chooses; -1 is what ExitError.ExitCode
\* gives for a signal.
ExitCode(err) == CASE err = "exit" -> 3 [] err = "signal" -> -1 [] OTHER -> 1

\* What the router, or the library after it, hands to Exit.
Result(err) == IF err = "nil" THEN 0 ELSE ExitCode(err)
=============================================================================

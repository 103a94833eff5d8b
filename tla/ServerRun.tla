----------------------------- MODULE ServerRun -----------------------------
(***************************************************************************)
(* server.Run from its select on (internal/server/server.go): the signals  *)
(* that shut the server down, ListenAndServe in a goroutine of its own,    *)
(* Shutdown and its timeout, composed with a connection and the handler of *)
(* its session.  The server of charmbracelet/ssh is external: it tracks a  *)
(* connection once its handshake is done; Shutdown closes the listeners it *)
(* knows of and waits for their loops and then for the tracked             *)
(* connections, but for no handler; Close also closes the tracked          *)
(* connections.                                                            *)
(***************************************************************************)
EXTENDS RunCmd, ProxySession

CONSTANT MaxSignals   \* bound: the signals the process is sent

ASSUME ServerAssumption == MaxSignals \in Nat

VARIABLES
    main,      \* Run: "select", "shutdown" or "returned", when the process ends
    result,    \* what Run returned: "none", "ok", "server error" or "timeout"
    sent,      \* history: the signals sent to the process
    signals,   \* signals waiting in the channel
    count,     \* the variable of the signal goroutine
    listener,  \* "starting", "listening", "closing", "closed" or "failed"
    drain,     \* Shutdown's goroutine: "off", "listeners", "connections", "finished"
    busy       \* history: a connection was tracked when Shutdown was called

control == <<main, result, sent, signals, count, listener, drain, busy>>
vars    == <<session, run, proxy, control>>

Init ==
    /\ SessionInit /\ RunInit /\ ProxyInit
    /\ main = "select" /\ result = "none"
    /\ sent = 0 /\ signals = 0 /\ count = 0
    /\ listener = "starting" /\ drain = "off" /\ busy = FALSE

Tracked == conn \in {"up", "dropped"}

-----------------------------------------------------------------------------
(* Signals *)

\* Mutant: the channel holds a single signal.
SignalBufferOne == 1

SignalBuffer == 3   \* signal.Notify drops what does not fit

SendSignal ==
    /\ sent < MaxSignals
    /\ sent' = sent + 1
    /\ signals' = IF signals < SignalBuffer THEN signals + 1 ELSE signals
    /\ UNCHANGED <<session, run, proxy, main, result, count, listener, drain, busy>>

CloseListener == listener' = IF listener = "listening" THEN "closing" ELSE listener

\* The goroutine that counts: the first signal closes shutdown, the second
\* warns, the third closes the server and ends the goroutine.
HandleSignal ==
    /\ signals > 0 /\ count < 3
    /\ signals' = signals - 1
    /\ count' = count + 1
    /\ IF count' = 3
         THEN CloseListener /\ conn' = (IF conn = "up" THEN "dropped" ELSE conn)
         ELSE UNCHANGED <<listener, conn>>
    /\ UNCHANGED <<chan, kind, input, handing, pc, status, out, sigCh, ended, run, proxy,
                   main, result, sent, drain, busy>>

-----------------------------------------------------------------------------
(* ListenAndServe *)

Listens ==
    /\ listener = "starting" /\ listener' = "listening"
    /\ UNCHANGED <<session, run, proxy, main, result, sent, signals, count, drain, busy>>

\* The address is taken, or Accept fails for good: the error goes to serverErr.
ListenFails ==
    /\ listener \in {"starting", "listening"} /\ listener' = "failed"
    /\ UNCHANGED <<session, run, proxy, main, result, sent, signals, count, drain, busy>>

\* The loop notices that its listener is closed: ErrServerClosed.
ListenerEnds ==
    /\ listener = "closing" /\ listener' = "closed"
    /\ UNCHANGED <<session, run, proxy, main, result, sent, signals, count, drain, busy>>

-----------------------------------------------------------------------------
(* Run *)

\* select: shutdown is closed.  Shutdown closes the listener, if there is one
\* already, and starts to wait.
BeginShutdown ==
    /\ main = "select" /\ count >= 1
    /\ main' = "shutdown" /\ drain' = "listeners" /\ busy' = Tracked
    /\ CloseListener
    /\ UNCHANGED <<session, run, proxy, result, sent, signals, count>>

\* select: serverErr has an error.
ServerError ==
    /\ main = "select" /\ listener = "failed"
    /\ main' = "returned" /\ result' = "server error"
    /\ UNCHANGED <<session, run, proxy, sent, signals, count, listener, drain, busy>>

\* Shutdown's goroutine.
Drain ==
    /\ \/ drain = "listeners" /\ listener \notin {"listening", "closing"} /\ drain' = "connections"
       \/ drain = "connections" /\ ~Tracked /\ drain' = "finished"
    /\ UNCHANGED <<session, run, proxy, main, result, sent, signals, count, listener, busy>>

\* Mutant: Run does not report that Shutdown gave up.
ShutdownResultOk(timedOut) == "ok"

ShutdownResult(timedOut) == IF timedOut THEN "timeout" ELSE "ok"

ShutdownReturns ==
    /\ main = "shutdown" /\ drain = "finished"
    /\ main' = "returned" /\ result' = ShutdownResult(FALSE)
    /\ UNCHANGED <<session, run, proxy, sent, signals, count, listener, drain, busy>>

\* Mutant: Shutdown is given a context without a timeout.
ShutdownTimesOutNever == FALSE /\ UNCHANGED vars

\* The 30 seconds are over.
ShutdownTimesOut ==
    /\ main = "shutdown"
    /\ main' = "returned" /\ result' = ShutdownResult(TRUE)
    /\ UNCHANGED <<session, run, proxy, sent, signals, count, listener, drain, busy>>

-----------------------------------------------------------------------------
(* The connection *)

Connects ==
    /\ listener = "listening" /\ conn = "none" /\ conn' = "handshake"
    /\ UNCHANGED <<chan, kind, input, handing, pc, status, out, sigCh, ended, run, proxy, control>>

\* A handshake under way when the server is closed is not cut short.
HandshakeEnds(ok) ==
    /\ conn = "handshake" /\ conn' = IF ok THEN "up" ELSE "closed"
    /\ UNCHANGED <<chan, kind, input, handing, pc, status, out, sigCh, ended, run, proxy, control>>

ClientLeaves ==
    /\ conn = "up" /\ conn' = "dropped"
    /\ UNCHANGED <<chan, kind, input, handing, pc, status, out, sigCh, ended, run, proxy, control>>

\* HandleConn notices, cancels the context and lets go of the connection.
ConnectionLost == conn = "dropped" /\ ConnectionEnds /\ UNCHANGED <<run, proxy, control>>

SessionNext ==
    /\ \/ \E k \in {"run", "proxy"} : OpenSession(k)
       \/ InputEnds \/ SignalArrives \/ HandOver
    /\ UNCHANGED <<run, proxy, control>>

Alive == main # "returned"

\* Nothing happens after the end of the process.
Next ==
    /\ Alive
    /\ \/ SendSignal \/ HandleSignal
       \/ Listens \/ ListenFails \/ ListenerEnds
       \/ BeginShutdown \/ ServerError \/ Drain \/ ShutdownReturns \/ ShutdownTimesOut
       \/ Connects \/ ClientLeaves \/ ConnectionLost
       \/ \E ok \in BOOLEAN : HandshakeEnds(ok)
       \/ SessionNext
       \/ RunNext /\ UNCHANGED <<proxy, control>>
       \/ ProxyNext /\ UNCHANGED <<run, control>>

Spec == Init /\ [][Next]_vars

\* The goroutines of the process: the main one, the handler and the copy of
\* the output, which are one of run and proxy each.  The copy waits for the
\* client as long as there is one.
Main    == BeginShutdown \/ ServerError \/ ShutdownReturns \/ ShutdownTimesOut
Handler == \/ RunHandler /\ UNCHANGED <<proxy, control>>
           \/ ProxyHandler /\ UNCHANGED <<run, control>>
Output  == \/ OutputEnds /\ UNCHANGED <<proxy, control>>
           \/ chan = "closed" /\ CopyOutput /\ UNCHANGED <<proxy, control>>
           \/ chan = "closed" /\ ForwardOutput /\ UNCHANGED <<run, control>>

\* Every runnable goroutine runs, the kernel delivers ends of files, and the
\* timer of Shutdown expires.  A goroutine that waits for a mutex gets it in
\* the end though others take it again and again: Go's mutexes are not starved.
\* Clients, commands, their children and backends owe nothing: in particular a
\* client need not take the output it is sent, nor a backend answer a request.
\* What needs no answer and no room in a window (a status, a signal) is sent.
Fairness ==
    /\ WF_vars(Alive /\ HandleSignal)
    /\ WF_vars(Alive /\ ListenerEnds)
    /\ WF_vars(Alive /\ Main)
    /\ WF_vars(Alive /\ Drain)
    /\ WF_vars(Alive /\ ConnectionLost)
    /\ WF_vars(Alive /\ HandOver /\ UNCHANGED <<run, proxy, control>>)
    /\ WF_vars(Alive /\ Handler)
    /\ WF_vars(Alive /\ Output)
    /\ WF_vars(Alive /\ KillCommand /\ UNCHANGED <<proxy, control>>)
    /\ WF_vars(Alive /\ InputCopyEnds /\ UNCHANGED <<proxy, control>>)
    /\ WF_vars(Alive /\ ForwardSignal /\ UNCHANGED <<run, control>>)
    /\ SF_vars(Alive /\ Unwind /\ UNCHANGED <<run, control>>)

FairSpec == Spec /\ Fairness

-----------------------------------------------------------------------------
(* Properties *)

HandlerType ==
    /\ conn \in {"none", "handshake", "up", "dropped", "closed"}
    /\ chan \in {"none", "open", "closed"} /\ kind \in {"none", "run", "proxy"}
    /\ input \in BOOLEAN /\ out \in BOOLEAN /\ sigCh \in BOOLEAN
    /\ pc \in {"none", "routed", "running", "dialed", "opened", "wired", "waiting",
               "unwinding", "returned", "done"}
    /\ ended \in Endings \cup {"none"} /\ locked \in BOOLEAN
    /\ cmd \in {"none", "running", "exited"} /\ child \in BOOLEAN /\ tty \in BOOLEAN
    /\ inCopy \in BOOLEAN /\ outCopy \in BOOLEAN
    /\ backend \in {"none", "open", "running", "ended"}
    /\ sigFwd \in BOOLEAN

ControlType ==
    /\ main \in {"select", "shutdown", "returned"}
    /\ result \in {"none", "ok", "server error", "timeout"}
    /\ listener \in {"starting", "listening", "closing", "closed", "failed"}
    /\ drain \in {"off", "listeners", "connections", "finished"} /\ busy \in BOOLEAN

StatusType == status \in {NoStatus, -1, 0, 1, 3} /\ sigs \in 0 .. SigCap

SignalType == sent \in 0 .. MaxSignals /\ signals \in 0 .. SignalBuffer /\ count \in 0 .. 3

\* The types of the variables; no channel holds more than its capacity.
TypeOK == HandlerType /\ StatusType /\ ControlType /\ SignalType

\* A client that is still there gets everything the command, what it left
\* behind, the backend or the router prints before it gets the status: nothing
\* is on its way, and nothing can print any more, when Exit closes the channel.
OutputBeforeStatus ==
    [][status = NoStatus /\ status' # NoStatus /\ chan = "open" => ~out /\ ~child]_vars

\* A client is told 0 only when its command or backend ended without an error:
\* not when it could not be started or was lost on the way.
ZeroMeansSuccess == status = 0 => ended = "nil"

\* The connection of a run session ends and so does its handler, as soon as no
\* descendant of the command holds its output: the command is killed.
HangupEndsRun == kind = "run" /\ Cancelled ~> Done \/ child \/ ~Alive

\* Something was printed that the client has not taken.
Unread == out /\ chan = "open"

\* The handler of a proxied session ends once the backend's session has, or
\* could not be started, unless the client leaves output untaken; when it takes
\* it or hangs up, the same holds again.  However many signals the client
\* sends, they cannot keep the session's lock.
BackendEndsProxy ==
    kind = "proxy" /\ (backend = "ended" \/ pc \in {"unwinding", "returned"})
        ~> Done \/ Unread \/ ~Alive

\* A signal, or a listener that fails, ends the process, whatever clients,
\* commands and backends do.
ShutdownCompletes == count >= 1 \/ listener = "failed" ~> ~Alive

\* The third signal forces the connections closed however fast the signals
\* come: the first three are counted or wait to be, though Notify drops what
\* the channel has no room for.
SignalsNotLost == signals + count >= IF sent < 3 THEN sent ELSE 3

\* Run returns without an error after a signal only when a connection that was
\* up as Shutdown was called has ended, by itself or forced closed by the third
\* signal: never because the 30 seconds were over.  A connection still in its
\* handshake then is not waited for, and the end of the process cuts it off.
OkMeansDrained == result = "ok" /\ busy => conn = "closed"

-----------------------------------------------------------------------------
(* The inductive invariant from which ServerRunProofs derives the safety   *)
(* properties.                                                             *)

\* A session has a handler of one kind, at a place of its code; the status is
\* the last thing it sends.
HandlerInv ==
    /\ chan = "none" <=> pc = "none"
    /\ kind = "none" <=> pc = "none"
    /\ kind = "run" => pc \in {"routed", "running", "done"}
    /\ kind = "proxy" => pc # "running"
    /\ status # NoStatus <=> Done
    /\ ZeroMeansSuccess

\* A command exists from its start and has ended when the handler has.  As
\* long as anything of it can still print to an open channel its output is
\* being copied.
RunInv ==
    /\ cmd # "none" => kind = "run" /\ pc \in {"running", "done"}
    /\ cmd = "running" => pc = "running"
    /\ cmd = "none" => ~child /\ ~outCopy
    /\ kind = "run" /\ out => outCopy
    /\ cmd # "none" /\ chan = "open" /\ ~outCopy => cmd = "exited" /\ ~child

\* The backend's session runs only while the handler waits for it, and only
\* then, or when the router reports an error, is output on its way.
BackendInv ==
    /\ backend # "none" => kind = "proxy" /\ pc \notin {"routed", "dialed"}
    /\ backend = "running" => pc = "waiting"
    /\ kind # "run" /\ out => pc \in {"waiting", "returned"}

\* Shutdown has finished only when the connection it found has ended.
ShutdownInv ==
    /\ main = "select" => drain = "off" /\ result = "none"
    /\ drain = "off" => ~busy
    /\ busy => Tracked \/ conn = "closed"
    /\ drain = "finished" /\ busy => conn = "closed"
    /\ result = "ok" => drain = "finished"

SessionInv == HandlerType /\ StatusType /\ HandlerInv /\ RunInv /\ BackendInv
ControlInv == ControlType /\ SignalType /\ ShutdownInv /\ SignalsNotLost
ServerInv  == SessionInv /\ ControlInv
=============================================================================

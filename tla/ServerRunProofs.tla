-------------------------- MODULE ServerRunProofs --------------------------
(***************************************************************************)
(* Proofs about ServerRun for every capacity of the signal channel of a    *)
(* session and any number of signals sent to the process.                  *)
(***************************************************************************)
EXTENDS ServerRun, TLAPS

handler == <<session, run, proxy>>

LEMMA ServerInit == Init => ServerInv
<1> SUFFICES ASSUME Init PROVE ServerInv
  OBVIOUS
<1> USE DEF Init, SessionInit, RunInit, ProxyInit
<1>1. HandlerType /\ ControlType
  BY DEF HandlerType, ControlType
<1>2. StatusType /\ SignalType
  BY SessionAssumption, ServerAssumption DEF StatusType, SignalType, NoStatus, SignalBuffer
<1>3. HandlerInv
  BY DEF HandlerInv, ZeroMeansSuccess, NoStatus, Done
<1>4. RunInv /\ BackendInv
  BY DEF RunInv, BackendInv
<1>5. ShutdownInv /\ SignalsNotLost
  BY DEF ShutdownInv, SignalsNotLost
<1>6. QED
  BY <1>1, <1>2, <1>3, <1>4, <1>5 DEF ServerInv, SessionInv, ControlInv

-----------------------------------------------------------------------------
(* What a step leaves alone *)

\* A step of the session that leaves the connection alone.
LEMMA ControlKept == ControlInv /\ UNCHANGED <<conn, control>> => ControlInv'
<1> SUFFICES ASSUME ControlInv, UNCHANGED <<conn, control>> PROVE ControlInv'
  OBVIOUS
<1> USE DEF ControlInv, control
<1>1. ControlType' /\ ShutdownInv'
  BY DEF ControlType, ShutdownInv, Tracked
<1>2. SignalType' /\ SignalsNotLost'
  BY DEF SignalType, SignalsNotLost
<1>3. QED
  BY <1>1, <1>2

\* A step of the connection or of the server before the session sees it.
LEMMA SessionKept ==
    ASSUME SessionInv, conn' \in {"none", "handshake", "up", "dropped", "closed"},
           UNCHANGED <<chan, kind, input, handing, pc, status, out, sigCh, ended, run, proxy>>
    PROVE  SessionInv'
<1> USE DEF SessionInv, handing, run, proxy
<1>1. HandlerType'
  BY DEF HandlerType
<1>2. StatusType'
  BY DEF StatusType
<1>3. HandlerInv' /\ RunInv' /\ BackendInv'
  BY DEF HandlerInv, RunInv, BackendInv, ZeroMeansSuccess, Done
<1>4. QED
  BY <1>1, <1>2, <1>3

\* A step of the server alone.
LEMMA HandlerKept == SessionInv /\ UNCHANGED handler => SessionInv'
BY SessionKept DEF handler, session, link, SessionInv, HandlerType

-----------------------------------------------------------------------------
(* The server *)

\* A step that handles no signal, changes no counter and keeps its types.
LEMMA Uncounted ==
    ASSUME ControlInv, UNCHANGED <<sent, signals, count>>, ControlType', ShutdownInv'
    PROVE  ControlInv'
<1>1. SignalType' /\ SignalsNotLost'
  BY DEF ControlInv, SignalType, SignalsNotLost
<1>2. QED
  BY <1>1 DEF ControlInv

LEMMA ControlStep ==
    ASSUME ServerInv, UNCHANGED handler,
           \/ SendSignal \/ Listens \/ ListenFails \/ ListenerEnds
           \/ BeginShutdown \/ ServerError \/ Drain \/ ShutdownReturns \/ ShutdownTimesOut
    PROVE  ServerInv'
<1> USE DEF ServerInv
<1>1. SessionInv'
  BY HandlerKept
<1>2. conn' = conn
  BY DEF handler, session, link
<1>3. ControlType /\ SignalType /\ ShutdownInv /\ SignalsNotLost
  BY DEF ControlInv
<1>4. CASE SendSignal
  <2>1. /\ sent' = sent + 1 /\ sent < MaxSignals /\ count' = count
        /\ signals' = IF signals < SignalBuffer THEN signals + 1 ELSE signals
        /\ UNCHANGED <<main, result, listener, drain, busy>>
    BY <1>4 DEF SendSignal
  <2>2. SignalType' /\ SignalsNotLost'
    BY <1>3, <2>1, ServerAssumption DEF SignalType, SignalsNotLost, SignalBuffer
  <2>3. ControlType' /\ ShutdownInv'
    BY <1>2, <1>3, <2>1 DEF ControlType, ShutdownInv, Tracked
  <2>4. QED
    BY <1>1, <2>2, <2>3 DEF ControlInv
<1>5. CASE Listens \/ ListenFails \/ ListenerEnds
  <2>1. /\ listener' \in {"listening", "failed", "closed"}
        /\ UNCHANGED <<main, result, sent, signals, count, drain, busy>>
    BY <1>5 DEF Listens, ListenFails, ListenerEnds
  <2>2. ControlType' /\ ShutdownInv'
    BY <1>2, <1>3, <2>1 DEF ControlType, ShutdownInv, Tracked
  <2>3. QED
    BY <1>1, <2>1, <2>2, Uncounted
<1>6. CASE BeginShutdown
  <2>1. /\ main = "select" /\ main' = "shutdown" /\ drain' = "listeners" /\ busy' = Tracked
        /\ listener' \in {listener, "closing"}
        /\ UNCHANGED <<result, sent, signals, count>>
    BY <1>6 DEF BeginShutdown, CloseListener
  <2>2. busy' \in BOOLEAN
    BY <2>1 DEF Tracked
  <2>3. ControlType'
    BY <1>3, <2>1, <2>2 DEF ControlType
  <2>4. ShutdownInv'
    BY <1>2, <1>3, <2>1 DEF ShutdownInv, Tracked
  <2>5. QED
    BY <1>1, <2>1, <2>3, <2>4, Uncounted
<1>7. CASE ServerError \/ ShutdownReturns \/ ShutdownTimesOut
  <2>1. /\ main' = "returned" /\ UNCHANGED <<sent, signals, count, listener, drain, busy>>
        /\ result' \in {"server error", "timeout"} \/ (result' = "ok" /\ drain = "finished")
    BY <1>7 DEF ServerError, ShutdownReturns, ShutdownTimesOut, ShutdownResult
  <2>2. ControlType' /\ ShutdownInv'
    BY <1>2, <1>3, <2>1 DEF ControlType, ShutdownInv, Tracked
  <2>3. QED
    BY <1>1, <2>1, <2>2, Uncounted
<1>8. CASE Drain
  <2>1. /\ \/ drain = "listeners" /\ drain' = "connections"
           \/ drain = "connections" /\ ~Tracked /\ drain' = "finished"
        /\ UNCHANGED <<main, result, sent, signals, count, listener, busy>>
    BY <1>8 DEF Drain
  <2>2. ControlType' /\ ShutdownInv'
    BY <1>2, <1>3, <2>1 DEF ControlType, ShutdownInv, Tracked
  <2>3. QED
    BY <1>1, <2>1, <2>2, Uncounted
<1>9. QED
  BY <1>4, <1>5, <1>6, <1>7, <1>8

\* The third signal closes the connections that are tracked.
LEMMA SignalStep == ServerInv /\ HandleSignal => ServerInv'
<1> SUFFICES ASSUME ServerInv, HandleSignal PROVE ServerInv'
  OBVIOUS
<1>1. conn \in {"none", "handshake", "up", "dropped", "closed"}
  BY DEF ServerInv, SessionInv, HandlerType
<1>2. /\ conn' = conn \/ (conn = "up" /\ conn' = "dropped")
      /\ listener' = listener \/ listener' = "closing"
      /\ UNCHANGED <<main, result, sent, drain, busy>>
      /\ signals > 0 /\ count < 3 /\ signals' = signals - 1 /\ count' = count + 1
  BY DEF HandleSignal, CloseListener
<1>3. SessionInv'
  BY <1>1, <1>2, SessionKept DEF HandleSignal, ServerInv
<1>4. SignalType' /\ SignalsNotLost'
  BY <1>2 DEF ServerInv, ControlInv, SignalType, SignalsNotLost, SignalBuffer
<1>5. ControlType' /\ ShutdownInv'
  BY <1>2 DEF ServerInv, ControlInv, ControlType, ShutdownInv, Tracked
<1>6. QED
  BY <1>3, <1>4, <1>5 DEF ServerInv, ControlInv

-----------------------------------------------------------------------------
(* The connection *)

LEMMA ConnectionStep ==
    ASSUME ServerInv,
           \/ Connects \/ ClientLeaves \/ ConnectionLost \/ \E ok \in BOOLEAN : HandshakeEnds(ok)
    PROVE  ServerInv'
<1> USE DEF ServerInv
<1>1. /\ UNCHANGED control
      /\ \/ conn = "none" /\ conn' = "handshake"
         \/ conn = "handshake" /\ conn' \in {"up", "closed"}
         \/ conn = "up" /\ conn' = "dropped"
         \/ conn = "dropped" /\ conn' = "closed"
  BY DEF Connects, ClientLeaves, ConnectionLost, ConnectionEnds, HandshakeEnds
<1>2. ControlInv'
  <2>1. ControlType' /\ ShutdownInv'
    BY <1>1 DEF ControlInv, ControlType, ShutdownInv, Tracked, control
  <2>2. QED
    BY <1>1, <2>1, Uncounted DEF control
<1>3. SessionInv'
  <2>1. CASE Connects \/ ClientLeaves \/ \E ok \in BOOLEAN : HandshakeEnds(ok)
    BY <1>1, <2>1, SessionKept DEF Connects, ClientLeaves, HandshakeEnds
  <2>2. CASE ConnectionLost
    <3>1. /\ conn' = "closed" /\ input' = FALSE
          /\ chan' = IF chan = "open" THEN "closed" ELSE chan
          /\ UNCHANGED <<kind, pc, status, out, handing, sigCh, ended, run, proxy>>
      BY <2>2 DEF ConnectionLost, ConnectionEnds
    <3> USE DEF handing, run, proxy, SessionInv
    <3>2. HandlerType'
      <4>1. chan' \in {"none", "open", "closed"} /\ input' \in BOOLEAN
        BY <3>1 DEF HandlerType
      <4>2. QED
        BY <3>1, <4>1 DEF HandlerType
    <3>3. StatusType'
      BY <3>1 DEF StatusType
    <3>4. HandlerInv' /\ RunInv' /\ BackendInv'
      BY <3>1 DEF HandlerInv, RunInv, BackendInv, ZeroMeansSuccess, Done
    <3>5. QED
      BY <3>2, <3>3, <3>4
  <2>3. QED
    BY <2>1, <2>2
<1>4. QED
  BY <1>2, <1>3

-----------------------------------------------------------------------------
(* The session and its handler *)

\* Exit, once nothing that the handler started is running.
LEMMA Exits ==
    ASSUME SessionInv, NEW code \in {-1, 0, 1, 3}, Exit(code), code = 0 => ended = "nil",
           pc # "none", cmd # "running", backend # "running", kind # "run" => ~out,
           sigCh' \in BOOLEAN, UNCHANGED <<handing, out, ended, run, proxy>>
    PROVE  SessionInv'
<1> USE DEF SessionInv, handing, run, proxy
<1>1. /\ pc' = "done" /\ status' = code /\ chan' = "closed"
      /\ UNCHANGED <<conn, kind, input>>
  BY DEF Exit
<1>2. HandlerType'
  BY <1>1 DEF HandlerType
<1>3. StatusType'
  BY <1>1 DEF StatusType
<1>4. HandlerInv'
  BY <1>1 DEF HandlerInv, HandlerType, ZeroMeansSuccess, Done, NoStatus
<1>5. RunInv' /\ BackendInv'
  BY <1>1 DEF RunInv, BackendInv
<1>6. QED
  BY <1>2, <1>3, <1>4, <1>5

\* What ExitCode and Result return.
LEMMA ExitCodes ==
    /\ ExitCode("other") = 1
    /\ \A err : Result(err) \in {-1, 0, 1, 3} /\ (Result(err) = 0 => err = "nil")
BY DEF ExitCode, Result

\* Requests and signals of the client.
LEMMA RequestStep == SessionInv /\ SessionNext => SessionInv'
<1> SUFFICES ASSUME SessionInv, SessionNext PROVE SessionInv'
  OBVIOUS
<1> USE DEF SessionInv, handing, run, proxy
<1>1. UNCHANGED <<run, proxy>>
  BY DEF SessionNext
<1>2. ASSUME NEW k \in {"run", "proxy"}, OpenSession(k) PROVE SessionInv'
  <2>1. /\ chan = "none" /\ chan' = "open" /\ kind' = k /\ pc' = "routed"
        /\ UNCHANGED <<conn, status, input, out, handing, sigCh, ended>>
    BY <1>2 DEF OpenSession
  <2>2. /\ pc = "none" /\ kind = "none" /\ status = NoStatus
        /\ cmd = "none" /\ backend = "none" /\ ~out
    BY <2>1 DEF HandlerInv, RunInv, BackendInv, Done
  <2>3. HandlerType'
    BY <1>1, <2>1 DEF HandlerType
  <2>4. StatusType'
    BY <2>1 DEF StatusType
  <2>5. HandlerInv'
    BY <2>1, <2>2 DEF HandlerInv, ZeroMeansSuccess, Done, NoStatus
  <2>6. RunInv' /\ BackendInv'
    BY <1>1, <2>1, <2>2 DEF RunInv, BackendInv
  <2>7. QED
    BY <2>3, <2>4, <2>5, <2>6
<1>3. CASE InputEnds
  <2>1. /\ input' \in BOOLEAN
        /\ UNCHANGED <<conn, chan, kind, pc, status, out, handing, sigCh, ended>>
    BY <1>3 DEF InputEnds
  <2>2. HandlerType'
    BY <1>1, <2>1 DEF HandlerType
  <2>3. StatusType'
    BY <2>1 DEF StatusType
  <2>4. HandlerInv' /\ RunInv' /\ BackendInv'
    BY <1>1, <2>1 DEF HandlerInv, RunInv, BackendInv, ZeroMeansSuccess, Done
  <2>5. QED
    BY <2>2, <2>3, <2>4
<1>4. CASE SignalArrives \/ HandOver
  <2>1. /\ locked' \in BOOLEAN
        /\ UNCHANGED <<conn, chan, kind, input, pc, status, out, sigCh, ended>>
    BY <1>4 DEF SignalArrives, HandOver, link
  <2>2. HandlerType'
    BY <1>1, <2>1 DEF HandlerType
  <2>3. StatusType'
    <3>1. sigs' = sigs \/ (sigs < SigCap /\ sigs' = sigs + 1)
      BY <1>4 DEF SignalArrives, HandOver
    <3>2. status' = status
      BY <2>1
    <3>3. QED
      BY <3>1, <3>2, SessionAssumption DEF StatusType
  <2>4. HandlerInv' /\ RunInv' /\ BackendInv'
    BY <1>1, <2>1 DEF HandlerInv, RunInv, BackendInv, ZeroMeansSuccess, Done
  <2>5. QED
    BY <2>2, <2>3, <2>4
<1>5. QED
  BY <1>2, <1>3, <1>4 DEF SessionNext

\* A step of the command or of its copies that leaves the handler where it is.
LEMMA RunKept ==
    ASSUME SessionInv, UNCHANGED <<link, handing, pc, status, sigCh, ended, proxy, cmd, tty>>,
           out' \in BOOLEAN, child' \in BOOLEAN, inCopy' \in BOOLEAN, outCopy' \in BOOLEAN,
           RunInv', kind # "run" => out' = out
    PROVE  SessionInv'
<1> USE DEF SessionInv, link, handing, proxy
<1>1. HandlerType'
  BY DEF HandlerType
<1>2. StatusType'
  BY DEF StatusType
<1>3. HandlerInv' /\ BackendInv'
  BY DEF HandlerInv, BackendInv, ZeroMeansSuccess, Done
<1>4. QED
  BY <1>1, <1>2, <1>3

LEMMA RunStep == SessionInv /\ RunNext /\ UNCHANGED proxy => SessionInv'
<1> SUFFICES ASSUME SessionInv, RunNext, UNCHANGED proxy PROVE SessionInv'
  OBVIOUS
<1>0. HandlerType /\ StatusType /\ HandlerInv /\ RunInv /\ BackendInv
  BY DEF SessionInv
<1>1. ASSUME NEW pty \in BOOLEAN, NEW ok \in BOOLEAN, NEW want \in WantPty, StartRun(pty, want, ok)
      PROVE  SessionInv'
  <2>1. kind = "run" /\ pc = "routed" /\ UNCHANGED <<out, handing, sigCh, ended>>
    BY <1>1 DEF StartRun
  <2>2. cmd = "none" /\ backend = "none" /\ ~child /\ ~out
    BY <1>0, <2>1 DEF RunInv, BackendInv
  <2>3. CASE (want = "yes" /\ ~pty) \/ ~ok
    <3>1. Exit(1) /\ UNCHANGED run
      BY <1>1, <2>3, ExitCodes DEF StartRun
    <3>2. QED
      BY <1>0, <2>1, <2>2, <3>1, Exits DEF HandlerType
  <2>4. CASE ~((want = "yes" /\ ~pty) \/ ~ok)
    <3>1. /\ pc' = "running" /\ cmd' = "running" /\ tty' = (pty /\ want # "no")
          /\ inCopy' = TRUE /\ outCopy' = TRUE /\ UNCHANGED <<link, status, child>>
      BY <1>1, <2>4 DEF StartRun
    <3>2. tty' \in BOOLEAN
      BY <3>1
    <3> USE DEF link, handing, proxy
    <3>3. HandlerType'
      BY <1>0, <2>1, <3>1, <3>2 DEF HandlerType
    <3>4. StatusType'
      BY <1>0, <2>1, <3>1 DEF StatusType
    <3>5. HandlerInv'
      BY <1>0, <2>1, <3>1 DEF HandlerInv, ZeroMeansSuccess, Done
    <3>6. RunInv' /\ BackendInv'
      BY <1>0, <2>1, <2>2, <3>1 DEF RunInv, BackendInv
    <3>7. QED
      BY <3>3, <3>4, <3>5, <3>6 DEF SessionInv
  <2>5. QED
    BY <2>3, <2>4
<1>2. ASSUME NEW copyFailed \in BOOLEAN, FinishRun(copyFailed) PROVE SessionInv'
  <2> DEFINE err == IF copyFailed /\ ended = "nil" THEN "other" ELSE ended
  <2>1. /\ kind = "run" /\ pc = "running" /\ cmd = "exited" /\ Exit(Result(err))
        /\ UNCHANGED <<handing, out, sigCh, ended, run>>
    BY <1>2 DEF FinishRun, RunDone, WaitReturns
  <2>2. Result(err) \in {-1, 0, 1, 3} /\ (Result(err) = 0 => ended = "nil")
    BY ExitCodes
  <2> HIDE DEF err
  <2>3. backend # "running"
    BY <1>0, <2>1 DEF BackendInv
  <2>4. sigCh' \in BOOLEAN
    BY <1>0, <2>1 DEF HandlerType
  <2>5. QED
    BY <2>1, <2>2, <2>3, <2>4, Exits
<1>3. ASSUME NEW how \in Endings, NEW leavesChild \in BOOLEAN, ProcessEnds(how, leavesChild)
      PROVE  SessionInv'
  <2>1. /\ cmd = "running" /\ cmd' = "exited" /\ ended' = how /\ child' = leavesChild
        /\ UNCHANGED <<link, handing, pc, status, out, sigCh, tty, inCopy, outCopy>>
    BY <1>3 DEF ProcessEnds
  <2>2. pc = "running" /\ kind = "run" /\ status = NoStatus /\ (chan = "open" => outCopy)
    BY <1>0, <2>1 DEF RunInv, HandlerInv, Done
  <2> USE DEF link, handing, proxy
  <2>3. HandlerType'
    BY <1>0, <2>1 DEF HandlerType
  <2>4. StatusType'
    BY <1>0, <2>1 DEF StatusType
  <2>5. HandlerInv'
    BY <1>0, <2>1, <2>2 DEF HandlerInv, ZeroMeansSuccess, Done, NoStatus
  <2>6. RunInv' /\ BackendInv'
    BY <1>0, <2>1, <2>2 DEF RunInv, BackendInv
  <2>7. QED
    BY <2>3, <2>4, <2>5, <2>6 DEF SessionInv
<1>4. CASE CommandPrints
  <2>1. /\ kind = "run" /\ outCopy /\ out' = TRUE
        /\ UNCHANGED <<link, handing, pc, status, sigCh, ended, run>>
    BY <1>4 DEF CommandPrints
  <2>2. RunInv'
    BY <1>0, <2>1 DEF RunInv, link, run
  <2>3. QED
    BY <1>0, <2>1, <2>2, RunKept DEF run, HandlerType
<1>5. CASE ChildExits
  <2>1. child' = FALSE /\ UNCHANGED <<session, cmd, tty, inCopy, outCopy>>
    BY <1>5 DEF ChildExits
  <2>2. RunInv'
    BY <1>0, <2>1 DEF RunInv, session, link
  <2>3. QED
    BY <1>0, <2>1, <2>2, RunKept DEF session, HandlerType
<1>6. CASE CopyOutput
  <2>1. /\ outCopy /\ out /\ out' = FALSE /\ outCopy' = (chan = "open")
        /\ UNCHANGED <<link, handing, pc, status, sigCh, ended, cmd, child, tty, inCopy>>
    BY <1>6 DEF CopyOutput
  <2>2. outCopy' \in BOOLEAN /\ kind = "run"
    BY <1>0, <2>1 DEF RunInv
  <2>3. RunInv'
    BY <1>0, <2>1 DEF RunInv, link
  <2>4. QED
    BY <1>0, <2>1, <2>2, <2>3, RunKept DEF HandlerType
<1>7. CASE OutputEnds
  <2>1. /\ ~out /\ cmd = "exited" /\ ~child /\ outCopy' = FALSE
        /\ UNCHANGED <<session, cmd, child, tty, inCopy>>
    BY <1>7 DEF OutputEnds
  <2>2. RunInv'
    BY <1>0, <2>1 DEF RunInv, session, link
  <2>3. QED
    BY <1>0, <2>1, <2>2, RunKept DEF session, HandlerType
<1>8. CASE InputCopyEnds
  <2>1. inCopy' = FALSE /\ UNCHANGED <<session, cmd, child, tty, outCopy>>
    BY <1>8 DEF InputCopyEnds
  <2>2. RunInv'
    BY <1>0, <2>1 DEF RunInv, session, link
  <2>3. QED
    BY <1>0, <2>1, <2>2, RunKept DEF session, HandlerType
<1>9. QED
  BY <1>1, <1>2, <1>3, <1>4, <1>5, <1>6, <1>7, <1>8
  DEF RunNext, RunHandler, KillCommand, Kill, CommandExits, Endings

\* A step of the handler that leaves the rest of the session alone.
LEMMA ProxyMoves ==
    ASSUME SessionInv, kind = "proxy", pc # "done",
           NEW l \in {"dialed", "opened", "wired", "waiting", "unwinding", "returned"}, Step(l),
           UNCHANGED <<handing, run>>, out' \in BOOLEAN, sigCh' \in BOOLEAN, sigFwd' \in BOOLEAN,
           ended' \in Endings \cup {"none"}, backend' \in {"none", "open", "running", "ended"},
           BackendInv'
    PROVE  SessionInv'
<1> USE DEF SessionInv, handing, run, link
<1>1. pc' = l /\ UNCHANGED <<link, status>>
  BY DEF Step
<1>2. status = NoStatus /\ pc # "none"
  BY DEF HandlerInv, Done
<1>3. HandlerType'
  BY <1>1 DEF HandlerType
<1>4. StatusType'
  BY <1>1 DEF StatusType
<1>5. HandlerInv'
  BY <1>1, <1>2 DEF HandlerInv, ZeroMeansSuccess, Done, NoStatus
<1>6. RunInv'
  BY <1>1 DEF RunInv
<1>7. QED
  BY <1>3, <1>4, <1>5, <1>6

\* The handler returns to the router, which may have an error to print.
LEMMA ProxyReturns ==
    ASSUME SessionInv, kind = "proxy", pc \notin {"waiting", "done"},
           NEW err \in Endings \cup {"none"}, Return(err), UNCHANGED <<handing, run, proxy>>,
           sigCh' \in BOOLEAN
    PROVE  SessionInv'
<1>1. Step("returned") /\ ended' = err
  BY DEF Return
<1>2. out' \in BOOLEAN
  BY Zenon DEF Return
<1>3. BackendInv'
  BY <1>1 DEF SessionInv, BackendInv, Step, proxy, link
<1>4. /\ sigFwd' \in BOOLEAN /\ ended' \in Endings \cup {"none"}
      /\ backend' \in {"none", "open", "running", "ended"}
  BY <1>1 DEF SessionInv, HandlerType, proxy
<1>5. QED
  BY <1>1, <1>2, <1>3, <1>4, ProxyMoves

\* An error before the signals are registered.
LEMMA ProxyFails ==
    ASSUME SessionInv, kind = "proxy", pc \in {"routed", "dialed", "opened"}, FailProxy,
           UNCHANGED run
    PROVE  SessionInv'
<1>1. Return("other") /\ UNCHANGED <<handing, sigCh, proxy>>
  BY DEF FailProxy
<1>2. sigCh' \in BOOLEAN /\ "other" \in Endings
  BY <1>1 DEF SessionInv, HandlerType, Endings
<1>3. QED
  BY <1>1, <1>2, ProxyReturns

LEMMA ProxyStep == SessionInv /\ ProxyNext /\ UNCHANGED run => SessionInv'
<1> SUFFICES ASSUME SessionInv, ProxyNext, UNCHANGED run PROVE SessionInv'
  OBVIOUS
<1>0. HandlerType /\ StatusType /\ HandlerInv /\ RunInv /\ BackendInv
  BY DEF SessionInv
<1> DEFINE typed == /\ out \in BOOLEAN /\ sigCh \in BOOLEAN /\ sigFwd \in BOOLEAN
                    /\ ended \in Endings \cup {"none"}
                    /\ backend \in {"none", "open", "running", "ended"}
<1>1. typed
  BY <1>0 DEF HandlerType
<1>2. pc \in {"dialed", "opened", "wired", "waiting", "unwinding", "returned"} => kind = "proxy"
  BY <1>0 DEF HandlerInv, HandlerType
<1>3. CASE DialBackend
  <2>1. kind = "proxy" /\ pc = "routed"
    BY <1>3 DEF DialBackend
  <2>2. (Proceed("dialed") /\ UNCHANGED <<sigCh, proxy>>) \/ FailProxy
    BY <1>3 DEF DialBackend
  <2>3. CASE Proceed("dialed") /\ UNCHANGED <<sigCh, proxy>>
    <3>1. BackendInv'
      BY <1>0, <2>1, <2>3 DEF BackendInv, Proceed, Step, proxy, link
    <3>2. typed'
      BY <1>1, <2>3 DEF Proceed, proxy
    <3>3. QED
      BY <2>1, <2>3, <3>1, <3>2, ProxyMoves DEF Proceed
  <2>4. QED
    BY <2>1, <2>2, <2>3, ProxyFails
<1>4. ASSUME NEW ok \in BOOLEAN, NewBackendSession(ok) PROVE SessionInv'
  <2>1. kind = "proxy" /\ pc = "dialed"
    BY <1>2, <1>4 DEF NewBackendSession
  <2>2. (Proceed("opened") /\ backend' = "open" /\ UNCHANGED <<sigCh, sigFwd>>) \/ FailProxy
    BY <1>4 DEF NewBackendSession
  <2>3. CASE Proceed("opened") /\ backend' = "open" /\ UNCHANGED <<sigCh, sigFwd>>
    <3>1. BackendInv'
      BY <1>0, <2>1, <2>3 DEF BackendInv, Proceed, Step, link
    <3>2. typed'
      BY <1>1, <2>3 DEF Proceed
    <3>3. QED
      BY <2>1, <2>3, <3>1, <3>2, ProxyMoves DEF Proceed
  <2>4. QED
    BY <2>1, <2>2, <2>3, ProxyFails
<1>5. ASSUME NEW pty \in BOOLEAN, NEW ok \in BOOLEAN, Forward(pty, ok) PROVE SessionInv'
  <2>1. kind = "proxy" /\ pc = "opened"
    BY <1>2, <1>5 DEF Forward
  <2>2. \/ Proceed("wired") /\ sigCh' = TRUE /\ sigFwd' = TRUE /\ UNCHANGED backend
        \/ FailProxy
    BY <1>5 DEF Forward
  <2>3. CASE Proceed("wired") /\ sigCh' = TRUE /\ sigFwd' = TRUE /\ UNCHANGED backend
    <3>1. BackendInv'
      BY <1>0, <2>1, <2>3 DEF BackendInv, Proceed, Step, link
    <3>2. typed'
      BY <1>1, <2>3 DEF Proceed
    <3>3. QED
      BY <2>1, <2>3, <3>1, <3>2, ProxyMoves DEF Proceed
  <2>4. QED
    BY <2>1, <2>2, <2>3, ProxyFails
<1>6. ASSUME NEW ok \in BOOLEAN, StartBackend(ok) PROVE SessionInv'
  <2>1. kind = "proxy" /\ pc = "wired" /\ UNCHANGED <<handing, out, sigCh, sigFwd>>
    BY <1>2, <1>6 DEF StartBackend
  <2>2. \/ Step("waiting") /\ backend' = "running" /\ UNCHANGED ended
        \/ Step("unwinding") /\ ended' = "other" /\ UNCHANGED backend
    BY <1>6 DEF StartBackend
  <2>3. BackendInv'
    BY <1>0, <2>1, <2>2 DEF BackendInv, Step, link
  <2>4. typed'
    BY <1>1, <2>1, <2>2 DEF Endings
  <2>5. QED
    BY <2>1, <2>2, <2>3, <2>4, ProxyMoves
<1>7. ASSUME NEW copyFailed \in BOOLEAN, WaitBackend(copyFailed) PROVE SessionInv'
  <2>1. /\ kind = "proxy" /\ pc = "waiting" /\ backend = "ended" /\ ~out /\ Step("unwinding")
        /\ ended' \in {"other", ended} /\ UNCHANGED <<handing, out, sigCh, proxy>>
    BY <1>2, <1>7 DEF WaitBackend, BackendDone
  <2>2. BackendInv'
    BY <1>0, <2>1 DEF BackendInv, Step, proxy, link
  <2>3. typed'
    BY <1>1, <2>1 DEF proxy, Endings
  <2>4. QED
    BY <2>1, <2>2, <2>3, ProxyMoves
<1>8. CASE Unwind
  <2>1. /\ kind = "proxy" /\ pc = "unwinding" /\ sigCh' \in BOOLEAN /\ Return(ended)
        /\ UNCHANGED <<handing, proxy>>
    BY <1>2, <1>8 DEF Unwind
  <2>2. QED
    BY <1>1, <2>1, ProxyReturns
<1>9. CASE ExitProxy
  <2>1. /\ kind = "proxy" /\ pc = "returned" /\ ~out /\ Exit(Result(ended))
        /\ UNCHANGED <<handing, out, sigCh, ended, proxy>>
    BY <1>2, <1>9 DEF ExitProxy
  <2>2. cmd # "running" /\ backend # "running"
    BY <1>0, <2>1 DEF RunInv, BackendInv
  <2>3. Result(ended) \in {-1, 0, 1, 3} /\ (Result(ended) = 0 => ended = "nil")
    BY ExitCodes
  <2>4. sigCh' \in BOOLEAN
    BY <1>1, <2>1
  <2>5. QED
    BY <2>1, <2>2, <2>3, <2>4, Exits
<1>10. CASE BackendPrints \/ ForwardOutput
  <2>1. /\ out' \in BOOLEAN /\ (out' => backend = "running")
        /\ kind = "proxy"
        /\ UNCHANGED <<link, handing, pc, status, sigCh, ended, proxy>>
    BY <1>0, <1>10 DEF BackendPrints, ForwardOutput, BackendInv
  <2> USE DEF link, handing, proxy, run
  <2>2. HandlerType'
    BY <1>0, <2>1 DEF HandlerType
  <2>3. StatusType'
    BY <1>0, <2>1 DEF StatusType
  <2>4. HandlerInv' /\ RunInv' /\ BackendInv'
    BY <1>0, <2>1 DEF HandlerInv, RunInv, BackendInv, ZeroMeansSuccess, Done
  <2>5. QED
    BY <2>2, <2>3, <2>4 DEF SessionInv
<1>11. ASSUME NEW how \in {"nil", "exit", "other"}, BackendEnds(how) PROVE SessionInv'
  <2>1. /\ backend = "running" /\ backend' = "ended" /\ ended' = how
        /\ UNCHANGED <<link, handing, pc, status, out, sigCh, sigFwd>>
    BY <1>11 DEF BackendEnds
  <2>2. pc = "waiting" /\ kind = "proxy" /\ status = NoStatus
    BY <1>0, <2>1 DEF BackendInv, HandlerInv, Done
  <2> USE DEF link, handing, run
  <2>3. HandlerType'
    BY <1>0, <2>1 DEF HandlerType, Endings
  <2>4. StatusType'
    BY <1>0, <2>1 DEF StatusType
  <2>5. HandlerInv'
    BY <1>0, <2>1, <2>2 DEF HandlerInv, ZeroMeansSuccess, Done, NoStatus
  <2>6. RunInv' /\ BackendInv'
    BY <1>0, <2>1, <2>2 DEF RunInv, BackendInv
  <2>7. QED
    BY <2>3, <2>4, <2>5, <2>6 DEF SessionInv
<1>12. CASE ForwardSignal
  <2>1. /\ sigs > 0 /\ sigs' = sigs - 1
        /\ UNCHANGED <<link, pc, status, out, locked, sigCh, ended, proxy>>
    BY <1>12 DEF ForwardSignal
  <2> USE DEF link, proxy, run
  <2>2. HandlerType'
    BY <1>0, <2>1 DEF HandlerType
  <2>3. StatusType'
    BY <1>0, <2>1, SessionAssumption DEF StatusType
  <2>4. HandlerInv' /\ RunInv' /\ BackendInv'
    BY <1>0, <2>1 DEF HandlerInv, RunInv, BackendInv, ZeroMeansSuccess, Done
  <2>5. QED
    BY <2>2, <2>3, <2>4 DEF SessionInv
<1>13. QED
  BY <1>3, <1>4, <1>5, <1>6, <1>7, <1>8, <1>9, <1>10, <1>11, <1>12
  DEF ProxyNext, AskBackend, ProxyHandler

-----------------------------------------------------------------------------
(* The properties *)

LEMMA ServerStep == ServerInv /\ [Next]_vars => ServerInv'
<1> SUFFICES ASSUME ServerInv, [Next]_vars PROVE ServerInv'
  OBVIOUS
<1>1. SessionInv /\ ControlInv
  BY DEF ServerInv
<1>2. CASE \/ SendSignal \/ Listens \/ ListenFails \/ ListenerEnds
           \/ BeginShutdown \/ ServerError \/ Drain \/ ShutdownReturns \/ ShutdownTimesOut
  <2>1. UNCHANGED handler
    BY <1>2 DEF SendSignal, Listens, ListenFails, ListenerEnds, BeginShutdown, ServerError,
                Drain, ShutdownReturns, ShutdownTimesOut, handler
  <2>2. QED
    BY <1>2, <2>1, ControlStep
<1>3. CASE HandleSignal
  BY <1>3, SignalStep
<1>4. CASE Connects \/ ClientLeaves \/ ConnectionLost \/ \E ok \in BOOLEAN : HandshakeEnds(ok)
  BY <1>4, ConnectionStep
<1>5. CASE SessionNext
  <2>1. UNCHANGED <<conn, control>>
    BY <1>5 DEF SessionNext, OpenSession, InputEnds, SignalArrives, HandOver, link
  <2>2. QED
    BY <1>1, <1>5, <2>1, RequestStep, ControlKept DEF ServerInv
<1>6. CASE RunNext /\ UNCHANGED <<proxy, control>>
  <2>1. UNCHANGED <<conn, control>>
    BY <1>6 DEF RunNext, RunHandler, StartRun, FinishRun, Exit, KillCommand, Kill, CommandExits,
                ProcessEnds, CommandPrints, ChildExits, CopyOutput, OutputEnds, InputCopyEnds,
                session, link
  <2>2. QED
    BY <1>1, <1>6, <2>1, RunStep, ControlKept DEF ServerInv
<1>7. CASE ProxyNext /\ UNCHANGED <<run, control>>
  <2>1. UNCHANGED <<conn, control>>
    BY <1>7 DEF ProxyNext, AskBackend, DialBackend, NewBackendSession, Forward, StartBackend,
                ProxyHandler, WaitBackend, ExitProxy, Unwind, FailProxy, Return, Exit, Proceed,
                Step, BackendPrints, BackendEnds, ForwardOutput, ForwardSignal, link
  <2>2. QED
    BY <1>1, <1>7, <2>1, ProxyStep, ControlKept DEF ServerInv
<1>8. CASE UNCHANGED vars
  BY <1>1, <1>8, HandlerKept, ControlKept DEF vars, handler, session, link, ServerInv
<1>9. QED
  BY <1>2, <1>3, <1>4, <1>5, <1>6, <1>7, <1>8 DEF Next

\* The inductive invariant holds in every reachable state.
THEOREM ServerInvariant == Spec => []ServerInv
BY ServerInit, ServerStep, PTL DEF Spec

\* The variables keep their types: in particular the channels of signals
\* (server.go:46, proxy.go:67) never hold more than their capacity.
THEOREM ServerTypeOK == Spec => []TypeOK
<1>1. ServerInv => TypeOK
  BY DEF ServerInv, SessionInv, ControlInv, TypeOK
<1>2. QED
  BY <1>1, ServerInvariant, PTL

\* A client is told 0 only when its command or backend ended without an error,
\* whatever is killed, lost or disconnected on the way.
THEOREM ServerZeroMeansSuccess == Spec => []ZeroMeansSuccess
<1>1. ServerInv => ZeroMeansSuccess
  BY DEF ServerInv, SessionInv, HandlerInv
<1>2. QED
  BY <1>1, ServerInvariant, PTL

\* Run returns nil after a signal only when the connection that was up as
\* Shutdown was called has ended, by itself or closed by the third signal.
THEOREM ServerOkMeansDrained == Spec => []OkMeansDrained
<1>1. ServerInv => OkMeansDrained
  BY DEF ServerInv, ControlInv, ShutdownInv, OkMeansDrained
<1>2. QED
  BY <1>1, ServerInvariant, PTL

\* However many signals come and in whatever order they are sent and counted,
\* the first three are counted or wait in the channel, which holds three.
THEOREM ServerSignalsNotLost == Spec => []SignalsNotLost
<1>1. ServerInv => SignalsNotLost
  BY DEF ServerInv, ControlInv
<1>2. QED
  BY <1>1, ServerInvariant, PTL

\* The steps that send a status.
LEMMA StatusSenders ==
    ASSUME [Next]_vars, status' # status
    PROVE  \/ \E pty, ok \in BOOLEAN, want \in WantPty : StartRun(pty, want, ok)
           \/ \E copyFailed \in BOOLEAN : FinishRun(copyFailed)
           \/ ExitProxy
<1>1. ~UNCHANGED vars
  BY DEF vars, session
<1>2. CASE RunNext
  BY <1>2 DEF RunNext, RunHandler, KillCommand, Kill, CommandExits, ProcessEnds, CommandPrints,
              ChildExits, CopyOutput, OutputEnds, InputCopyEnds, session
<1>3. CASE ProxyNext
  BY <1>3 DEF ProxyNext, AskBackend, DialBackend, NewBackendSession, Forward, StartBackend,
              ProxyHandler, WaitBackend, Unwind, FailProxy, Return, Proceed, Step,
              BackendPrints, BackendEnds, ForwardOutput, ForwardSignal
<1>4. ~SessionNext
  BY DEF SessionNext, OpenSession, InputEnds, SignalArrives, HandOver
<1>5. /\ ~SendSignal /\ ~HandleSignal /\ ~Listens /\ ~ListenFails /\ ~ListenerEnds
      /\ ~BeginShutdown /\ ~ServerError /\ ~Drain /\ ~ShutdownReturns /\ ~ShutdownTimesOut
  BY DEF SendSignal, HandleSignal, Listens, ListenFails, ListenerEnds, BeginShutdown,
         ServerError, Drain, ShutdownReturns, ShutdownTimesOut, session
<1>6. ~Connects /\ ~ClientLeaves /\ ~ConnectionLost /\ ~\E ok \in BOOLEAN : HandshakeEnds(ok)
  BY DEF Connects, ClientLeaves, ConnectionLost, ConnectionEnds, HandshakeEnds
<1>7. QED
  BY <1>1, <1>2, <1>3, <1>4, <1>5, <1>6 DEF Next

\* Exit closes an open channel only when nothing is on its way and nothing can
\* print any more (runCmd's Wait and outputDone, backend.Wait, and the router's
\* message before Exit).
THEOREM ServerOutputBeforeStatus == Spec => OutputBeforeStatus
<1>1. ServerInv /\ [Next]_vars =>
          [status = NoStatus /\ status' # NoStatus /\ chan = "open" => ~out /\ ~child]_vars
  <2> SUFFICES ASSUME ServerInv, [Next]_vars, status' # status, chan = "open"
               PROVE  ~out /\ ~child
    OBVIOUS
  <2>1. HandlerType /\ HandlerInv /\ RunInv /\ BackendInv
    BY DEF ServerInv, SessionInv
  <2>2. ASSUME NEW pty \in BOOLEAN, NEW ok \in BOOLEAN, NEW want \in WantPty,
               StartRun(pty, want, ok)
        PROVE  ~out /\ ~child
    BY <2>1, <2>2 DEF StartRun, RunInv
  <2>3. ASSUME NEW copyFailed \in BOOLEAN, FinishRun(copyFailed) PROVE ~out /\ ~child
    BY <2>1, <2>3 DEF FinishRun, RunDone, WaitReturns, RunInv
  <2>4. CASE ExitProxy
    BY <2>1, <2>4 DEF ExitProxy, HandlerInv, HandlerType, RunInv
  <2>5. QED
    BY <2>2, <2>3, <2>4, StatusSenders
<1>2. QED
  BY <1>1, ServerInvariant, PTL DEF Spec, OutputBeforeStatus
=============================================================================

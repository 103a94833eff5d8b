------------------------------- MODULE Guest -------------------------------
(***************************************************************************)
(* The SSH server inside a cloud guest (support/guest): its configuration  *)
(* from the environment, the idle timer that ends the process, and the     *)
(* sessions it serves.  The timer's callback, the session handlers and the *)
(* processes they run are concurrent; idleMu makes each critical section   *)
(* one step.                                                               *)
(***************************************************************************)
EXTENDS Integers, FiniteSets

CONSTANTS Sessions,      \* the session channels clients open over the guest's life
          ExitCodes,     \* what ExitError.ExitCode may return; -1 is a signal
          Uint32Values   \* the number of values of an exit status: 2^32

ASSUME GuestAssumption == /\ IsFiniteSet(Sessions)
                          /\ ExitCodes \subseteq -1 .. 255
                          /\ Uint32Values \in Nat /\ Uint32Values > 255

VARIABLES
    alive,          \* "off", "up", "fatal" (exit 1) or "idle" (exit 0 of the timer)
    activeSession,  \* the variables of main.go ...
    idleGeneration,
    idleTimer,      \* the last timer made: its generation, whether it is armed
    fired,          \* timers whose callback has started and waits for idleMu
    pc,             \* where each session's goroutine is
    req,            \* each session's request: a PTY?  a command?
    args,           \* the shell arguments handleSession chose
    stdin,          \* the client's end of the input: "open", "eof" or "gone"
    child,          \* a descendant of the command still holds its output open
    code,           \* how the command ended
    status,         \* the exit status sent to the client
    events,         \* history: how many sessions have started and finished
    exitAt          \* history: events when the timer that ended the guest was armed

timing == <<activeSession, idleGeneration, idleTimer, fired, events, exitAt>>
work   == <<req, args, stdin, child, code, status>>
vars   == <<alive, timing, pc, work>>

\* "opening": the channel is open and the handler's goroutine not yet in
\* sessionStarted; "ending": only the deferred sessionFinished is left.
PC      == {"new", "rejected", "opening", "started", "running", "waiting", "ending", "done"}
Started == {"started", "running", "waiting", "ending"}

NoCode == -2

\* Mutant: the code is sent as it is.
uint32Signed(c) == c

uint32(c) == c % Uint32Values   \* s.Exit sends the code as a uint32

Init ==
    /\ alive = "off"
    /\ activeSession = 0 /\ idleGeneration = 0 /\ fired = {}
    /\ idleTimer = [gen |-> 0, at |-> 0, armed |-> FALSE]
    /\ events = 0 /\ exitAt = 0
    /\ pc = [s \in Sessions |-> "new"]
    /\ req = [s \in Sessions |-> [pty |-> FALSE, raw |-> FALSE]]
    /\ args = [s \in Sessions |-> "none"]
    /\ stdin = [s \in Sessions |-> "open"]
    /\ child = [s \in Sessions |-> FALSE]
    /\ code = [s \in Sessions |-> NoCode]
    /\ status = [s \in Sessions |-> NoCode]

-----------------------------------------------------------------------------
(* Configuration: config.go.  A setting is abstracted to what its parser   *)
(* tells apart.                                                            *)

Setting == {"unset", "malformed", "nonpositive", "ok"}

parseHostKey(raw)     == raw = "ok"
parseAllowKey(raw)    == raw = "ok"
parseIdleTimeout(raw) == raw \in {"unset", "ok"}

\* init reads all three before main runs.
initSucceeds(host, allow, idle) ==
    parseHostKey(host) /\ parseAllowKey(allow) /\ parseIdleTimeout(idle)

-----------------------------------------------------------------------------
(* The idle timer.  n is the number of session events once the step is     *)
(* done; time.Timer.Stop prevents a callback that has not started.         *)

Stopped(timer) == [timer EXCEPT !.armed = FALSE]

\* Mutant: the callback captures the generation before it is advanced.
resetIdleTimerLockedStale(gen, n) ==
    /\ idleGeneration' = gen + 1
    /\ idleTimer' = [gen |-> gen, at |-> n, armed |-> TRUE]

\* gen is the generation when the function is entered.
resetIdleTimerLocked(gen, n) ==
    /\ idleGeneration' = gen + 1
    /\ idleTimer' = [gen |-> gen + 1, at |-> n, armed |-> TRUE]

\* init and main: a bad environment or a port that cannot be bound is fatal.
Boot(host, allow, idle, listens) ==
    /\ alive = "off"
    /\ IF initSucceeds(host, allow, idle)
         THEN /\ resetIdleTimerLocked(idleGeneration, events)
              /\ alive' = IF listens THEN "up" ELSE "fatal"
         ELSE alive' = "fatal" /\ UNCHANGED <<idleGeneration, idleTimer>>
    /\ UNCHANGED <<activeSession, fired, events, exitAt, pc, work>>

\* The timer expires and its callback starts in a goroutine of its own.
TimerFires ==
    /\ alive = "up" /\ idleTimer.armed
    /\ idleTimer' = Stopped(idleTimer)
    /\ fired' = fired \cup {[gen |-> idleTimer.gen, at |-> idleTimer.at]}
    /\ UNCHANGED <<alive, activeSession, idleGeneration, events, exitAt, pc, work>>

\* Mutant: the generation is not compared.
ExpiredNoGeneration(t) == activeSession = 0

\* Mutant: an expired timer ends the process without looking again.
ExpiredUnchecked(t) == t \in fired

\* The callback's test under idleMu.
Expired(t) == activeSession = 0 /\ t.gen = idleGeneration

\* The callback gets idleMu and ends the process, or finds it is out of date.
IdleCallback(t) ==
    /\ alive = "up" /\ t \in fired
    /\ fired' = fired \ {t}
    /\ IF Expired(t) THEN alive' = "idle" /\ exitAt' = t.at
                     ELSE UNCHANGED <<alive, exitAt>>
    /\ UNCHANGED <<activeSession, idleGeneration, idleTimer, events, pc, work>>

-----------------------------------------------------------------------------
(* Sessions *)

\* A client offers a key; with the right one (allowMuxKey) it opens a channel
\* and asks for a shell or a command, with or without a PTY.
OpenSession(s, key, r) ==
    /\ alive = "up" /\ pc[s] = "new"
    /\ IF key = "mux" THEN pc' = [pc EXCEPT ![s] = "opening"] /\ req' = [req EXCEPT ![s] = r]
                      ELSE pc' = [pc EXCEPT ![s] = "rejected"] /\ UNCHANGED req
    /\ UNCHANGED <<alive, timing, args, stdin, child, code, status>>

\* Mutant: the session is not counted.
sessionStartedUncounted ==
    /\ idleGeneration' = idleGeneration + 1
    /\ idleTimer' = Stopped(idleTimer)
    /\ UNCHANGED activeSession

sessionStarted ==
    /\ activeSession' = activeSession + 1
    /\ idleGeneration' = idleGeneration + 1
    /\ idleTimer' = Stopped(idleTimer)

\* The arguments handleSession gives the shell: a command is used only
\* without a PTY.
ShellArgs(r) == IF r.pty THEN "-li" ELSE IF r.raw THEN "-lc" ELSE "-l"

\* handleSession up to the start of the command.
HandleSession(s) ==
    /\ alive = "up" /\ pc[s] = "opening"
    /\ sessionStarted
    /\ events' = events + 1
    /\ pc' = [pc EXCEPT ![s] = "started"]
    /\ args' = [args EXCEPT ![s] = ShellArgs(req[s])]
    /\ UNCHANGED <<alive, fired, exitAt, req, stdin, child, code, status>>

\* runWithPTY and runDirect start the command, or report status 1.
StartCommand(s, ok) ==
    /\ alive = "up" /\ pc[s] = "started"
    /\ IF ok THEN pc' = [pc EXCEPT ![s] = "running"] /\ UNCHANGED status
             ELSE pc' = [pc EXCEPT ![s] = "ending"] /\ status' = [status EXCEPT ![s] = 1]
    /\ UNCHANGED <<alive, timing, req, args, stdin, child, code>>

\* The command ends, perhaps leaving a descendant that holds its output.
CommandExits(s, c, leavesChild) ==
    /\ alive = "up" /\ pc[s] = "running"
    /\ pc' = [pc EXCEPT ![s] = "waiting"]
    /\ code' = [code EXCEPT ![s] = c]
    /\ child' = [child EXCEPT ![s] = leavesChild]
    /\ UNCHANGED <<alive, timing, req, args, stdin, status>>

ChildExits(s) ==
    /\ alive = "up" /\ child[s]
    /\ child' = [child EXCEPT ![s] = FALSE]
    /\ UNCHANGED <<alive, timing, pc, req, args, stdin, code, status>>

\* The client sends EOF (or input to a command that is gone, which also ends
\* the copy of its input), or hangs up.  Nothing tells the command to stop.
ClientCloses(s, how) ==
    /\ alive = "up" /\ pc[s] \in {"opening"} \cup Started /\ stdin[s] = "open"
    /\ stdin' = [stdin EXCEPT ![s] = how]
    /\ UNCHANGED <<alive, timing, pc, req, args, child, code, status>>

\* Without a PTY the session is cmd's Stdin, Stdout and Stderr, none of them a
\* file: Wait also waits for the goroutines that copy them.
WaitReturns(s) == req[s].pty \/ (stdin[s] # "open" /\ ~child[s])

\* Mutant: every code is shifted by one.
ExitStatusShifted(c, copyFailed) ==
    IF c # 0 THEN uint32(c + 1) ELSE IF copyFailed THEN 1 ELSE 0

\* The status sent after Wait: the code of an ExitError, 1 for another error
\* (copying to a client that is gone), otherwise 0.
ExitStatus(c, copyFailed) ==
    IF c # 0 THEN uint32(c) ELSE IF copyFailed THEN 1 ELSE 0

\* cmd.Wait returns and the status is sent.
FinishCommand(s, copyFailed) ==
    /\ alive = "up" /\ pc[s] = "waiting" /\ WaitReturns(s)
    /\ copyFailed => ~req[s].pty /\ stdin[s] = "gone"
    /\ status' = [status EXCEPT ![s] = ExitStatus(code[s], copyFailed)]
    /\ pc' = [pc EXCEPT ![s] = "ending"]
    /\ UNCHANGED <<alive, timing, req, args, stdin, child, code>>

\* Mutant: the timer is made again only when the counter went below zero.
sessionFinishedBelowZero(n) ==
    IF activeSession - 1 < 0
      THEN activeSession' = 0 /\ resetIdleTimerLocked(idleGeneration, n)
      ELSE activeSession' = activeSession - 1 /\ UNCHANGED <<idleGeneration, idleTimer>>

\* Mutant: the guest counts as idle whenever a session ends.
sessionFinishedAlwaysIdle(n) == activeSession' = 0 /\ resetIdleTimerLocked(idleGeneration, n)

sessionFinished(n) ==
    IF activeSession - 1 <= 0
      THEN activeSession' = 0 /\ resetIdleTimerLocked(idleGeneration, n)
      ELSE activeSession' = activeSession - 1 /\ UNCHANGED <<idleGeneration, idleTimer>>

\* The deferred call at the end of handleSession.
EndSession(s) ==
    /\ alive = "up" /\ pc[s] = "ending"
    /\ sessionFinished(events + 1)
    /\ events' = events + 1
    /\ pc' = [pc EXCEPT ![s] = "done"]
    /\ UNCHANGED <<alive, fired, exitAt, work>>

Request == [pty: BOOLEAN, raw: BOOLEAN]

Next ==
    \/ \E host, allow, idle \in Setting, listens \in BOOLEAN : Boot(host, allow, idle, listens)
    \/ TimerFires
    \/ \E t \in fired : IdleCallback(t)
    \/ \E s \in Sessions :
        \/ \E key \in {"mux", "other"}, r \in Request : OpenSession(s, key, r)
        \/ HandleSession(s)
        \/ \E ok \in BOOLEAN : StartCommand(s, ok)
        \/ \E c \in ExitCodes, leavesChild \in BOOLEAN : CommandExits(s, c, leavesChild)
        \/ ChildExits(s)
        \/ \E how \in {"eof", "gone"} : ClientCloses(s, how)
        \/ \E copyFailed \in BOOLEAN : FinishCommand(s, copyFailed)
        \/ EndSession(s)

Spec == Init /\ [][Next]_vars

\* What a session's goroutine does next, in the order of its code.
HandlerStep(s) ==
    \/ HandleSession(s)
    \/ \E ok \in BOOLEAN : StartCommand(s, ok)
    \/ \E copyFailed \in BOOLEAN : FinishCommand(s, copyFailed)
    \/ EndSession(s)

\* The runtime runs an expired timer and every runnable goroutine.  Commands
\* and clients owe nothing.
Fairness ==
    /\ WF_vars(TimerFires)
    /\ WF_vars(\E t \in fired : IdleCallback(t))
    /\ \A s \in Sessions : WF_vars(HandlerStep(s))

FairSpec == Spec /\ Fairness

-----------------------------------------------------------------------------
(* Properties *)

\* The types of the variables; an exit status fits the uint32 it is sent as.
TypeOK ==
    /\ alive \in {"off", "up", "fatal", "idle"}
    /\ activeSession \in Nat /\ idleGeneration \in Nat /\ events \in Nat /\ exitAt \in Nat
    /\ idleTimer \in [gen: Nat, at: Nat, armed: BOOLEAN]
    /\ fired \subseteq [gen: Nat, at: Nat]
    /\ pc \in [Sessions -> PC]
    /\ req \in [Sessions -> Request]
    /\ args \in [Sessions -> {"none", "-l", "-li", "-lc"}]
    /\ stdin \in [Sessions -> {"open", "eof", "gone"}]
    /\ child \in [Sessions -> BOOLEAN]
    /\ code \in [Sessions -> ExitCodes \cup {NoCode}]
    /\ status \in [Sessions -> 0 .. Uint32Values - 1 \cup {NoCode}]

\* The sessions between sessionStarted and sessionFinished.
ActiveSessions == {s \in Sessions : pc[s] \in Started}

\* The guest never exits for idleness under a session: a callback that had
\* already started when the session began finds the generation changed.
NoExitDuringSession == alive = "idle" => ActiveSessions = {}

\* The timer that ends the guest was armed after the last session event, so
\* the whole idle timeout has passed: a callback delayed past a complete
\* session does not cut the next idle period short.
FullIdlePeriod == alive = "idle" => exitAt = events

\* The counter is the number of sessions being handled: the clamp of
\* sessionFinished never hides a miscount.
CounterExact == activeSession = Cardinality(ActiveSessions)

\* A timer or callback that resetIdleTimerLocked has not replaced.
Current(t) == t.gen = idleGeneration

\* An idle guest always has its current timer armed, or that timer's callback
\* on the way; a busy one never.
IdleTimerPending ==
    alive = "up" =>
        (activeSession = 0 <=>
            (idleTimer.armed /\ Current(idleTimer)) \/ \E t \in fired : Current(t))

\* A client is told 0 only when its command ran and ended with 0.
ZeroMeansSuccess == \A s \in Sessions : status[s] = 0 => code[s] = 0

\* A guest whose sessions have ended for good exits.
IdleGuestExits == <>[](activeSession = 0) => <>[](alive # "up")

Life == INSTANCE GuestLife WITH life <- alive, active <- ActiveSessions

\* The guest with its counter, generations, timers and late callbacks
\* implements GuestLife, fairness included: it ends by itself exactly when it
\* has been left alone (what CloudGuest takes a guest to be).
RefinesGuestLife == Life!Spec

\* The README of the repository (271-273): the guest "starts $SHELL for shell
\* sessions or runs the client's requested command through $SHELL -lc".
CommandHonoured == \A s \in Sessions : args[s] # "none" /\ req[s].raw => args[s] = "-lc"
-----------------------------------------------------------------------------
(* The inductive invariant from which GuestProofs derives the properties.  *)

\* A timer or a callback of the current generation belongs to an idle period
\* that began with the last session event; all others are older.
TimerInv ==
    /\ idleTimer.gen <= idleGeneration
    /\ \A t \in fired : t.gen <= idleGeneration
    /\ idleTimer.armed => Current(idleTimer) /\ idleTimer.at = events /\ activeSession = 0
    /\ \A t \in fired : Current(t) => t.at = events /\ activeSession = 0
    /\ alive = "off" => activeSession = 0
    /\ alive = "up" /\ activeSession = 0 => idleTimer.armed \/ \E t \in fired : Current(t)

ExitInv == alive = "idle" => activeSession = 0 /\ exitAt = events

\* A status is sent once, after the command has ended.
StatusInv ==
    \A s \in Sessions : /\ pc[s] \in PC \ {"ending", "done"} => status[s] = NoCode
                        /\ pc[s] = "waiting" => code[s] \in ExitCodes
                        /\ status[s] = 0 => code[s] = 0

GuestInv == TypeOK /\ CounterExact /\ TimerInv /\ ExitInv /\ StatusInv
=============================================================================

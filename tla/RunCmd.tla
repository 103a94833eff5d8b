------------------------------- MODULE RunCmd -------------------------------
(***************************************************************************)
(* The handler of a run route (internal/server/cmd.go and pty.go): runCmd  *)
(* starts the command with the session as its terminal or as its standard  *)
(* streams, copies input and output in goroutines of their own, and waits. *)
(***************************************************************************)
EXTENDS Session

VARIABLES
    cmd,      \* the process: "none", "running" or "exited"
    child,    \* a descendant that still holds the command's output
    tty,      \* whether the command has a PTY
    inCopy,   \* the goroutine that copies the session's input is running
    outCopy   \* the one that copies the output

run == <<cmd, child, tty, inCopy, outCopy>>

RunInit ==
    /\ cmd = "none" /\ child = FALSE /\ tty = FALSE
    /\ inCopy = FALSE /\ outCopy = FALSE

\* run.pty of the route: unset, true or false.
WantPty == {"unset", "yes", "no"}

\* runCmd up to its Wait.  pty: the client asked for a PTY; ok: the command
\* starts.
StartRun(pty, want, ok) ==
    /\ kind = "run" /\ pc = "routed"
    /\ IF (want = "yes" /\ ~pty) \/ ~ok
         THEN Exit(ExitCode("other")) /\ UNCHANGED run
         ELSE /\ pc' = "running" /\ cmd' = "running"
              /\ tty' = (pty /\ want # "no")
              /\ inCopy' = TRUE /\ outCopy' = TRUE
              /\ UNCHANGED <<link, status, child>>
    /\ UNCHANGED <<out, handing, sigCh, ended>>

\* The command, or what it left behind, prints.
CommandPrints ==
    /\ kind = "run" /\ (cmd = "running" \/ child) /\ outCopy /\ ~out
    /\ out' = TRUE
    /\ UNCHANGED <<link, handing, pc, status, sigCh, ended, run>>

\* The process ends; its descendants may live on.
ProcessEnds(how, leavesChild) ==
    /\ cmd = "running"
    /\ cmd' = "exited" /\ ended' = how /\ child' = leavesChild
    /\ UNCHANGED <<link, handing, pc, status, out, sigCh, tty, inCopy, outCopy>>

CommandExits(leavesChild) == \E how \in {"nil", "exit"} : ProcessEnds(how, leavesChild)

\* Mutant: the command is not tied to the session's context.
KillNever(leavesChild) == FALSE /\ ProcessEnds("signal", leavesChild)

\* exec.CommandContext: the process, but not its descendants, is killed once
\* the session's context is done.
Kill(leavesChild) == Cancelled /\ ProcessEnds("signal", leavesChild)

ChildExits ==
    /\ child /\ child' = FALSE
    /\ UNCHANGED <<session, cmd, tty, inCopy, outCopy>>

\* A write to a channel that is closed ends the copy.
CopyOutput ==
    /\ outCopy /\ out
    /\ out' = FALSE
    /\ outCopy' = (chan = "open")
    /\ UNCHANGED <<link, handing, pc, status, sigCh, ended, cmd, child, tty, inCopy>>

\* Nobody holds the other end of the output.
OutputEnds ==
    /\ outCopy /\ ~out /\ cmd = "exited" /\ ~child
    /\ outCopy' = FALSE
    /\ UNCHANGED <<session, cmd, child, tty, inCopy>>

\* The session's input is at its end.
InputCopyEnds ==
    /\ inCopy /\ (~input \/ chan = "closed")
    /\ inCopy' = FALSE
    /\ UNCHANGED <<session, cmd, child, tty, outCopy>>

\* Without a PTY the streams are no files: Wait waits for their goroutines.
WaitReturns == cmd = "exited" /\ (tty \/ (~inCopy /\ ~outCopy))

\* Mutant: with a PTY runCmd does not wait for outputDone.
RunDoneEarly == WaitReturns

RunDone == WaitReturns /\ ~outCopy

\* runCmd returns and the router sends the status.  Where the client is gone
\* Wait may report the failed copy of a command that succeeded.
FinishRun(copyFailed) ==
    /\ kind = "run" /\ pc = "running" /\ RunDone
    /\ copyFailed => ~tty /\ chan = "closed"
    /\ Exit(Result(IF copyFailed /\ ended = "nil" THEN "other" ELSE ended))
    /\ UNCHANGED <<handing, out, sigCh, ended, run>>

\* The handler's own steps.
RunHandler ==
    \/ \E pty, ok \in BOOLEAN, want \in WantPty : StartRun(pty, want, ok)
    \/ \E copyFailed \in BOOLEAN : FinishRun(copyFailed)

KillCommand == \E leavesChild \in BOOLEAN : Kill(leavesChild)

\* What the command does is up to it.
RunNext ==
    \/ RunHandler \/ KillCommand \/ CopyOutput \/ OutputEnds \/ InputCopyEnds
    \/ \E leavesChild \in BOOLEAN : CommandExits(leavesChild)
    \/ CommandPrints \/ ChildExits
=============================================================================

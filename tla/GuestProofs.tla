---------------------------- MODULE GuestProofs ----------------------------
(***************************************************************************)
(* Proofs about Guest for every finite set of sessions and every exit code *)
(* a command may have.                                                     *)
(***************************************************************************)
EXTENDS Guest, FiniteSetTheorems, TLAPS

-----------------------------------------------------------------------------
(* Exit statuses *)

\* The conversion to uint32 maps only 0 to 0.
LEMMA Uint32 ==
    ASSUME NEW c \in ExitCodes
    PROVE  /\ uint32(c) \in 0 .. Uint32Values - 1
           /\ uint32(c) = 0 => c = 0
<1>1. c \in -1 .. 255 /\ Uint32Values \in Nat /\ Uint32Values > 255
  BY GuestAssumption
<1>2. CASE c \in 0 .. 255
  <2>1. c % Uint32Values = c
    BY <1>1, <1>2
  <2>2. QED
    BY <1>1, <1>2, <2>1 DEF uint32
<1>3. CASE c = -1
  <2>1. c % Uint32Values = Uint32Values - 1
    BY <1>1, <1>3
  <2>2. QED
    BY <1>1, <1>3, <2>1 DEF uint32
<1>4. QED
  BY <1>1, <1>2, <1>3

\* A status of 0 means the code was 0.
LEMMA ZeroStatus ==
    ASSUME NEW c \in ExitCodes, NEW f \in BOOLEAN
    PROVE  /\ ExitStatus(c, f) \in 0 .. Uint32Values - 1
           /\ ExitStatus(c, f) = 0 => c = 0
BY Uint32, GuestAssumption DEF ExitStatus

-----------------------------------------------------------------------------
(* The session counter *)

LEMMA CounterStart ==
    ASSUME TypeOK, CounterExact, NEW s \in Sessions, pc[s] = "opening",
           pc' = [pc EXCEPT ![s] = "started"], activeSession' = activeSession + 1
    PROVE  CounterExact'
<1>1. IsFiniteSet(ActiveSessions)
  BY GuestAssumption, FS_Subset DEF ActiveSessions
<1>2. ActiveSessions' = ActiveSessions \cup {s} /\ s \notin ActiveSessions
  BY DEF ActiveSessions, TypeOK, Started
<1>3. QED
  BY <1>1, <1>2, FS_AddElement DEF CounterExact

LEMMA CounterEnd ==
    ASSUME TypeOK, CounterExact, NEW s \in Sessions, pc[s] = "ending",
           pc' = [pc EXCEPT ![s] = "done"]
    PROVE  /\ Cardinality(ActiveSessions') = activeSession - 1
           /\ activeSession - 1 \in Nat
<1>1. IsFiniteSet(ActiveSessions)
  BY GuestAssumption, FS_Subset DEF ActiveSessions
<1>2. ActiveSessions' = ActiveSessions \ {s} /\ s \in ActiveSessions
  BY DEF ActiveSessions, TypeOK, Started
<1>3. IsFiniteSet(ActiveSessions')
  BY <1>1, <1>2, FS_RemoveElement
<1>4. Cardinality(ActiveSessions') = activeSession - 1
  BY <1>1, <1>2, FS_RemoveElement DEF CounterExact
<1>5. QED
  BY <1>3, <1>4, FS_CardinalityType

\* A step that moves a session within Started, or outside it, leaves the
\* counter exact.
LEMMA CounterSame ==
    ASSUME TypeOK, CounterExact, NEW s \in Sessions, NEW l,
           pc' = [pc EXCEPT ![s] = l], pc[s] \in Started <=> l \in Started,
           UNCHANGED activeSession
    PROVE  CounterExact'
<1>1. ActiveSessions' = ActiveSessions
  BY DEF ActiveSessions, TypeOK
<1>2. QED
  BY <1>1 DEF CounterExact
-----------------------------------------------------------------------------
(* The inductive invariant *)

LEMMA GuestInit == Init => GuestInv
<1> SUFFICES ASSUME Init PROVE GuestInv
  OBVIOUS
<1> USE GuestAssumption DEF Init
<1>1. TypeOK
  BY DEF TypeOK, PC, Request, NoCode
<1>2. CounterExact
  <2>1. ActiveSessions = {}
    BY DEF ActiveSessions, Started
  <2>2. QED
    BY <2>1, FS_EmptySet DEF CounterExact
<1>3. TimerInv /\ ExitInv /\ StatusInv
  BY DEF TimerInv, ExitInv, StatusInv, Current, PC, NoCode
<1>4. QED
  BY <1>1, <1>2, <1>3 DEF GuestInv

\* A step of a session that changes neither the counter nor the timer.
LEMMA Untimed ==
    ASSUME GuestInv, UNCHANGED <<alive, timing>>, TypeOK', CounterExact', StatusInv'
    PROVE  GuestInv'
BY DEF GuestInv, timing, TimerInv, ExitInv, Current

LEMMA GuestStep == GuestInv /\ [Next]_vars => GuestInv'
<1> SUFFICES ASSUME GuestInv, [Next]_vars PROVE GuestInv'
  OBVIOUS
<1> USE GuestAssumption DEF GuestInv
<1>1. ASSUME NEW host \in Setting, NEW allow \in Setting, NEW idle \in Setting,
             NEW listens \in BOOLEAN, Boot(host, allow, idle, listens)
      PROVE  GuestInv'
  <2>1. /\ alive = "off" /\ alive' \in {"up", "fatal"}
        /\ UNCHANGED <<activeSession, fired, events, exitAt, pc, work>>
    BY <1>1 DEF Boot
  <2>2. CounterExact' /\ StatusInv' /\ ExitInv'
    BY <2>1 DEF CounterExact, ActiveSessions, StatusInv, ExitInv, work
  <2>3. CASE initSucceeds(host, allow, idle)
    <3>1. /\ idleGeneration' = idleGeneration + 1
          /\ idleTimer' = [gen |-> idleGeneration + 1, at |-> events, armed |-> TRUE]
      BY <1>1, <2>3 DEF Boot, resetIdleTimerLocked
    <3>2. TypeOK'
      BY <2>1, <3>1 DEF TypeOK, work
    <3>3. activeSession = 0
      BY <2>1 DEF TimerInv
    <3>4. TimerInv'
      BY <2>1, <3>1, <3>3 DEF TimerInv, Current, TypeOK
    <3>5. QED
      BY <2>2, <3>2, <3>4
  <2>4. CASE ~initSucceeds(host, allow, idle)
    <3>1. alive' = "fatal" /\ UNCHANGED <<idleGeneration, idleTimer>>
      BY <1>1, <2>4 DEF Boot
    <3>2. TypeOK' /\ TimerInv'
      BY <2>1, <3>1 DEF TypeOK, TimerInv, Current, work
    <3>3. QED
      BY <2>2, <3>2
  <2>5. QED
    BY <2>3, <2>4
<1>2. ASSUME TimerFires PROVE GuestInv'
  <2>1. /\ alive = "up" /\ idleTimer.armed /\ idleTimer' = [idleTimer EXCEPT !.armed = FALSE]
        /\ fired' = fired \cup {[gen |-> idleTimer.gen, at |-> idleTimer.at]}
        /\ UNCHANGED <<alive, activeSession, idleGeneration, events, exitAt, pc, work>>
    BY <1>2 DEF TimerFires, Stopped
  <2> DEFINE t == [gen |-> idleTimer.gen, at |-> idleTimer.at]
  <2>2. /\ t \in [gen: Nat, at: Nat] /\ t.gen = idleTimer.gen /\ t.at = idleTimer.at
        /\ idleTimer'.gen = idleTimer.gen /\ idleTimer'.armed = FALSE
        /\ idleTimer' \in [gen: Nat, at: Nat, armed: BOOLEAN]
    BY <2>1 DEF TypeOK
  <2> HIDE DEF t
  <2>3. fired' = fired \cup {t}
    BY <2>1 DEF t
  <2>4. TypeOK'
    BY <2>1, <2>2, <2>3 DEF TypeOK, work
  <2>5. CounterExact' /\ StatusInv' /\ ExitInv'
    BY <2>1 DEF CounterExact, ActiveSessions, StatusInv, ExitInv, work
  <2>6. TimerInv'
    BY <2>1, <2>2, <2>3 DEF TimerInv, Current, TypeOK
  <2>7. QED
    BY <2>4, <2>5, <2>6
<1>3. ASSUME NEW t \in fired, IdleCallback(t) PROVE GuestInv'
  <2>1. /\ alive = "up" /\ fired' = fired \ {t}
        /\ UNCHANGED <<activeSession, idleGeneration, idleTimer, events, pc, work>>
    BY <1>3 DEF IdleCallback
  <2>2. CounterExact' /\ StatusInv'
    BY <2>1 DEF CounterExact, ActiveSessions, StatusInv, work
  <2>3. CASE Expired(t)
    <3>1. alive' = "idle" /\ exitAt' = t.at
      BY <1>3, <2>3 DEF IdleCallback
    <3>2. activeSession = 0 /\ t.at = events
      BY <2>3 DEF Expired, TimerInv, Current
    <3>3. TypeOK' /\ TimerInv' /\ ExitInv'
      BY <2>1, <3>1, <3>2 DEF TypeOK, TimerInv, ExitInv, Current, work
    <3>4. QED
      BY <2>2, <3>3
  <2>4. CASE ~Expired(t)
    <3>1. UNCHANGED <<alive, exitAt>>
      BY <1>3, <2>4 DEF IdleCallback
    <3>2. ~Current(t)
      BY <2>4 DEF Expired, TimerInv, Current
    <3>3. TypeOK' /\ TimerInv' /\ ExitInv'
      BY <2>1, <3>1, <3>2 DEF TypeOK, TimerInv, ExitInv, Current, work
    <3>4. QED
      BY <2>2, <3>3
  <2>5. QED
    BY <2>3, <2>4
<1>4. ASSUME NEW s \in Sessions, NEW key \in {"mux", "other"}, NEW r \in Request,
             OpenSession(s, key, r)
      PROVE  GuestInv'
  <2>1. /\ alive = "up" /\ pc[s] = "new" /\ UNCHANGED <<alive, timing, args, stdin, child, code, status>>
        /\ req' \in {req, [req EXCEPT ![s] = r]}
    BY <1>4 DEF OpenSession
  <2>2. PICK l \in {"opening", "rejected"} : pc' = [pc EXCEPT ![s] = l]
    BY <1>4 DEF OpenSession
  <2>3. TypeOK'
    BY <2>1, <2>2 DEF TypeOK, timing, PC
  <2>4. CounterExact'
    BY <2>1, <2>2, CounterSame DEF timing, Started
  <2>5. StatusInv'
    BY <2>1, <2>2 DEF StatusInv, TypeOK, PC
  <2>6. QED
    BY <2>1, <2>3, <2>4, <2>5, Untimed
<1>5. ASSUME NEW s \in Sessions, HandleSession(s) PROVE GuestInv'
  <2>1. /\ alive = "up" /\ pc[s] = "opening" /\ pc' = [pc EXCEPT ![s] = "started"]
        /\ activeSession' = activeSession + 1 /\ idleGeneration' = idleGeneration + 1
        /\ idleTimer' = [idleTimer EXCEPT !.armed = FALSE]
        /\ events' = events + 1 /\ args' = [args EXCEPT ![s] = ShellArgs(req[s])]
        /\ UNCHANGED <<alive, fired, exitAt, req, stdin, child, code, status>>
    BY <1>5 DEF HandleSession, sessionStarted, Stopped
  <2>2. ShellArgs(req[s]) \in {"-l", "-li", "-lc"}
    BY DEF ShellArgs
  <2>3. TypeOK'
    <3>1. args' \in [Sessions -> {"none", "-l", "-li", "-lc"}]
      BY <2>1, <2>2 DEF TypeOK
    <3>2. pc' \in [Sessions -> PC]
      BY <2>1 DEF TypeOK, PC
    <3>3. idleTimer' \in [gen: Nat, at: Nat, armed: BOOLEAN]
      BY <2>1 DEF TypeOK
    <3>4. QED
      BY <2>1, <3>1, <3>2, <3>3 DEF TypeOK
  <2>4. CounterExact'
    BY <2>1, CounterStart
  <2>5. TimerInv'
    <3>1. idleTimer'.gen = idleTimer.gen /\ idleTimer'.armed = FALSE
      BY <2>1 DEF TypeOK
    <3>2. \A t \in fired : t.gen \in Nat /\ t.gen < idleGeneration + 1
      BY DEF TimerInv, TypeOK
    <3>3. idleTimer.gen \in Nat /\ idleGeneration \in Nat /\ activeSession \in Nat
      BY DEF TypeOK
    <3>4. QED
      BY <2>1, <3>1, <3>2, <3>3 DEF TimerInv, Current
  <2>6. StatusInv' /\ ExitInv'
    BY <2>1 DEF StatusInv, ExitInv, TypeOK, PC
  <2>7. QED
    BY <2>3, <2>4, <2>5, <2>6
<1>6. ASSUME NEW s \in Sessions, NEW ok \in BOOLEAN, StartCommand(s, ok) PROVE GuestInv'
  <2>1. /\ alive = "up" /\ pc[s] = "started"
        /\ UNCHANGED <<alive, timing, req, args, stdin, child, code>>
    BY <1>6 DEF StartCommand
  <2>2. \/ pc' = [pc EXCEPT ![s] = "running"] /\ UNCHANGED status
        \/ pc' = [pc EXCEPT ![s] = "ending"] /\ status' = [status EXCEPT ![s] = 1]
    BY <1>6 DEF StartCommand
  <2>3. TypeOK'
    BY <2>1, <2>2 DEF TypeOK, timing, PC
  <2>4. CounterExact'
    BY <2>1, <2>2, CounterSame DEF timing, Started
  <2>5. StatusInv'
    BY <2>1, <2>2 DEF StatusInv, TypeOK, PC
  <2>6. QED
    BY <2>1, <2>3, <2>4, <2>5, Untimed
<1>7. ASSUME NEW s \in Sessions, NEW c \in ExitCodes, NEW leaves \in BOOLEAN,
             CommandExits(s, c, leaves)
      PROVE  GuestInv'
  <2>1. /\ alive = "up" /\ pc[s] = "running" /\ pc' = [pc EXCEPT ![s] = "waiting"]
        /\ code' = [code EXCEPT ![s] = c] /\ child' = [child EXCEPT ![s] = leaves]
        /\ UNCHANGED <<alive, timing, req, args, stdin, status>>
    BY <1>7 DEF CommandExits
  <2>2. TypeOK'
    BY <2>1 DEF TypeOK, timing, PC
  <2>3. CounterExact'
    BY <2>1, CounterSame DEF timing, Started
  <2>4. StatusInv'
    BY <2>1 DEF StatusInv, TypeOK, PC, NoCode
  <2>5. QED
    BY <2>1, <2>2, <2>3, <2>4, Untimed
<1>8. ASSUME NEW s \in Sessions, ChildExits(s) \/ ClientCloses(s, "eof") \/ ClientCloses(s, "gone")
      PROVE  GuestInv'
  <2>1. /\ UNCHANGED <<alive, timing, pc, req, args, code, status>>
        /\ child' \in {child, [child EXCEPT ![s] = FALSE]}
        /\ \E how \in {"eof", "gone"} : stdin' \in {stdin, [stdin EXCEPT ![s] = how]}
    BY <1>8 DEF ChildExits, ClientCloses
  <2>2. TypeOK'
    BY <2>1 DEF TypeOK, timing
  <2>3. CounterExact' /\ StatusInv'
    BY <2>1 DEF CounterExact, ActiveSessions, StatusInv, timing
  <2>4. QED
    BY <2>1, <2>2, <2>3, Untimed
<1>9. ASSUME NEW s \in Sessions, NEW f \in BOOLEAN, FinishCommand(s, f) PROVE GuestInv'
  <2>1. /\ alive = "up" /\ pc[s] = "waiting" /\ pc' = [pc EXCEPT ![s] = "ending"]
        /\ status' = [status EXCEPT ![s] = ExitStatus(code[s], f)]
        /\ UNCHANGED <<alive, timing, req, args, stdin, child, code>>
    BY <1>9 DEF FinishCommand
  <2>2. code[s] \in ExitCodes
    BY <2>1 DEF StatusInv
  <2>3. /\ ExitStatus(code[s], f) \in 0 .. Uint32Values - 1
        /\ ExitStatus(code[s], f) = 0 => code[s] = 0
    BY <2>2, ZeroStatus
  <2>4. TypeOK'
    BY <2>1, <2>3 DEF TypeOK, timing, PC
  <2>5. CounterExact'
    BY <2>1, CounterSame DEF timing, Started
  <2>6. StatusInv'
    BY <2>1, <2>3 DEF StatusInv, TypeOK, PC
  <2>7. QED
    BY <2>1, <2>4, <2>5, <2>6, Untimed
<1>10. ASSUME NEW s \in Sessions, EndSession(s) PROVE GuestInv'
  <2>1. /\ alive = "up" /\ pc[s] = "ending" /\ pc' = [pc EXCEPT ![s] = "done"]
        /\ events' = events + 1 /\ sessionFinished(events + 1)
        /\ UNCHANGED <<alive, fired, exitAt, work>>
    BY <1>10 DEF EndSession
  <2>2. Cardinality(ActiveSessions') = activeSession - 1 /\ activeSession - 1 \in Nat
    BY <2>1, CounterEnd
  <2>3. StatusInv' /\ ExitInv'
    BY <2>1 DEF StatusInv, ExitInv, TypeOK, PC, work
  <2>4. CASE activeSession - 1 <= 0
    <3>1. /\ activeSession' = 0 /\ idleGeneration' = idleGeneration + 1
          /\ idleTimer' = [gen |-> idleGeneration + 1, at |-> events + 1, armed |-> TRUE]
      BY <2>1, <2>4 DEF sessionFinished, resetIdleTimerLocked
    <3>2. TypeOK'
      BY <2>1, <3>1 DEF TypeOK, PC, work
    <3>3. CounterExact'
      <4>1. activeSession - 1 = 0
        BY <2>2, <2>4 DEF TypeOK
      <4>2. QED
        BY <2>2, <3>1, <4>1 DEF CounterExact
    <3>4. TimerInv'
      BY <2>1, <3>1 DEF TimerInv, Current, TypeOK
    <3>5. QED
      BY <2>3, <3>2, <3>3, <3>4
  <2>5. CASE ~(activeSession - 1 <= 0)
    <3>1. activeSession' = activeSession - 1 /\ UNCHANGED <<idleGeneration, idleTimer>>
      BY <2>1, <2>5 DEF sessionFinished
    <3>2. TypeOK'
      BY <2>1, <2>2, <3>1 DEF TypeOK, PC, work
    <3>3. CounterExact'
      BY <2>2, <3>1 DEF CounterExact
    <3>4. TimerInv'
      BY <2>1, <2>5, <3>1 DEF TimerInv, Current, TypeOK
    <3>5. QED
      BY <2>3, <3>2, <3>3, <3>4
  <2>6. QED
    BY <2>4, <2>5
<1>11. CASE UNCHANGED vars
  BY <1>11 DEF vars, timing, work, TypeOK, CounterExact, ActiveSessions, TimerInv, Current,
               ExitInv, StatusInv
<1>12. QED
  BY <1>1, <1>2, <1>3, <1>4, <1>5, <1>6, <1>7, <1>8, <1>9, <1>10, <1>11 DEF Next
-----------------------------------------------------------------------------
(* The properties *)

\* The inductive invariant holds in every reachable state.
THEOREM GuestInvariant == Spec => []GuestInv
BY GuestInit, GuestStep, PTL DEF Spec

\* The variables keep their types.
THEOREM GuestTypeOK == Spec => []TypeOK
<1>1. GuestInv => TypeOK
  BY DEF GuestInv
<1>2. QED
  BY <1>1, GuestInvariant, PTL

\* activeSession is the number of sessions being handled (main.go:79, 89).
THEOREM GuestCounterExact == Spec => []CounterExact
<1>1. GuestInv => CounterExact
  BY DEF GuestInv
<1>2. QED
  BY <1>1, GuestInvariant, PTL

\* The idle timer never ends the guest under a session, however late its
\* callback gets idleMu (main.go:102-107).
THEOREM GuestNoExitDuringSession == Spec => []NoExitDuringSession
<1>1. GuestInv => NoExitDuringSession
  <2> SUFFICES ASSUME GuestInv, alive = "idle" PROVE ActiveSessions = {}
    BY DEF NoExitDuringSession
  <2>1. Cardinality(ActiveSessions) = 0
    BY DEF GuestInv, CounterExact, ExitInv
  <2>2. IsFiniteSet(ActiveSessions)
    BY GuestAssumption, FS_Subset DEF ActiveSessions
  <2>3. QED
    BY <2>1, <2>2, FS_EmptySet
<1>2. QED
  BY <1>1, GuestInvariant, PTL

\* The timer that ends the guest was armed by the last session event.
THEOREM GuestFullIdlePeriod == Spec => []FullIdlePeriod
<1>1. GuestInv => FullIdlePeriod
  BY DEF GuestInv, ExitInv, FullIdlePeriod
<1>2. QED
  BY <1>1, GuestInvariant, PTL

\* A running guest is idle exactly when its current timer is armed or has just
\* expired (main.go:76-110): it cannot stay up forever for want of a timer.
THEOREM GuestIdleTimerPending == Spec => []IdleTimerPending
<1>1. GuestInv => IdleTimerPending
  BY DEF GuestInv, TimerInv, IdleTimerPending
<1>2. QED
  BY <1>1, GuestInvariant, PTL

\* A client is told 0 only when its command ended with 0 (main.go:191-203 and
\* 218-229), the conversion to uint32 included.
THEOREM GuestZeroMeansSuccess == Spec => []ZeroMeansSuccess
<1>1. GuestInv => ZeroMeansSuccess
  BY DEF GuestInv, StatusInv, ZeroMeansSuccess
<1>2. QED
  BY <1>1, GuestInvariant, PTL

-----------------------------------------------------------------------------
(* The refinement of GuestLife *)

\* No session is active when the counter is zero.
LEMMA NoneActive ==
    ASSUME GuestInv, activeSession = 0
    PROVE  ActiveSessions = {}
<1>1. Cardinality(ActiveSessions) = 0
  BY DEF GuestInv, CounterExact
<1>2. IsFiniteSet(ActiveSessions)
  BY GuestAssumption, FS_Subset DEF ActiveSessions
<1>3. QED
  BY <1>1, <1>2, FS_EmptySet

\* A step of a session that neither starts nor finishes it is not seen.
LEMMA LifeUnseen ==
    ASSUME TypeOK, alive' = alive, NEW s \in Sessions, NEW l \in PC,
           pc' = [pc EXCEPT ![s] = l], pc[s] \in Started <=> l \in Started
    PROVE  UNCHANGED Life!guest
<1>1. ActiveSessions' = ActiveSessions
  BY DEF ActiveSessions, TypeOK
<1>2. QED
  BY <1>1 DEF Life!guest

\* Every step is a step of GuestLife, or leaves what it sees unchanged.
LEMMA LifeStep == GuestInv /\ [Next]_vars => [Life!Next]_(Life!guest)
<1> SUFFICES ASSUME GuestInv, [Next]_vars
             PROVE  Life!Next \/ UNCHANGED Life!guest
  OBVIOUS
<1>1. TypeOK
  BY DEF GuestInv
<1>2. ASSUME UNCHANGED <<alive, pc>> PROVE UNCHANGED Life!guest
  BY <1>2 DEF Life!guest, ActiveSessions
<1>3. ASSUME NEW host \in Setting, NEW allow \in Setting, NEW idle \in Setting,
             NEW listens \in BOOLEAN, Boot(host, allow, idle, listens)
      PROVE  Life!Next
  <2>1. alive = "off" /\ alive' \in {"up", "fatal"} /\ UNCHANGED pc
    BY <1>3 DEF Boot
  <2>2. Life!Boot
    BY <2>1 DEF Life!Boot, ActiveSessions
  <2>3. QED
    BY <2>2 DEF Life!Next
<1>4. ASSUME TimerFires PROVE UNCHANGED Life!guest
  BY <1>2, <1>4 DEF TimerFires
<1>5. ASSUME NEW t \in fired, IdleCallback(t) PROVE Life!Next \/ UNCHANGED Life!guest
  <2>1. CASE Expired(t)
    <3>1. alive = "up" /\ alive' = "idle" /\ UNCHANGED pc
      BY <1>5, <2>1 DEF IdleCallback
    <3>2. ActiveSessions = {}
      BY <2>1, NoneActive DEF Expired
    <3>3. Life!IdleExit
      BY <3>1, <3>2 DEF Life!IdleExit, ActiveSessions
    <3>4. QED
      BY <3>3 DEF Life!Next
  <2>2. CASE ~Expired(t)
    BY <1>2, <1>5, <2>2 DEF IdleCallback
  <2>3. QED
    BY <2>1, <2>2
<1>6. ASSUME NEW s \in Sessions, NEW key, NEW r, OpenSession(s, key, r)
      PROVE  UNCHANGED Life!guest
  <2>1. PICK l \in {"opening", "rejected"} :
            pc[s] = "new" /\ pc' = [pc EXCEPT ![s] = l] /\ UNCHANGED alive
    BY <1>6 DEF OpenSession
  <2>2. QED
    BY <1>1, <2>1, LifeUnseen DEF PC, Started
<1>7. ASSUME NEW s \in Sessions, HandleSession(s) PROVE Life!Next
  <2>1. /\ alive = "up" /\ pc[s] = "opening" /\ UNCHANGED alive
        /\ pc' = [pc EXCEPT ![s] = "started"]
    BY <1>7 DEF HandleSession
  <2>2. ActiveSessions' = ActiveSessions \cup {s} /\ s \notin ActiveSessions
    BY <1>1, <2>1 DEF ActiveSessions, TypeOK, Started
  <2>3. Life!Start(s)
    BY <2>1, <2>2 DEF Life!Start
  <2>4. QED
    BY <2>3 DEF Life!Next
<1>8. ASSUME NEW s \in Sessions, NEW ok \in BOOLEAN, StartCommand(s, ok)
      PROVE  UNCHANGED Life!guest
  <2>1. PICK l \in {"running", "ending"} :
            pc[s] = "started" /\ pc' = [pc EXCEPT ![s] = l] /\ UNCHANGED alive
    BY <1>8 DEF StartCommand
  <2>2. QED
    BY <1>1, <2>1, LifeUnseen DEF PC, Started
<1>9. ASSUME NEW s \in Sessions, NEW c, NEW leavesChild, CommandExits(s, c, leavesChild)
      PROVE  UNCHANGED Life!guest
  <2>1. pc[s] = "running" /\ pc' = [pc EXCEPT ![s] = "waiting"] /\ UNCHANGED alive
    BY <1>9 DEF CommandExits
  <2>2. QED
    BY <1>1, <2>1, LifeUnseen DEF PC, Started
<1>10. ASSUME NEW s \in Sessions, ChildExits(s) \/ \E how \in {"eof", "gone"} : ClientCloses(s, how)
       PROVE  UNCHANGED Life!guest
  BY <1>2, <1>10 DEF ChildExits, ClientCloses
<1>11. ASSUME NEW s \in Sessions, NEW f \in BOOLEAN, FinishCommand(s, f)
       PROVE  UNCHANGED Life!guest
  <2>1. pc[s] = "waiting" /\ pc' = [pc EXCEPT ![s] = "ending"] /\ UNCHANGED alive
    BY <1>11 DEF FinishCommand
  <2>2. QED
    BY <1>1, <2>1, LifeUnseen DEF PC, Started
<1>12. ASSUME NEW s \in Sessions, EndSession(s) PROVE Life!Next
  <2>1. /\ alive = "up" /\ pc[s] = "ending" /\ UNCHANGED alive
        /\ pc' = [pc EXCEPT ![s] = "done"]
    BY <1>12 DEF EndSession
  <2>2. ActiveSessions' = ActiveSessions \ {s} /\ s \in ActiveSessions
    BY <1>1, <2>1 DEF ActiveSessions, TypeOK, Started
  <2>3. Life!Finish(s)
    BY <2>1, <2>2 DEF Life!Finish
  <2>4. QED
    BY <2>3 DEF Life!Next
<1>13. CASE UNCHANGED vars
  BY <1>2, <1>13 DEF vars
<1>14. QED
  BY <1>3, <1>4, <1>5, <1>6, <1>7, <1>8, <1>9, <1>10, <1>11, <1>12, <1>13 DEF Next

\* Whatever the timers, late callbacks and sessions do (main.go:76-135), the
\* guest starts and ends as GuestLife says: it ends for idleness only with no
\* session being handled, and nothing happens in it afterwards.  That it does
\* end is the fairness part of GuestLife, which TLC checks.
THEOREM GuestRefinesLife == Spec => Life!SafeSpec
<1>1. Init => Life!Init
  BY DEF Init, Life!Init, ActiveSessions, Started
<1>2. QED
  BY <1>1, LifeStep, GuestInvariant, PTL DEF Spec, Life!SafeSpec
=============================================================================

------------------------- MODULE CloudGuestProofs -------------------------
(***************************************************************************)
(* Proofs about CloudGuest: the provider keeps what CloudDial promises     *)
(* among guests that live and die by themselves, and no session is served  *)
(* by a guest that is gone or that another process has made.               *)
(***************************************************************************)
EXTENDS CloudGuest, CloudDialProofs

-----------------------------------------------------------------------------
(* The provider's part of a step *)

\* A guest of u ends.
Ends(u) ==
    /\ Exists(u)
    /\ instances' = [instances EXCEPT ![u] = NoInstance]
    /\ UNCHANGED <<seed, user, pc, err, deadline, cancelled>>

\* Whatever happens is a step of CloudDial, the end of a guest, or nothing the
\* provider sees.
LEMMA ProviderStep ==
    ASSUME [GuestNext]_all
    PROVE  [Next]_vars \/ \E u \in Users : Ends(u)
<1>1. ASSUME NEW d \in Dials, NEW u \in Users, Begin(d, u) PROVE Next
  BY <1>1 DEF Next
<1>2. ASSUME NEW d \in Dials, Dialing(d) \/ DialReturnsClient(d) PROVE Next
  <2>1. Call(d)
    BY <1>2 DEF Dialing, DialReturnsClient, Call
  <2>2. QED
    BY <2>1 DEF Next
<1>3. ASSUME NEW d \in Dials, Interrupted(d) \/ CallFails(d) \/ SessionOver(d) PROVE Next
  BY <1>3 DEF Interrupted, CallFails, SessionOver, Next
<1>4. ASSUME NEW d \in Dials, \/ SessionStarted(d) \/ ConnectionBreaks(d)
                              \/ \E u \in Users : OrphanEnds(u, d)
      PROVE  UNCHANGED vars
  BY <1>4 DEF SessionStarted, ConnectionBreaks, OrphanEnds
<1>5. ASSUME NEW u \in Users, Boots(u) PROVE Next
  BY <1>5 DEF Boots, Next
<1>6. ASSUME NEW u \in Users, FatalConfig(u) \/ IdleExit(u) \/ Crash(u) PROVE Ends(u)
  BY <1>6 DEF FatalConfig, IdleExit, Crash, GuestStops, DeleteOnStop, Ends, Exists
<1>7. ASSUME MuxRestarts PROVE Next
  BY <1>7 DEF MuxRestarts, Next
<1>8. CASE UNCHANGED all
  BY <1>8 DEF all
<1>9. QED
  BY <1>1, <1>2, <1>3, <1>4, <1>5, <1>6, <1>7, <1>8 DEF GuestNext

LEMMA ProviderInv == CloudInv /\ [GuestNext]_all => CloudInv'
<1> SUFFICES ASSUME CloudInv, [GuestNext]_all PROVE CloudInv'
  OBVIOUS
<1>1. CASE [Next]_vars
  BY <1>1, CloudStep
<1>2. ASSUME NEW u \in Users, Ends(u) PROVE CloudInv'
  BY <1>2, ExitKeepsInv DEF Ends
<1>3. QED
  BY <1>1, <1>2, ProviderStep

\* The provider among its guests behaves as CloudDial says, when guests may
\* exit at all there: what is checked and proved about CloudDial's Spec holds
\* of the composition.
THEOREM CompositionImplementsCloudDial ==
    ASSUME "guest" \in Faults
    PROVE  GuestSpec => Spec
<1>1. GuestInit => Init
  BY DEF GuestInit
<1>2. [GuestNext]_all => [Next]_vars
  <2> SUFFICES ASSUME [GuestNext]_all PROVE [Next]_vars
    OBVIOUS
  <2>1. ASSUME NEW u \in Users, Ends(u) PROVE Next
    <3>1. GuestExits(u)
      BY <2>1 DEF Ends, GuestExits
    <3>2. QED
      BY <3>1 DEF Next
  <2>2. QED
    BY <2>1, ProviderStep
<1>3. QED
  BY <1>1, <1>2, PTL DEF GuestSpec, Spec

-----------------------------------------------------------------------------
(* Sessions *)

\* Sessions belong to connected calls.
SessionsOfCalls == \A d \in Dials : sess[d] # "none" <=> pc[d] = "connected"

\* The part of the invariant that is about sessions.
SessionsInv ==
    /\ sess \in [Dials -> SessionState] /\ orphans \in [Users -> SUBSET Dials]
    /\ SessionsOfCalls /\ LiveSessions

\* What a call does to the instances before it is connected.
LEMMA DialingMoves ==
    ASSUME TypeOK, NEW d \in Dials, Dialing(d)
    PROVE  /\ \E l \in PC \ {"connected"} : pc[d] # "connected" /\ pc' = [pc EXCEPT ![d] = l]
           /\ UNCHANGED <<seed, user, guests>>
           /\ instances' = instances \/ (~Exists(user[d]) /\ instances' = NewGuest(d))
<1> DEFINE moves == \E l \in PC \ {"connected"} : pc' = [pc EXCEPT ![d] = l]
<1>1. ASSUME NEW l \in PC \ {"connected"}, Goto(d, l) PROVE moves /\ UNCHANGED user
  BY <1>1 DEF Goto
<1>2. ASSUME NEW why, Fail(d, why) PROVE moves /\ UNCHANGED user
  BY <1>2 DEF Fail, PC
<1>3. {"lookup", "limit", "create", "relookup", "dial", "backoff"} \subseteq PC \ {"connected"}
  BY DEF PC, Working
<1> HIDE DEF moves
<1>4. /\ moves /\ UNCHANGED <<seed, user>> /\ pc[d] # "connected"
      /\ instances' = instances \/ (~Exists(user[d]) /\ instances' = NewGuest(d))
  <2>1. CASE create(d)
    <3>1. moves /\ UNCHANGED user
      BY <1>1, <1>2, <1>3, <2>1 DEF create, AfterConflict
    <3>2. QED
      BY <2>1, <3>1 DEF create
  <2>2. CASE lookup(d) \/ checkInstanceLimit(d) \/ relookup(d) \/ DialError(d)
             \/ DialRetryable(d) \/ BackoffElapses(d)
    <3>1. moves /\ UNCHANGED user
      BY <1>1, <1>2, <1>3, <2>2 DEF lookup, checkInstanceLimit, relookup, DialError,
                                    DialRetryable, EnterSelect, BackoffElapses
    <3>2. QED
      BY <2>2, <3>1 DEF lookup, checkInstanceLimit, relookup, DialError, DialRetryable,
                        BackoffElapses
  <2>3. QED
    BY <2>1, <2>2 DEF Dialing
<1>5. QED
  BY <1>4 DEF Dialing, moves

\* A step that changes no session and leaves their guests alone.
LEMMA SessionsKept ==
    ASSUME SessionsInv, UNCHANGED <<seed, sess, orphans>>, SessionsOfCalls',
           \A d \in Dials : sess[d] \in {"opening", "serving"} =>
               user'[d] = user[d] /\ instances'[user[d]] = instances[user[d]]
    PROVE  SessionsInv'
<1>1. LiveSessions'
  BY DEF SessionsInv, LiveSessions, Up, SameKey
<1>2. QED
  BY <1>1 DEF SessionsInv

\* The steps of a call.
LEMMA CallSessions ==
    ASSUME TypeOK, SessionsInv, NEW d \in Dials,
           \/ \E u \in Users : Begin(d, u) /\ UNCHANGED guests
           \/ Dialing(d) \/ Interrupted(d) \/ CallFails(d)
    PROVE  SessionsInv'
<1> USE DEF guests
<1>1. ASSUME NEW u \in Users, Begin(d, u), UNCHANGED guests PROVE SessionsInv'
  <2>1. /\ pc[d] = "idle" /\ pc' = [pc EXCEPT ![d] = "lookup"] /\ user' = [user EXCEPT ![d] = u]
        /\ UNCHANGED <<seed, instances>>
    BY <1>1 DEF Begin
  <2>2. SessionsOfCalls'
    BY <1>1, <2>1 DEF SessionsInv, SessionsOfCalls, TypeOK
  <2>3. sess[d] = "none"
    BY <2>1 DEF SessionsInv, SessionsOfCalls
  <2>4. QED
    BY <1>1, <2>1, <2>2, <2>3, SessionsKept DEF TypeOK
<1>2. CASE Dialing(d)
  <2>1. PICK l \in PC \ {"connected"} : pc[d] # "connected" /\ pc' = [pc EXCEPT ![d] = l]
    BY <1>2, DialingMoves
  <2>2. /\ UNCHANGED <<seed, user, guests>>
        /\ instances' = instances \/ (~Exists(user[d]) /\ instances' = NewGuest(d))
    BY <1>2, DialingMoves
  <2>3. SessionsOfCalls'
    BY <2>1, <2>2 DEF SessionsInv, SessionsOfCalls, TypeOK
  <2>4. ASSUME NEW e \in Dials, sess[e] \in {"opening", "serving"}
        PROVE  instances'[user[e]] = instances[user[e]]
    <3>1. Exists(user[e]) /\ user[e] \in Users /\ user[d] \in Users
      BY <2>4 DEF SessionsInv, LiveSessions, Up, Exists, TypeOK
    <3>2. QED
      BY <2>2, <3>1 DEF NewGuest, TypeOK
  <2>5. QED
    BY <2>2, <2>3, <2>4, SessionsKept
<1>3. CASE Interrupted(d)
  <2>1. /\ pc[d] \in Working /\ UNCHANGED <<seed, instances, user, guests>>
        /\ pc' = pc \/ pc' = [pc EXCEPT ![d] = "failed"]
    BY <1>3 DEF Interrupted, DeadlineFires, ClientGone, Fail
  <2>2. SessionsOfCalls'
    BY <2>1 DEF SessionsInv, SessionsOfCalls, TypeOK, Working
  <2>3. QED
    BY <2>1, <2>2, SessionsKept
<1>4. CASE CallFails(d)
  <2>1. /\ pc[d] = "failed" /\ UNCHANGED <<seed, instances, user, guests>>
        /\ pc' = [pc EXCEPT ![d] = "idle"]
    BY <1>4 DEF CallFails, SessionEnds
  <2>2. SessionsOfCalls'
    BY <2>1 DEF SessionsInv, SessionsOfCalls, TypeOK
  <2>3. QED
    BY <2>1, <2>2, SessionsKept
<1>5. QED
  BY <1>1, <1>2, <1>3, <1>4

\* The session of a call changes.
LEMMA OwnSession ==
    ASSUME TypeOK, SessionsInv, NEW d \in Dials,
           \/ DialReturnsClient(d) \/ SessionStarted(d) \/ SessionOver(d) \/ ConnectionBreaks(d)
    PROVE  SessionsInv'
<1> USE DEF SetSess
<1>1. UNCHANGED <<seed, instances, user>>
  BY DEF DialReturnsClient, Connected, Goto, SessionStarted, SessionOver, SessionEnds,
         ConnectionBreaks, vars
<1>2. orphans' \in [Users -> SUBSET Dials]
  BY DEF DialReturnsClient, SessionStarted, SessionOver, ConnectionBreaks, SessionsInv, TypeOK
<1>3. PICK state \in SessionState, l \in PC :
          /\ sess' = [sess EXCEPT ![d] = state] /\ pc' = [pc EXCEPT ![d] = l]
          /\ state # "none" <=> l = "connected"
          /\ state \in {"opening", "serving"} => Up(d) /\ SameKey(d)
  <2>1. CASE DialReturnsClient(d)
    BY <2>1 DEF DialReturnsClient, Connected, Goto, SessionState, PC
  <2>2. CASE SessionStarted(d)
    <3>1. sess[d] = "opening" /\ sess' = [sess EXCEPT ![d] = "serving"] /\ pc' = pc
      BY <2>2 DEF SessionStarted, vars
    <3>2. pc[d] = "connected" /\ Up(d) /\ SameKey(d) /\ pc' = [pc EXCEPT ![d] = "connected"]
      BY <3>1 DEF SessionsInv, SessionsOfCalls, LiveSessions, TypeOK
    <3>3. QED
      BY <3>1, <3>2 DEF SessionState, PC
  <2>3. CASE SessionOver(d)
    BY <2>3 DEF SessionOver, SessionEnds, SessionState, PC
  <2>4. CASE ConnectionBreaks(d)
    <3>1. sess[d] = "serving" /\ sess' = [sess EXCEPT ![d] = "cut"] /\ pc' = pc
      BY <2>4 DEF ConnectionBreaks, vars
    <3>2. pc[d] = "connected" /\ pc' = [pc EXCEPT ![d] = "connected"]
      BY <3>1 DEF SessionsInv, SessionsOfCalls, TypeOK
    <3>3. QED
      BY <3>1, <3>2 DEF SessionState, PC
  <2>5. QED
    BY <2>1, <2>2, <2>3, <2>4
<1>4. SessionsOfCalls'
  BY <1>3 DEF SessionsInv, SessionsOfCalls, TypeOK
<1>5. LiveSessions'
  BY <1>1, <1>3 DEF SessionsInv, LiveSessions, Up, SameKey
<1>6. sess' \in [Dials -> SessionState]
  BY <1>3 DEF SessionsInv
<1>7. QED
  BY <1>2, <1>4, <1>5, <1>6 DEF SessionsInv

\* A guest that stops loses the sessions it served or was about to serve.
LEMMA StopSessions ==
    ASSUME TypeOK, SessionsInv, NEW u \in Users, NEW Lost, Lost \subseteq {"opening", "serving"},
           GuestStops(u, Lost),
           \A d \in Dials : user[d] = u /\ sess[d] \in {"opening", "serving"} => sess[d] \in Lost
    PROVE  SessionsInv'
<1>1. /\ instances' = [instances EXCEPT ![u] = NoInstance]
      /\ sess' = [d \in Dials |-> IF user[d] = u /\ sess[d] \in Lost THEN "cut" ELSE sess[d]]
      /\ orphans' = [orphans EXCEPT ![u] = {}]
      /\ UNCHANGED <<seed, user, pc>>
  BY DEF GuestStops, DeleteOnStop
<1>2. sess' \in [Dials -> SessionState] /\ orphans' \in [Users -> SUBSET Dials]
  BY <1>1 DEF SessionsInv, SessionState
<1>3. SessionsOfCalls'
  BY <1>1 DEF SessionsInv, SessionsOfCalls
<1>4. LiveSessions'
  <2> SUFFICES ASSUME NEW d \in Dials, sess'[d] \in {"opening", "serving"}
               PROVE  Up(d)' /\ SameKey(d)'
    BY DEF LiveSessions
  <2>1. sess[d] = sess'[d] /\ ~(user[d] = u /\ sess[d] \in Lost)
    BY <1>1
  <2>2. user[d] # u
    BY <2>1
  <2>3. instances'[user[d]] = instances[user[d]] /\ Up(d) /\ SameKey(d)
    BY <1>1, <2>1, <2>2 DEF SessionsInv, LiveSessions, TypeOK
  <2>4. QED
    BY <1>1, <2>3 DEF Up, SameKey
<1>5. QED
  BY <1>2, <1>3, <1>4 DEF SessionsInv

\* Every step keeps the sessions' part.
LEMMA SessionsStep == TypeOK /\ SessionsInv /\ [GuestNext]_all => SessionsInv'
<1> SUFFICES ASSUME TypeOK, SessionsInv, [GuestNext]_all PROVE SessionsInv'
  OBVIOUS
<1>1. ASSUME NEW u \in Users, FatalConfig(u) PROVE SessionsInv'
  <2>1. instances[u].state = "booting" /\ GuestStops(u, {})
    BY <1>1 DEF FatalConfig
  <2>2. \A d \in Dials : user[d] = u => sess[d] \notin {"opening", "serving"}
    BY <2>1 DEF SessionsInv, LiveSessions, Up
  <2>3. QED
    BY <2>1, <2>2, StopSessions
<1>2. ASSUME NEW u \in Users, IdleExit(u) PROVE SessionsInv'
  <2>1. Active(u) = {} /\ GuestStops(u, {"opening"})
    BY <1>2 DEF IdleExit, MayExit
  <2>2. \A d \in Dials : user[d] = u => sess[d] # "serving"
    BY <2>1 DEF Active, Serving
  <2>3. QED
    BY <2>1, <2>2, StopSessions
<1>3. ASSUME NEW u \in Users, Crash(u) PROVE SessionsInv'
  BY <1>3, StopSessions DEF Crash
<1>4. ASSUME NEW u \in Users, NEW d \in Dials, OrphanEnds(u, d) PROVE SessionsInv'
  BY <1>4 DEF OrphanEnds, vars, SessionsInv, SessionsOfCalls, LiveSessions, Up, SameKey
<1>5. ASSUME MuxRestarts PROVE SessionsInv'
  <2>1. /\ sess' = [d \in Dials |-> "none"] /\ pc' = [d \in Dials |-> "idle"]
        /\ \E reached \in SUBSET Dials :
             orphans' = [u \in Users |-> Active(u) \cup {d \in reached : user[d] = u}]
    BY <1>5 DEF MuxRestarts, Restart
  <2>2. orphans' \in [Users -> SUBSET Dials]
    <3>1. \A u \in Users : Active(u) \subseteq Dials
      BY DEF Active, Serving, SessionsInv
    <3>2. QED
      BY <2>1, <3>1
  <2>3. QED
    BY <2>1, <2>2 DEF SessionsInv, SessionsOfCalls, LiveSessions, SessionState
<1>6. ASSUME NEW u \in Users, Boots(u) PROVE SessionsInv'
  <2>1. /\ instances[u].state = "booting" /\ instances' = [instances EXCEPT ![u].state = "up"]
        /\ UNCHANGED <<seed, user, pc, guests>>
    BY <1>6 DEF Boots, GuestBoots
  <2>2. SessionsOfCalls'
    BY <2>1 DEF guests, SessionsInv, SessionsOfCalls
  <2>3. ASSUME NEW e \in Dials, sess[e] \in {"opening", "serving"}
        PROVE  instances'[user[e]] = instances[user[e]]
    <3>1. instances[user[e]].state = "up" /\ user[e] \in Users
      BY <2>3 DEF SessionsInv, LiveSessions, Up, TypeOK
    <3>2. user[e] # u
      BY <2>1, <3>1
    <3>3. QED
      BY <2>1, <3>1, <3>2 DEF TypeOK
  <2>4. QED
    BY <2>1, <2>2, <2>3, SessionsKept DEF guests
<1>7. CASE UNCHANGED all
  BY <1>7 DEF all, vars, guests, SessionsInv, SessionsOfCalls, LiveSessions, Up, SameKey
<1>8. QED
  BY <1>1, <1>2, <1>3, <1>4, <1>5, <1>6, <1>7, CallSessions, OwnSession DEF GuestNext

-----------------------------------------------------------------------------
(* The invariant and the properties *)

LEMMA CloudGuestInit == GuestInit => CloudGuestInv
<1> SUFFICES ASSUME GuestInit PROVE CloudGuestInv
  OBVIOUS
<1>1. CloudInv /\ TypeOK
  BY CloudInit DEF GuestInit, CloudInv
<1>2. sessionTTL \in -1 .. 1
  BY DEF GuestInit, ParseTTL, RawTTL
<1>3. /\ sess = [d \in Dials |-> "none"] /\ orphans = [u \in Users |-> {}] /\ fatal = FALSE
      /\ pc = [d \in Dials |-> "idle"]
  BY DEF GuestInit, Init
<1>4. GuestTypeOK
  BY <1>1, <1>2, <1>3 DEF GuestTypeOK, SessionState
<1>5. LiveSessions /\ FatalOnlyWhenNegative
  BY <1>3 DEF LiveSessions, FatalOnlyWhenNegative
<1>6. QED
  BY <1>1, <1>4, <1>5 DEF CloudGuestInv

\* Only a negative session_ttl makes a guest refuse its configuration.
LEMMA FatalStep ==
    ASSUME sessionTTL \in -1 .. 1, fatal \in BOOLEAN, FatalOnlyWhenNegative, [GuestNext]_all
    PROVE  sessionTTL' = sessionTTL /\ fatal' \in BOOLEAN /\ FatalOnlyWhenNegative'
<1>1. ASSUME NEW u \in Users, FatalConfig(u)
      PROVE  sessionTTL' = sessionTTL /\ fatal' \in BOOLEAN /\ FatalOnlyWhenNegative'
  <2>1. sessionTTL' = sessionTTL /\ fatal' = TRUE /\ ~GuestAccepts
    BY <1>1 DEF FatalConfig, GuestStops
  <2>2. sessionTTL < 0
    BY <2>1 DEF GuestAccepts, idleTTL
  <2>3. QED
    BY <2>1, <2>2 DEF FatalOnlyWhenNegative
<1>2. ASSUME UNCHANGED <<sessionTTL, fatal>>
      PROVE  sessionTTL' = sessionTTL /\ fatal' \in BOOLEAN /\ FatalOnlyWhenNegative'
  BY <1>2 DEF FatalOnlyWhenNegative
<1>3. ASSUME NEW d \in Dials,
             \/ \E u \in Users : Begin(d, u) /\ UNCHANGED guests
             \/ Dialing(d) \/ DialReturnsClient(d) \/ Interrupted(d) \/ CallFails(d)
             \/ SessionStarted(d) \/ SessionOver(d) \/ ConnectionBreaks(d)
             \/ \E u \in Users : OrphanEnds(u, d)
      PROVE  UNCHANGED <<sessionTTL, fatal>>
  BY <1>3 DEF Dialing, DialReturnsClient, Interrupted, CallFails, SessionStarted, SessionOver,
              ConnectionBreaks, OrphanEnds, guests
<1>4. ASSUME NEW u \in Users, Boots(u) \/ IdleExit(u) \/ Crash(u)
      PROVE  UNCHANGED <<sessionTTL, fatal>>
  BY <1>4 DEF Boots, IdleExit, Crash, GuestStops, guests
<1>5. ASSUME MuxRestarts \/ UNCHANGED all PROVE UNCHANGED <<sessionTTL, fatal>>
  BY <1>5 DEF MuxRestarts, all, guests
<1>6. QED
  BY <1>1, <1>2, <1>3, <1>4, <1>5 DEF GuestNext

LEMMA CloudGuestStep == CloudGuestInv /\ [GuestNext]_all => CloudGuestInv'
<1> SUFFICES ASSUME CloudGuestInv, [GuestNext]_all PROVE CloudGuestInv'
  OBVIOUS
<1>1. /\ CloudInv /\ TypeOK /\ SessionsInv
      /\ sessionTTL \in -1 .. 1 /\ fatal \in BOOLEAN /\ FatalOnlyWhenNegative
  BY DEF CloudGuestInv, GuestTypeOK, SessionsInv, SessionsOfCalls
<1>2. CloudInv' /\ TypeOK'
  BY <1>1, ProviderInv DEF CloudInv
<1>3. SessionsInv'
  BY <1>1, SessionsStep
<1>4. sessionTTL' \in -1 .. 1 /\ fatal' \in BOOLEAN /\ FatalOnlyWhenNegative'
  BY <1>1, FatalStep
<1>5. GuestTypeOK'
  BY <1>2, <1>3, <1>4 DEF GuestTypeOK, SessionsInv, SessionsOfCalls
<1>6. QED
  BY <1>2, <1>3, <1>4, <1>5 DEF CloudGuestInv, SessionsInv

\* The inductive invariant holds in every reachable state.
THEOREM CloudGuestInvariant == GuestSpec => []CloudGuestInv
BY CloudGuestInit, CloudGuestStep, PTL DEF GuestSpec

\* The variables keep their types, and exactly the connected calls have a
\* session.
THEOREM CloudGuestTypeOK == GuestSpec => []GuestTypeOK
<1>1. CloudGuestInv => GuestTypeOK
  BY DEF CloudGuestInv
<1>2. QED
  BY <1>1, CloudGuestInvariant, PTL

\* The guest that serves a session lives and has the keys of this process
\* (unikraft.go:286-297), whatever other calls, restarts, crashes and idle
\* timers do to the instances of any number of users.
THEOREM CloudGuestServedByLiveGuest == GuestSpec => []ServedByLiveGuest
<1>1. CloudGuestInv => ServedByLiveGuest
  BY DEF CloudGuestInv, LiveSessions, ServedByLiveGuest
<1>2. QED
  BY <1>1, CloudGuestInvariant, PTL

\* A guest refuses the timeout it is handed only when session_ttl is negative.
THEOREM CloudGuestFatalOnlyWhenNegative == GuestSpec => []FatalOnlyWhenNegative
<1>1. CloudGuestInv => FatalOnlyWhenNegative
  BY DEF CloudGuestInv
<1>2. QED
  BY <1>1, CloudGuestInvariant, PTL

\* The bound on the instances above max_instances holds among guests that end
\* by themselves, whether or not they may also crash.
THEOREM CloudGuestLimitOvershootBounded == GuestSpec => []LimitOvershootBounded
<1>1. CloudGuestInv => LimitOvershootBounded
  BY DEF CloudGuestInv, CloudInv
<1>2. QED
  BY <1>1, CloudGuestInvariant, PTL

\* A host key mismatch is the work of a restart also among guests that end by
\* themselves: no idle exit, refused configuration or crash, and no creation
\* that follows one, leaves a guest with other keys (unikraft.go:291).
THEOREM CloudGuestMismatchOnlyAfterRestart == GuestSpec => MismatchOnlyAfterRestart
<1> DEFINE A == \A d \in Dials : err[d] # "hostkey" /\ err'[d] = "hostkey" =>
                                   instances[user[d]].seed < seed
<1>1. CloudGuestInv /\ [GuestNext]_all => [A]_vars
  <2> SUFFICES ASSUME CloudInv, [GuestNext]_all PROVE [A]_vars
    BY DEF CloudGuestInv
  <2>1. CASE [Next]_vars
    BY <2>1, MismatchStep
  <2>2. ASSUME NEW u \in Users, Ends(u) PROVE A
    BY <2>2 DEF Ends
  <2>3. QED
    BY <2>1, <2>2, ProviderStep
<1>2. [][A]_vars <=> MismatchOnlyAfterRestart
  BY DEF MismatchOnlyAfterRestart
<1>3. GuestSpec => []CloudGuestInv /\ [][GuestNext]_all
  BY CloudGuestInvariant DEF GuestSpec
<1>4. QED
  BY <1>1, <1>2, <1>3, PTL
=============================================================================

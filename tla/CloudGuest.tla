----------------------------- MODULE CloudGuest -----------------------------
(***************************************************************************)
(* The provider of CloudDial together with the guests it makes: a guest    *)
(* gets its idle timeout from the route's session_ttl (duration.go and     *)
(* unikraft.go), lives as GuestLife says, and serves the sessions that     *)
(* proxySSHSession opens over a connected call.  A session sshmux no       *)
(* longer attends to goes on in its guest: nothing tells its command to    *)
(* stop, and the guest counts it until the command ends.                   *)
(***************************************************************************)
EXTENDS CloudDial

VARIABLES
    sessionTTL,  \* session_ttl of the route as the configuration parsed it
    sess,        \* the session over each connected call
    orphans,     \* the calls whose session a user's guest serves without sshmux
    fatal        \* history: a guest has refused its configuration

guests == <<sessionTTL, sess, orphans, fatal>>
all    == <<vars, guests>>

\* "opening": before the guest's sessionStarted; "cut": the guest is gone.
SessionState == {"none", "opening", "serving", "cut"}

-----------------------------------------------------------------------------
(* The idle timeout on its way from the configuration to the guest         *)

\* What the file may say: nothing, something that is not a string, a string
\* ParseDuration refuses, or a duration (its sign is all that matters).
RawTTL == [form: {"absent", "empty", "notString", "malformed", "duration"}, value: -1 .. 1]

\* Duration.UnmarshalJSON.
TTLParses(raw) == raw.form \notin {"notString", "malformed"}
ParseTTL(raw)  == IF raw.form = "duration" THEN raw.value ELSE 0

\* Mutant: the default is left out.
idleTTLAsGiven == sessionTTL

\* NewUnikraftProvider: zero means the default; GUEST_IDLE_TIMEOUT.
idleTTL == IF sessionTTL = 0 THEN 1 ELSE sessionTTL

\* parseIdleTimeout in the guest.
GuestAccepts == idleTTL > 0

GuestInit ==
    /\ Init
    /\ sessionTTL \in {ParseTTL(raw) : raw \in {r \in RawTTL : TTLParses(r)}}
    /\ sess = [d \in Dials |-> "none"]
    /\ orphans = [u \in Users |-> {}]
    /\ fatal = FALSE

-----------------------------------------------------------------------------
(* Guests *)

\* The calls whose session u's guest serves for sshmux.
Serving(u) == {d \in Dials : user[d] = u /\ sess[d] = "serving"}

\* The sessions the guest counts (activeSession).
Active(u) == Serving(u) \cup orphans[u]

\* Mutant: the instance is kept when it stops, and starts again.
DeleteOnStopKept(u) == [instances EXCEPT ![u].state = "booting"]

\* The instance is created with the feature DeleteOnStop.
DeleteOnStop(u) == [instances EXCEPT ![u] = NoInstance]

\* The guest's process ends; what happens to the sessions in Lost.
GuestStops(u, Lost) ==
    /\ instances' = DeleteOnStop(u)
    /\ sess' = [d \in Dials |-> IF user[d] = u /\ sess[d] \in Lost THEN "cut" ELSE sess[d]]
    /\ orphans' = [orphans EXCEPT ![u] = {}]
    /\ UNCHANGED <<seed, user, pc, err, deadline, cancelled, sessionTTL>>

\* init reads the configuration before the guest listens.
Boots(u) == GuestAccepts /\ GuestBoots(u) /\ UNCHANGED guests

FatalConfig(u) ==
    /\ instances[u].state = "booting" /\ ~GuestAccepts
    /\ fatal' = TRUE
    /\ GuestStops(u, {})

\* Mutant: a handshake, even one that fails, keeps the guest.
MayExitNoHandshake(u) == Active(u) = {} /\ \A d \in Dials : pc[d] = "dial" => user[d] # u

\* Mutant: the guest looks only for sessions it cannot answer any more.
MayExitServing(u) == orphans[u] = {}

\* IdleExit of GuestLife.
MayExit(u) == Active(u) = {}

\* The guest ends while clients may have connected, or asked for a session,
\* and not reached sessionStarted: these find their connection closed.
IdleExit(u) ==
    /\ instances[u].state = "up" /\ MayExit(u)
    /\ GuestStops(u, {"opening"})
    /\ UNCHANGED fatal

Crash(u) ==
    /\ Exists(u) /\ "guest" \in Faults
    /\ GuestStops(u, {"opening", "serving"})
    /\ UNCHANGED fatal

-----------------------------------------------------------------------------
(* Sessions *)

SetSess(d, state) == sess' = [sess EXCEPT ![d] = state]

\* Dial returns the client and proxySSHSession starts on it.
DialReturnsClient(d) ==
    /\ Connected(d)
    /\ SetSess(d, "opening")
    /\ UNCHANGED <<sessionTTL, orphans, fatal>>

\* The guest's handler runs sessionStarted.
SessionStarted(d) ==
    /\ sess[d] = "opening"
    /\ SetSess(d, "serving")
    /\ UNCHANGED <<vars, sessionTTL, orphans, fatal>>

\* Mutant: cleanup is left out and the client stays open.
SessionOverOpen(d) == pc[d] = "connected" /\ SessionEnds(d) /\ UNCHANGED guests

\* proxySSHSession returns: the guest's command has ended, no session could be
\* opened, or the guest is gone.  cleanup closes the client.
SessionOver(d) ==
    /\ pc[d] = "connected"
    /\ SessionEnds(d)
    /\ SetSess(d, "none")
    /\ UNCHANGED <<sessionTTL, orphans, fatal>>

\* The connection to the guest breaks while the command runs.
ConnectionBreaks(d) ==
    /\ sess[d] = "serving" /\ "network" \in Faults
    /\ SetSess(d, "cut")
    /\ orphans' = [orphans EXCEPT ![user[d]] = @ \cup {d}]
    /\ UNCHANGED <<vars, sessionTTL, fatal>>

\* The command of a session nobody attends to ends.
OrphanEnds(u, d) ==
    /\ d \in orphans[u]
    /\ orphans' = [orphans EXCEPT ![u] = @ \ {d}]
    /\ UNCHANGED <<vars, sessionTTL, sess, fatal>>

\* sshmux ends with its sessions, and is started again.  A session on its way
\* may still reach the guest's handler.
MuxRestarts ==
    /\ Restart
    /\ \E reached \in SUBSET {d \in Dials : sess[d] = "opening"} :
         orphans' = [u \in Users |-> Active(u) \cup {d \in reached : user[d] = u}]
    /\ sess' = [d \in Dials |-> "none"]
    /\ UNCHANGED <<sessionTTL, fatal>>

\* A call that has failed returns its error and the session is over.
CallFails(d) == pc[d] = "failed" /\ SessionEnds(d) /\ UNCHANGED guests

\* The deadline and the end of the client's connection reach a call.
Interrupted(d) == (DeadlineFires(d) \/ ClientGone(d)) /\ UNCHANGED guests

Dialing(d) ==
    /\ \/ lookup(d) \/ checkInstanceLimit(d) \/ create(d) \/ relookup(d)
       \/ DialError(d) \/ DialRetryable(d) \/ BackoffElapses(d)
    /\ UNCHANGED guests

GuestNext ==
    \/ \E d \in Dials :
        \/ (\E u \in Users : Begin(d, u)) /\ UNCHANGED guests
        \/ Dialing(d) \/ DialReturnsClient(d) \/ Interrupted(d) \/ CallFails(d)
        \/ SessionStarted(d) \/ SessionOver(d) \/ ConnectionBreaks(d)
        \/ \E u \in Users : OrphanEnds(u, d)
    \/ \E u \in Users : Boots(u) \/ FatalConfig(u) \/ IdleExit(u) \/ Crash(u)
    \/ MuxRestarts

\* The provider's goroutines run, a guest boots, and GuestLife's promise that a
\* guest left alone ends.  Commands and clients owe nothing.
GuestFairness ==
    /\ \A d \in Dials : WF_all(Dialing(d) \/ DialReturnsClient(d) \/ CallFails(d))
    /\ \A u \in Users : WF_all(Boots(u) \/ FatalConfig(u)) /\ WF_all(IdleExit(u))

GuestSpec == GuestInit /\ [][GuestNext]_all /\ GuestFairness

-----------------------------------------------------------------------------
(* Properties *)

\* The types of the variables; only a connected call has a session.
GuestTypeOK ==
    /\ TypeOK
    /\ sessionTTL \in -1 .. 1 /\ fatal \in BOOLEAN
    /\ sess \in [Dials -> SessionState]
    /\ orphans \in [Users -> SUBSET Dials]
    /\ \A d \in Dials : sess[d] # "none" <=> pc[d] = "connected"

\* A session that is being served is served by a guest that lives and has the
\* keys of this process, whatever other calls, restarts and idle timers do to
\* the user's instance meanwhile.
ServedByLiveGuest == \A d \in Dials : sess[d] = "serving" => Up(d) /\ SameKey(d)

\* A guest refuses the timeout it is handed (config.go:73 of the guest) only
\* when session_ttl is negative, which no check of the configuration refuses.
FatalOnlyWhenNegative == fatal => sessionTTL < 0

\* A guest nobody has a session in goes away, also the one a restart of sshmux
\* has left with keys nobody knows, and whether or not calls for its user go on.
UnusedGuestExits ==
    \A u \in Users : <>[](Active(u) = {}) => []<>(~Exists(u))

\* After a restart the guests that still run refuse their users' calls
\* (FixedHostKey, unikraft.go:291).  The refused handshakes do not keep such a
\* guest alive: once the sessions left in it have ended, the refusals end too.
RefusalsEnd ==
    \A u \in Users :
        <>[](orphans[u] = {}) => <>[](\A d \in Dials : user[d] = u => err[d] # "hostkey")
-----------------------------------------------------------------------------
(* The inductive invariant from which CloudGuestProofs derives the safety  *)
(* properties, over that of CloudDial.                                     *)

\* A session on its way or served has the guest its call connected to.
LiveSessions ==
    \A d \in Dials : sess[d] \in {"opening", "serving"} => Up(d) /\ SameKey(d)

CloudGuestInv == CloudInv /\ GuestTypeOK /\ LiveSessions /\ FatalOnlyWhenNegative
=============================================================================

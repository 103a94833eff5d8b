----------------------------- MODULE CloudDial -----------------------------
(***************************************************************************)
(* The Unikraft provider (internal/cloud/unikraft.go): concurrent Dial     *)
(* calls of one provider, the platform's instances, and restarts of        *)
(* sshmux, which forget the provider's seed while the instances live on.   *)
(*                                                                         *)
(* An instance name is a hash of endpoint, image and username: within one  *)
(* provider the name is the username.  The host and client keys of a guest *)
(* are derived from the seed and the name, so two keys agree when their    *)
(* seeds do.  The platform is external: it keeps at most one instance per  *)
(* name, deletes an instance that stops, and answers each call at once.    *)
(***************************************************************************)
EXTENDS Integers, FiniteSets

CONSTANTS
    Users,        \* the usernames of cloud sessions
    Dials,        \* the calls of Dial that may run at the same time
    MaxInst,      \* max_instances of the route; 0 is unlimited
    MaxRestarts,  \* bound: how often sshmux restarts
    Faults        \* what may go wrong around the provider

FaultKinds ==
    {"platform",  \* an API call returns an error, an instance has no domain
     "nodata",    \* an API call returns no data
     "lost",      \* an instance is created but the answer is an error
     "guest",     \* a guest exits, and the platform deletes it
     "network",   \* a TLS or SSH connection to a guest fails
     "slow",      \* a guest may not be reachable before the deadline
     "cancel",    \* the client's connection ends during the call
     "restart"}   \* sshmux restarts

ASSUME CloudAssumption ==
    /\ IsFiniteSet(Users) /\ Users # {}
    /\ IsFiniteSet(Dials) /\ Dials # {}
    /\ MaxInst \in Nat /\ MaxRestarts \in Nat
    /\ Faults \subseteq FaultKinds

VARIABLES
    seed,       \* the provider's seed: the number of restarts so far
    instances,  \* the platform: NoInstance, or the guest's seed and whether it is up
    user,       \* the username of the session that dials
    pc,         \* where each call is
    err,        \* why it failed
    deadline,   \* the 30 s timer of the call has fired
    cancelled   \* the context of the call is done

vars == <<seed, instances, user, pc, err, deadline, cancelled>>

NoInstance == [state |-> "none", seed |-> 0]
Guest(n)   == [state |-> "booting", seed |-> n]

Working == {"lookup", "limit", "create", "relookup", "dial", "backoff"}
PC      == Working \cup {"idle", "connected", "failed"}
Errors  == {"none", "cancelled", "platform", "limit", "create", "vanished",
            "network", "hostkey", "deadline"}

Exists(u)  == instances[u].state # "none"
Existing   == {u \in Users : Exists(u)}

Init ==
    /\ seed = 0
    /\ instances = [u \in Users |-> NoInstance]
    /\ user \in [Dials -> Users]   \* Begin sets it
    /\ pc = [d \in Dials |-> "idle"]
    /\ err = [d \in Dials |-> "none"]
    /\ deadline = [d \in Dials |-> FALSE]
    /\ cancelled = [d \in Dials |-> FALSE]

-----------------------------------------------------------------------------
(* The steps of a call *)

Goto(d, l)   == pc' = [pc EXCEPT ![d] = l] /\ UNCHANGED <<err, user>>
Fail(d, why) == pc' = [pc EXCEPT ![d] = "failed"] /\ err' = [err EXCEPT ![d] = why] /\ UNCHANGED user

\* Dial is called for a session of u: the deadline timer starts.
Begin(d, u) ==
    /\ pc[d] = "idle"
    /\ user' = [user EXCEPT ![d] = u]
    /\ pc' = [pc EXCEPT ![d] = "lookup"]
    /\ UNCHANGED <<seed, instances, err, deadline, cancelled>>

\* A call with the context of the session fails once that is done.
APIFails(d) == cancelled[d] \/ "platform" \in Faults
APIError(d) == IF cancelled[d] THEN "cancelled" ELSE "platform"
APIWorks(d) == ~cancelled[d]

\* What lookup may return.
Found(d)   == APIWorks(d) /\ Exists(user[d])
Missing(d) == APIWorks(d) /\ (~Exists(user[d]) \/ "nodata" \in Faults)

\* getOrCreate looks the instance up; none means it goes on to create one.
lookup(d) ==
    /\ pc[d] = "lookup"
    /\ \/ Found(d) /\ Goto(d, "dial")
       \/ Missing(d) /\ Goto(d, "limit")
       \/ APIFails(d) /\ Fail(d, APIError(d))
    /\ UNCHANGED <<seed, instances, deadline, cancelled>>

\* Mutant: one instance too many passes.
BelowLimitOffByOne == Cardinality(Existing) <= MaxInst

\* total >= p.maxInst is the error.
BelowLimit == Cardinality(Existing) < MaxInst

\* Without a limit nothing is asked; a list without data passes.
checkInstanceLimit(d) ==
    /\ pc[d] = "limit"
    /\ \/ /\ MaxInst = 0 \/ (APIWorks(d) /\ (BelowLimit \/ "nodata" \in Faults))
          /\ Goto(d, "create")
       \/ MaxInst # 0 /\ APIWorks(d) /\ ~BelowLimit /\ Fail(d, "limit")
       \/ MaxInst # 0 /\ APIFails(d) /\ Fail(d, APIError(d))
    /\ UNCHANGED <<seed, instances, deadline, cancelled>>

\* Mutant: the guest's keys are derived from a seed of its own.
NewGuestFreshSeed(d) == [instances EXCEPT ![user[d]] = Guest(seed + 1)]

\* The instance CreateInstance makes, with keys derived from the seed.
NewGuest(d) == [instances EXCEPT ![user[d]] = Guest(seed)]

\* Mutant: AlreadyExists is an error like any other.
AfterConflictFails(d) == Fail(d, "create")

\* Another call, or an earlier one whose answer was lost, has created it.
AfterConflict(d) == Goto(d, "relookup")

create(d) ==
    /\ pc[d] = "create"
    /\ \/ /\ APIWorks(d) /\ ~Exists(user[d])
          /\ instances' = NewGuest(d)
          /\ Goto(d, "dial")
       \/ /\ APIWorks(d) /\ ~Exists(user[d]) /\ "lost" \in Faults
          /\ instances' = NewGuest(d)
          /\ Fail(d, "create")
       \/ /\ APIWorks(d) /\ Exists(user[d])
          /\ AfterConflict(d)
          /\ UNCHANGED instances
       \/ /\ APIFails(d)
          /\ Fail(d, APIError(d))
          /\ UNCHANGED instances
    /\ UNCHANGED <<seed, deadline, cancelled>>

\* The lookup after AlreadyExists; the instance may be gone by then.
relookup(d) ==
    /\ pc[d] = "relookup"
    /\ \/ Found(d) /\ Goto(d, "dial")
       \/ Missing(d) /\ Fail(d, "vanished")
       \/ APIFails(d) /\ Fail(d, APIError(d))
    /\ UNCHANGED <<seed, instances, deadline, cancelled>>

-----------------------------------------------------------------------------
(* sshClient *)

Up(d)      == instances[user[d]].state = "up"
SameKey(d) == instances[user[d]].seed = seed

\* The TLS connection and the SSH handshake succeed: FixedHostKey accepts the
\* guest's key and allowMuxKey the provider's.
Connected(d) ==
    /\ pc[d] = "dial" /\ ~cancelled[d] /\ Up(d) /\ SameKey(d)
    /\ Goto(d, "connected")
    /\ UNCHANGED <<seed, instances, deadline, cancelled>>

\* An error isRetryableUnikraftDial does not know ends the call.
DialError(d) ==
    /\ pc[d] = "dial"
    /\ \/ cancelled[d] /\ Fail(d, "cancelled")
       \/ Up(d) /\ ~SameKey(d) /\ Fail(d, "hostkey")
       \/ "network" \in Faults /\ Fail(d, "network")
    /\ UNCHANGED <<seed, instances, deadline, cancelled>>

\* Mutant: every round waits as if the deadline had just been set.
EnterSelectNoDeadline(d) ==
    IF cancelled[d] THEN Fail(d, "cancelled") ELSE Goto(d, "backoff")

\* The select statement takes a channel that is ready when it is entered (any
\* of them, if several are) and blocks if none is.
EnterSelect(d) ==
    \/ cancelled[d] /\ Fail(d, "cancelled")
    \/ deadline[d] /\ Fail(d, "deadline")
    \/ ~cancelled[d] /\ ~deadline[d] /\ Goto(d, "backoff")

\* EOF, refused, reset: the guest is not there, or not listening yet.
DialRetryable(d) ==
    /\ pc[d] = "dial" /\ (~Up(d) \/ "network" \in Faults)
    /\ EnterSelect(d)
    /\ UNCHANGED <<seed, instances, deadline, cancelled>>

\* A blocked select is woken by the first channel that becomes ready: the
\* 500 ms backoff, the deadline or the context.
BackoffElapses(d) ==
    /\ pc[d] = "backoff"
    /\ Goto(d, "lookup")
    /\ UNCHANGED <<seed, instances, deadline, cancelled>>

DeadlineFires(d) ==
    /\ pc[d] \in Working /\ ~deadline[d] /\ "slow" \in Faults
    /\ deadline' = [deadline EXCEPT ![d] = TRUE]
    /\ IF pc[d] = "backoff" THEN Fail(d, "deadline") ELSE UNCHANGED <<user, pc, err>>
    /\ UNCHANGED <<seed, instances, cancelled>>

ClientGone(d) ==
    /\ pc[d] \in Working /\ ~cancelled[d] /\ "cancel" \in Faults
    /\ cancelled' = [cancelled EXCEPT ![d] = TRUE]
    /\ IF pc[d] = "backoff" THEN Fail(d, "cancelled") ELSE UNCHANGED <<user, pc, err>>
    /\ UNCHANGED <<seed, instances, deadline>>

\* The session is over, after an error or with the cleanup that closes the
\* client.
SessionEnds(d) ==
    /\ pc[d] \in {"connected", "failed"}
    /\ pc' = [pc EXCEPT ![d] = "idle"]
    /\ err' = [err EXCEPT ![d] = "none"]
    /\ deadline' = [deadline EXCEPT ![d] = FALSE]
    /\ cancelled' = [cancelled EXCEPT ![d] = FALSE]
    /\ UNCHANGED <<seed, instances, user>>

-----------------------------------------------------------------------------
(* The platform and the process *)

GuestBoots(u) ==
    /\ instances[u].state = "booting"
    /\ instances' = [instances EXCEPT ![u].state = "up"]
    /\ UNCHANGED <<seed, user, pc, err, deadline, cancelled>>

\* A guest ends (idle timeout, fatal configuration, crash): delete on stop.
GuestExits(u) ==
    /\ Exists(u) /\ "guest" \in Faults
    /\ instances' = [instances EXCEPT ![u] = NoInstance]
    /\ UNCHANGED <<seed, user, pc, err, deadline, cancelled>>

\* sshmux starts again: NewUnikraftProvider draws a new seed.
Restart ==
    /\ "restart" \in Faults /\ seed < MaxRestarts
    /\ seed' = seed + 1
    /\ pc' = [d \in Dials |-> "idle"]
    /\ err' = [d \in Dials |-> "none"]
    /\ deadline' = [d \in Dials |-> FALSE]
    /\ cancelled' = [d \in Dials |-> FALSE]
    /\ UNCHANGED <<instances, user>>

Call(d) == \/ lookup(d) \/ checkInstanceLimit(d) \/ create(d) \/ relookup(d)
           \/ Connected(d) \/ DialError(d) \/ DialRetryable(d) \/ BackoffElapses(d)

Next ==
    \/ \E d \in Dials : \/ \E u \in Users : Begin(d, u)
                        \/ Call(d) \/ DeadlineFires(d) \/ ClientGone(d) \/ SessionEnds(d)
    \/ \E u \in Users : GuestBoots(u) \/ GuestExits(u)
    \/ Restart

Spec == Init /\ [][Next]_vars

\* The goroutine of a call runs, the platform and the network answer, and the
\* deadline timer expires.  A guest that is not slow gets to listen.
Fairness ==
    /\ \A d \in Dials : WF_vars(Call(d)) /\ WF_vars(DeadlineFires(d))
    /\ "slow" \notin Faults => \A u \in Users : WF_vars(GuestBoots(u))

FairSpec == Spec /\ Fairness

-----------------------------------------------------------------------------
(* Properties *)

\* The types of the variables; a guest's seed is one that sshmux may draw.
TypeOK ==
    /\ seed \in 0 .. MaxRestarts
    /\ instances \in [Users -> [state: {"none", "booting", "up"}, seed: 0 .. MaxRestarts]]
    /\ user \in [Dials -> Users]
    /\ pc \in [Dials -> PC]
    /\ err \in [Dials -> Errors]
    /\ deadline \in [Dials -> BOOLEAN]
    /\ cancelled \in [Dials -> BOOLEAN]

\* The calls between the limit check and the creation.
Creating == {d \in Dials : pc[d] = "create"}

\* max_instances is checked before the instance is created, with nothing held
\* in between.  The calls that have passed the check and not yet created can
\* overshoot the limit, one instance each, and never more: the number of
\* instances stays below the limit plus the number of concurrent calls.
LimitOvershootBounded ==
    MaxInst > 0 /\ "nodata" \notin Faults =>
        Cardinality(Existing) + Cardinality(Creating) <= MaxInst + Cardinality(Dials) - 1

\* A call is refused for the host key (FixedHostKey, unikraft.go:291) only when
\* sshmux has restarted since the guest was made: calls racing to create a
\* guest, lost answers and guests made again never leave one with other keys.
MismatchOnlyAfterRestart ==
    [][\A d \in Dials : err[d] # "hostkey" /\ err'[d] = "hostkey" =>
           instances[user[d]].seed < seed]_vars

\* Every call returns: the deadline ends the loop however the guest behaves.
DialReturns == \A d \in Dials : pc[d] \in Working ~> pc[d] \notin Working

\* When nothing goes wrong every call connects, also when several sessions of
\* a user race to create the guest.
DialConnects == \A d \in Dials : pc[d] \in Working ~> pc[d] = "connected"

\* The README of the repository (256): max_instances is the "Maximum number of
\* `sshmux-*` instances".
InstancesWithinLimit == MaxInst > 0 => Cardinality(Existing) <= MaxInst

\* The README of the repository (258-261): sshmux "creates the guest if it does
\* not already exist", so a call is refused for the limit only when its own
\* guest does not exist: max_instances counts instances, not sessions.
LimitSparesOwnGuest ==
    [][\A d \in Dials : err[d] = "none" /\ err'[d] = "limit" => ~Exists(user[d])]_vars

\* The README of the repository (258-261): for a username whose guest exists,
\* sshmux "waits for SSH to become reachable, and proxies the client session
\* to it".
ExistingGuestAccepted == \A d \in Dials : err[d] # "hostkey"
-----------------------------------------------------------------------------
(* The inductive invariant from which CloudDialProofs derives the          *)
(* properties: no guest has a seed that is still to be drawn.              *)

SeedInv == \A u \in Users : instances[u].seed <= seed

CloudInv == TypeOK /\ SeedInv /\ LimitOvershootBounded
=============================================================================

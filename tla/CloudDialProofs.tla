-------------------------- MODULE CloudDialProofs --------------------------
(***************************************************************************)
(* Proofs about CloudDial for any finite number of users and concurrent    *)
(* calls, any limit and any combination of faults.                         *)
(***************************************************************************)
EXTENDS CloudDial, FiniteSetTheorems, TLAPS

\* The sets the limit counts are finite.
LEMMA Finite ==
    /\ IsFiniteSet(Existing) /\ Cardinality(Existing) \in Nat
    /\ IsFiniteSet(Creating) /\ Cardinality(Creating) \in Nat
    /\ Cardinality(Creating) <= Cardinality(Dials)
    /\ Cardinality(Dials) \in Nat \ {0}
<1>1. IsFiniteSet(Existing)
  BY CloudAssumption, FS_Subset DEF Existing
<1>2. IsFiniteSet(Creating) /\ Cardinality(Creating) <= Cardinality(Dials)
  BY CloudAssumption, FS_Subset DEF Creating
<1>3. Cardinality(Dials) \in Nat \ {0}
  BY CloudAssumption, FS_CardinalityType, FS_EmptySet
<1>4. QED
  BY <1>1, <1>2, <1>3, FS_CardinalityType

\* ... after a step as well.
LEMMA FiniteNext ==
    /\ IsFiniteSet(Existing') /\ Cardinality(Existing') \in Nat
    /\ IsFiniteSet(Creating') /\ Cardinality(Creating') \in Nat
    /\ Cardinality(Creating') <= Cardinality(Dials)
<1>1. IsFiniteSet(Existing')
  BY CloudAssumption, FS_Subset DEF Existing
<1>2. IsFiniteSet(Creating') /\ Cardinality(Creating') <= Cardinality(Dials)
  BY CloudAssumption, FS_Subset DEF Creating
<1>3. QED
  BY <1>1, <1>2, FS_CardinalityType

\* A step that adds neither an instance nor a call about to create one keeps
\* the bound.
LEMMA FewerKeepsBound ==
    ASSUME LimitOvershootBounded, Existing' \subseteq Existing, Creating' \subseteq Creating
    PROVE  LimitOvershootBounded'
<1>1. Cardinality(Existing') <= Cardinality(Existing)
  BY Finite, FS_Subset
<1>2. Cardinality(Creating') <= Cardinality(Creating)
  BY Finite, FS_Subset
<1>3. QED
  BY <1>1, <1>2, Finite, FiniteNext, CloudAssumption DEF LimitOvershootBounded

\* A call that moves on without creating anything, other than into create.
LEMMA MoveKeepsInv ==
    ASSUME CloudInv, NEW d \in Dials, NEW l \in PC \ {"create"}, NEW e \in Errors,
           pc' = [pc EXCEPT ![d] = l], err' = [err EXCEPT ![d] = e],
           UNCHANGED <<seed, instances>>, user' \in [Dials -> Users],
           deadline' \in [Dials -> BOOLEAN], cancelled' \in [Dials -> BOOLEAN]
    PROVE  CloudInv'
<1> USE DEF CloudInv
<1>1. TypeOK'
  BY DEF TypeOK
<1>2. SeedInv'
  BY DEF SeedInv, TypeOK
<1>3. Existing' = Existing /\ Creating' \subseteq Creating
  BY DEF Existing, Exists, Creating, TypeOK
<1>4. LimitOvershootBounded'
  BY <1>3, FewerKeepsBound
<1>5. QED
  BY <1>1, <1>2, <1>4

\* The two ways a call moves on.
LEMMA GotoKeepsInv ==
    ASSUME CloudInv, NEW d \in Dials, NEW l \in PC \ {"create"}, Goto(d, l),
           UNCHANGED <<seed, instances, deadline, cancelled>>
    PROVE  CloudInv'
<1>1. /\ pc' = [pc EXCEPT ![d] = l] /\ err' = [err EXCEPT ![d] = err[d]] /\ err[d] \in Errors
      /\ deadline' \in [Dials -> BOOLEAN] /\ cancelled' \in [Dials -> BOOLEAN]
      /\ user' \in [Dials -> Users]
  BY DEF Goto, CloudInv, TypeOK
<1>2. QED
  BY <1>1, MoveKeepsInv

LEMMA FailKeepsInv ==
    ASSUME CloudInv, NEW d \in Dials, NEW e \in Errors, Fail(d, e), UNCHANGED <<seed, instances>>,
           deadline' \in [Dials -> BOOLEAN], cancelled' \in [Dials -> BOOLEAN]
    PROVE  CloudInv'
<1>1. "failed" \in PC \ {"create"}
  BY DEF PC, Working
<1>2. /\ pc' = [pc EXCEPT ![d] = "failed"] /\ err' = [err EXCEPT ![d] = e]
      /\ user' \in [Dials -> Users]
  BY DEF Fail, CloudInv, TypeOK
<1>3. QED
  BY <1>1, <1>2, MoveKeepsInv
-----------------------------------------------------------------------------
(* The step that checks the limit and the step that creates *)

\* Whoever passes the check saw fewer instances than the limit, and no more
\* calls than there are can be about to create.
LEMMA CheckKeepsInv ==
    ASSUME CloudInv, NEW d \in Dials, checkInstanceLimit(d)
    PROVE  CloudInv'
<1> USE CloudAssumption
<1>1. /\ pc[d] = "limit" /\ UNCHANGED <<seed, instances, deadline, cancelled>>
      /\ deadline' \in [Dials -> BOOLEAN] /\ cancelled' \in [Dials -> BOOLEAN]
  BY DEF checkInstanceLimit, CloudInv, TypeOK
<1>2. CASE Fail(d, "limit")
  BY <1>1, <1>2, FailKeepsInv DEF Errors
<1>3. CASE Fail(d, APIError(d))
  <2>1. APIError(d) \in Errors
    BY DEF APIError, Errors
  <2>2. QED
    BY <1>1, <1>3, <2>1, FailKeepsInv
<1>4. CASE /\ MaxInst = 0 \/ (APIWorks(d) /\ (BelowLimit \/ "nodata" \in Faults))
           /\ Goto(d, "create")
  <2>1. pc' = [pc EXCEPT ![d] = "create"] /\ UNCHANGED <<err, user>>
    BY <1>4 DEF Goto
  <2>2. TypeOK' /\ SeedInv'
    BY <1>1, <2>1 DEF CloudInv, TypeOK, SeedInv, PC, Working
  <2>3. ASSUME MaxInst > 0, "nodata" \notin Faults
        PROVE  Cardinality(Existing') + Cardinality(Creating')
                   <= MaxInst + Cardinality(Dials) - 1
    <3>1. Cardinality(Existing) < MaxInst
      BY <1>4, <2>3 DEF BelowLimit
    <3>2. Existing' = Existing
      BY <1>1 DEF Existing, Exists
    <3>3. QED
      BY <3>1, <3>2, Finite, FiniteNext
  <2>4. LimitOvershootBounded'
    BY <2>3 DEF LimitOvershootBounded
  <2>5. QED
    BY <2>2, <2>4 DEF CloudInv
<1>5. QED
  BY <1>2, <1>3, <1>4 DEF checkInstanceLimit

\* A created instance takes the place of the call that was about to create it.
LEMMA NewGuestKeepsInv ==
    ASSUME CloudInv, NEW d \in Dials, pc[d] = "create", ~Exists(user[d]),
           NEW l \in {"dial", "failed"}, pc' = [pc EXCEPT ![d] = l],
           err' = err \/ err' = [err EXCEPT ![d] = "create"],
           instances' = NewGuest(d), UNCHANGED <<seed, user, deadline, cancelled>>
    PROVE  CloudInv'
<1> DEFINE u == user[d]
<1> USE CloudAssumption DEF CloudInv
<1>1. u \in Users
  BY DEF TypeOK
<1>2. instances' = [instances EXCEPT ![u] = [state |-> "booting", seed |-> seed]]
  BY DEF NewGuest, Guest
<1>3. TypeOK'
  BY <1>1, <1>2 DEF TypeOK, PC, Working, Errors
<1>4. SeedInv'
  BY <1>1, <1>2 DEF TypeOK, SeedInv
<1>5. Existing' = Existing \cup {u} /\ u \notin Existing
  BY <1>1, <1>2 DEF Existing, Exists, TypeOK
<1>6. Creating' = Creating \ {d} /\ d \in Creating
  BY DEF Creating, TypeOK
<1>7. Cardinality(Existing') = Cardinality(Existing) + 1
  BY <1>5, Finite, FS_AddElement
<1>8. Cardinality(Creating') = Cardinality(Creating) - 1
  BY <1>6, Finite, FS_RemoveElement
<1>9. LimitOvershootBounded'
  BY <1>7, <1>8, Finite DEF LimitOvershootBounded
<1>10. QED
  BY <1>3, <1>4, <1>9

LEMMA CreateKeepsInv ==
    ASSUME CloudInv, NEW d \in Dials, create(d)
    PROVE  CloudInv'
<1>1. /\ pc[d] = "create" /\ UNCHANGED <<seed, deadline, cancelled>>
      /\ deadline' \in [Dials -> BOOLEAN] /\ cancelled' \in [Dials -> BOOLEAN]
  BY DEF create, CloudInv, TypeOK
<1>2. CASE ~Exists(user[d]) /\ instances' = NewGuest(d) /\ Goto(d, "dial")
  <2>1. pc' = [pc EXCEPT ![d] = "dial"] /\ err' = err /\ user' = user
    BY <1>2 DEF Goto
  <2>2. QED
    BY <1>1, <1>2, <2>1, NewGuestKeepsInv
<1>3. CASE ~Exists(user[d]) /\ instances' = NewGuest(d) /\ Fail(d, "create")
  <2>1. /\ pc' = [pc EXCEPT ![d] = "failed"] /\ err' = [err EXCEPT ![d] = "create"]
        /\ user' = user
    BY <1>3 DEF Fail
  <2>2. QED
    BY <1>1, <1>3, <2>1, NewGuestKeepsInv
<1>4. CASE AfterConflict(d) /\ UNCHANGED instances
  BY <1>1, <1>4, GotoKeepsInv DEF AfterConflict, PC, Working
<1>5. CASE Fail(d, APIError(d)) /\ UNCHANGED instances
  <2>1. APIError(d) \in Errors
    BY DEF APIError, Errors
  <2>2. QED
    BY <1>1, <1>5, <2>1, FailKeepsInv
<1>6. QED
  BY <1>2, <1>3, <1>4, <1>5 DEF create
-----------------------------------------------------------------------------
(* The inductive invariant *)

LEMMA CloudInit == Init => CloudInv
<1> SUFFICES ASSUME Init PROVE CloudInv
  OBVIOUS
<1> USE CloudAssumption DEF Init, NoInstance
<1>1. TypeOK
  BY DEF TypeOK, PC, Errors
<1>2. SeedInv
  BY DEF SeedInv
<1>3. Existing = {} /\ Creating = {}
  BY DEF Existing, Exists, Creating
<1>4. LimitOvershootBounded
  BY <1>3, Finite, FS_EmptySet DEF LimitOvershootBounded
<1>5. QED
  BY <1>1, <1>2, <1>4 DEF CloudInv

\* The steps of a call.
LEMMA CallKeepsInv ==
    ASSUME CloudInv, NEW d \in Dials, Call(d)
    PROVE  CloudInv'
<1> USE CloudAssumption
<1>1. deadline \in [Dials -> BOOLEAN] /\ cancelled \in [Dials -> BOOLEAN]
  BY DEF CloudInv, TypeOK
<1>2. APIError(d) \in Errors
  BY DEF APIError, Errors
<1>3. {"dial", "limit", "connected", "backoff", "lookup"} \subseteq PC \ {"create"}
  BY DEF PC, Working
<1>4. {"vanished", "cancelled", "network", "deadline", "hostkey"} \subseteq Errors
  BY DEF Errors
<1>5. CASE lookup(d)
  BY <1>1, <1>2, <1>3, <1>5, GotoKeepsInv, FailKeepsInv DEF lookup
<1>6. CASE relookup(d)
  BY <1>1, <1>2, <1>3, <1>4, <1>6, GotoKeepsInv, FailKeepsInv DEF relookup
<1>7. CASE Connected(d) \/ BackoffElapses(d)
  BY <1>3, <1>7, GotoKeepsInv DEF Connected, BackoffElapses
<1>8. CASE DialRetryable(d)
  BY <1>1, <1>3, <1>4, <1>8, GotoKeepsInv, FailKeepsInv DEF DialRetryable, EnterSelect
<1>9. CASE DialError(d)
  BY <1>1, <1>4, <1>9, FailKeepsInv DEF DialError
<1>10. QED
  BY <1>5, <1>6, <1>7, <1>8, <1>9, CheckKeepsInv, CreateKeepsInv DEF Call

\* A guest ends, for whatever reason.
LEMMA ExitKeepsInv ==
    ASSUME CloudInv, NEW u \in Users, instances' = [instances EXCEPT ![u] = NoInstance],
           UNCHANGED <<seed, user, pc, err, deadline, cancelled>>
    PROVE  CloudInv'
<1>1. TypeOK' /\ SeedInv'
  BY CloudAssumption DEF CloudInv, TypeOK, SeedInv, NoInstance
<1>2. Existing' \subseteq Existing /\ Creating' = Creating
  BY DEF CloudInv, TypeOK, Existing, Exists, Creating, NoInstance
<1>3. QED
  BY <1>1, <1>2, FewerKeepsBound DEF CloudInv

LEMMA CloudStep == CloudInv /\ [Next]_vars => CloudInv'
<1> SUFFICES ASSUME CloudInv, [Next]_vars PROVE CloudInv'
  OBVIOUS
<1> USE CloudAssumption
<1>1. ASSUME NEW d \in Dials, NEW u \in Users, Begin(d, u) PROVE CloudInv'
  <2>1. /\ pc' = [pc EXCEPT ![d] = "lookup"] /\ err' = [err EXCEPT ![d] = err[d]]
        /\ "lookup" \in PC \ {"create"} /\ err[d] \in Errors /\ user' \in [Dials -> Users]
        /\ UNCHANGED <<seed, instances>>
        /\ deadline' \in [Dials -> BOOLEAN] /\ cancelled' \in [Dials -> BOOLEAN]
    BY <1>1 DEF Begin, PC, Working, CloudInv, TypeOK
  <2>2. QED
    BY <2>1, MoveKeepsInv
<1>2. ASSUME NEW d \in Dials, DeadlineFires(d) \/ ClientGone(d) PROVE CloudInv'
  <2>1. /\ UNCHANGED <<seed, instances>>
        /\ deadline' \in [Dials -> BOOLEAN] /\ cancelled' \in [Dials -> BOOLEAN]
    BY <1>2 DEF DeadlineFires, ClientGone, CloudInv, TypeOK
  <2>2. CASE Fail(d, "deadline") \/ Fail(d, "cancelled")
    BY <2>1, <2>2, FailKeepsInv DEF Errors
  <2>3. CASE UNCHANGED <<user, pc, err>>
    <3>1. TypeOK' /\ SeedInv'
      BY <2>1, <2>3 DEF CloudInv, TypeOK, SeedInv
    <3>2. Existing' = Existing /\ Creating' = Creating
      BY <2>1, <2>3 DEF Existing, Exists, Creating
    <3>3. QED
      BY <3>1, <3>2, FewerKeepsBound DEF CloudInv
  <2>4. QED
    BY <1>2, <2>2, <2>3 DEF DeadlineFires, ClientGone
<1>3. ASSUME NEW d \in Dials, SessionEnds(d) PROVE CloudInv'
  <2>1. /\ "idle" \in PC \ {"create"} /\ "none" \in Errors
        /\ deadline' \in [Dials -> BOOLEAN] /\ cancelled' \in [Dials -> BOOLEAN]
        /\ user' \in [Dials -> Users]
    BY <1>3 DEF SessionEnds, PC, Working, Errors, CloudInv, TypeOK
  <2>2. QED
    BY <1>3, <2>1, MoveKeepsInv DEF SessionEnds
<1>4. ASSUME NEW u \in Users, GuestBoots(u) \/ GuestExits(u) PROVE CloudInv'
  <2>1. UNCHANGED <<seed, user, pc, err, deadline, cancelled>>
    BY <1>4 DEF GuestBoots, GuestExits
  <2>2. CASE GuestBoots(u)
    <3>1. instances' = [instances EXCEPT ![u].state = "up"] /\ instances[u].state = "booting"
      BY <2>2 DEF GuestBoots
    <3>2. TypeOK' /\ SeedInv'
      BY <2>1, <3>1 DEF CloudInv, TypeOK, SeedInv
    <3>3. Existing' \subseteq Existing /\ Creating' = Creating
      BY <2>1, <3>1 DEF CloudInv, TypeOK, Existing, Exists, Creating
    <3>4. QED
      BY <3>2, <3>3, FewerKeepsBound DEF CloudInv
  <2>3. CASE GuestExits(u)
    BY <2>1, <2>3, ExitKeepsInv DEF GuestExits
  <2>4. QED
    BY <1>4, <2>2, <2>3
<1>5. ASSUME Restart PROVE CloudInv'
  <2>1. TypeOK' /\ SeedInv'
    BY <1>5 DEF Restart, CloudInv, TypeOK, SeedInv, PC, Errors
  <2>2. Existing' = Existing /\ Creating' \subseteq Creating
    BY <1>5 DEF Restart, Existing, Exists, Creating
  <2>3. QED
    BY <2>1, <2>2, FewerKeepsBound DEF CloudInv
<1>6. CASE UNCHANGED vars
  <2>1. TypeOK' /\ SeedInv'
    BY <1>6 DEF vars, CloudInv, TypeOK, SeedInv
  <2>2. Existing' = Existing /\ Creating' = Creating
    BY <1>6 DEF vars, Existing, Exists, Creating
  <2>3. QED
    BY <2>1, <2>2, FewerKeepsBound DEF CloudInv
<1>7. QED
  BY <1>1, <1>2, <1>3, <1>4, <1>5, <1>6, CallKeepsInv DEF Next

-----------------------------------------------------------------------------
(* The properties *)

\* The inductive invariant holds in every reachable state.
THEOREM CloudInvariant == Spec => []CloudInv
BY CloudInit, CloudStep, PTL DEF Spec

\* The variables keep their types.
THEOREM CloudTypeOK == Spec => []TypeOK
<1>1. CloudInv => TypeOK
  BY DEF CloudInv
<1>2. QED
  BY <1>1, CloudInvariant, PTL

\* The unlocked check of max_instances (unikraft.go:141-145) lets through at
\* most one instance too many for every concurrent call but one.
THEOREM CloudLimitOvershootBounded == Spec => []LimitOvershootBounded
<1>1. CloudInv => LimitOvershootBounded
  BY DEF CloudInv
<1>2. QED
  BY <1>1, CloudInvariant, PTL

\* The one step that sets the error "hostkey" finds a guest of another seed,
\* which can only be an older one.
LEMMA MismatchStep ==
    ASSUME CloudInv, Next, NEW d \in Dials, err[d] # "hostkey", err'[d] = "hostkey"
    PROVE  instances[user[d]].seed < seed
<1> USE CloudAssumption DEF CloudInv, TypeOK
<1>1. ASSUME NEW e \in Dials, NEW why \in Errors \ {"hostkey"}, Fail(e, why) PROVE FALSE
  BY <1>1 DEF Fail
<1>2. ASSUME UNCHANGED err PROVE FALSE
  BY <1>2
<1>3. {"cancelled", "limit", "create", "vanished", "network", "deadline"}
          \subseteq Errors \ {"hostkey"}
  BY DEF Errors
<1>4. ASSUME NEW e \in Dials PROVE APIError(e) \in Errors \ {"hostkey"}
  BY DEF APIError, Errors
<1>5. ASSUME NEW e \in Dials, NEW l \in PC, Goto(e, l) PROVE FALSE
  BY <1>2, <1>5 DEF Goto
<1>6. {"lookup", "limit", "create", "relookup", "dial", "backoff", "connected"} \subseteq PC
  BY DEF PC, Working
<1>7. ASSUME NEW e \in Dials, DialError(e) PROVE instances[user[d]].seed < seed
  <2>1. ~SameKey(e) /\ Fail(e, "hostkey")
    BY <1>1, <1>3, <1>7 DEF DialError
  <2>2. e = d
    BY <2>1 DEF Fail
  <2>3. /\ instances[user[d]].seed # seed /\ instances[user[d]].seed <= seed
        /\ instances[user[d]].seed \in Nat /\ seed \in Nat
    <3>1. user[d] \in Users
      OBVIOUS
    <3>2. instances[user[d]].seed \in 0 .. MaxRestarts
      BY <3>1
    <3>3. QED
      BY <2>1, <2>2, <3>1, <3>2 DEF SameKey, SeedInv
  <2>4. QED
    <3> HIDE DEF CloudInv, TypeOK
    <3>1. QED
      BY <2>3, SMT
<1>8. ASSUME NEW e \in Dials, lookup(e) \/ relookup(e) \/ checkInstanceLimit(e) PROVE FALSE
  BY <1>1, <1>3, <1>4, <1>5, <1>6, <1>8 DEF lookup, relookup, checkInstanceLimit
<1>9. ASSUME NEW e \in Dials, create(e) PROVE FALSE
  BY <1>1, <1>3, <1>4, <1>5, <1>6, <1>9 DEF create, AfterConflict
<1>10. ASSUME NEW e \in Dials, Connected(e) \/ DialRetryable(e) \/ BackoffElapses(e) PROVE FALSE
  BY <1>1, <1>3, <1>5, <1>6, <1>10 DEF Connected, DialRetryable, EnterSelect, BackoffElapses
<1>11. ASSUME NEW e \in Dials, DeadlineFires(e) \/ ClientGone(e) PROVE FALSE
  BY <1>1, <1>2, <1>3, <1>11 DEF DeadlineFires, ClientGone
<1>12. ASSUME NEW e \in Dials, SessionEnds(e) PROVE FALSE
  BY <1>12 DEF SessionEnds
<1>13. ASSUME Restart PROVE FALSE
  BY <1>13 DEF Restart
<1>14. ASSUME NEW e \in Dials, NEW u \in Users, Begin(e, u) PROVE FALSE
  BY <1>2, <1>14 DEF Begin
<1>15. ASSUME NEW u \in Users, GuestBoots(u) \/ GuestExits(u) PROVE FALSE
  BY <1>2, <1>15 DEF GuestBoots, GuestExits
<1>16. QED
  BY <1>7, <1>8, <1>9, <1>10, <1>11, <1>12, <1>13, <1>14, <1>15 DEF Next, Call

\* A host key mismatch (FixedHostKey, unikraft.go:291) is always the work of a
\* restart since the guest was made, never of racing creations or lost answers.
THEOREM CloudMismatchOnlyAfterRestart == Spec => MismatchOnlyAfterRestart
<1> DEFINE A == \A d \in Dials : err[d] # "hostkey" /\ err'[d] = "hostkey" =>
                                   instances[user[d]].seed < seed
<1>1. CloudInv /\ [Next]_vars => [A]_vars
  BY MismatchStep
<1>2. [][A]_vars <=> MismatchOnlyAfterRestart
  BY DEF MismatchOnlyAfterRestart
<1>3. Spec => []CloudInv /\ [][Next]_vars
  BY CloudInvariant DEF Spec
<1>4. QED
  BY <1>1, <1>2, <1>3, PTL
=============================================================================

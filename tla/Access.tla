------------------------------- MODULE Access -------------------------------
(***************************************************************************)
(* What sshmux promises about access, without saying how it is             *)
(* established: a caller enters on a proof it can really give, each of its *)
(* sessions is decided once, and the decision is that of the first route   *)
(* of the file that matches.  Mux, with its key queries, answer cache,     *)
(* stored roles and attempts, implements it.                               *)
(***************************************************************************)
EXTENDS Config

CONSTANTS Sessions,   \* the sessions of a caller
          OwnedKeys   \* the keys whose private half the caller holds

VARIABLES policy,    \* the configuration in force
          caller,    \* Nobody, or who has entered and on which proof
          verdict    \* "none", "served" or "refused" for each session

access == <<policy, caller, verdict>>

Nobody  == [user |-> "nobody"]
Proof   == {[method |-> "none"]}
           \cup {[method |-> "publickey", key |-> k] : k \in OwnedKeys}
           \cup {[method |-> "password", password |-> p] : p \in Passwords}

\* An entry of the file names the proof.
Proves(entry, proof) ==
    \/ /\ proof.method = "publickey" /\ entry.Key.key = proof.key
       /\ entry.Key.hasFingerprint \/ entry.Key.hasPublicKey
    \/ /\ proof.method = "password" /\ entry.Password.present
       /\ proof.password \in entry.Password.accepts

Gives(proof, role) ==
    \E i \in DOMAIN policy.Auth : Proves(policy.Auth[i], proof) /\ role \in policy.Auth[i].Role

Matching(u) == {i \in DOMAIN policy.Routes : Match(policy.Routes[i].Username, u)}
Public(i)   == policy.Routes[i].Role = NoRole
Open(i, proof) == Public(i) \/ Gives(proof, policy.Routes[i].Role)

\* Without a proof everything the name may reach must be public; with one,
\* something must be open to it.
MayEnter(u, proof) ==
    IF proof.method = "none"
      THEN Matching(u) # {} /\ \A i \in Matching(u) : Public(i)
      ELSE /\ \E role \in RoleString : Gives(proof, role)
           /\ \E i \in Matching(u) : Open(i, proof)

MayUse == \E i \in Matching(caller.user) :
              /\ \A j \in Matching(caller.user) : i <= j
              /\ Open(i, caller.proof)

-----------------------------------------------------------------------------
NoVerdict == [s \in Sessions |-> "none"]

Init == policy = [Auth |-> <<>>, Routes |-> <<>>] /\ caller = Nobody /\ verdict = NoVerdict

\* The configuration is set once, before anyone enters.
Load ==
    /\ policy = [Auth |-> <<>>, Routes |-> <<>>] /\ caller = Nobody
    /\ policy' \in ConfigType
    /\ UNCHANGED <<caller, verdict>>

Enter(u, proof) ==
    /\ caller = Nobody /\ MayEnter(u, proof)
    /\ caller' = [user |-> u, proof |-> proof]
    /\ UNCHANGED <<policy, verdict>>

Leave == caller' = Nobody /\ verdict' = NoVerdict /\ UNCHANGED policy

Decide(s) ==
    /\ caller # Nobody /\ verdict[s] = "none"
    /\ verdict' = [verdict EXCEPT ![s] = IF MayUse THEN "served" ELSE "refused"]
    /\ UNCHANGED <<policy, caller>>

Next ==
    \/ Load
    \/ \E u \in Usernames, proof \in Proof : Enter(u, proof)
    \/ Leave
    \/ \E s \in Sessions : Decide(s)

Spec == Init /\ [][Next]_access
=============================================================================

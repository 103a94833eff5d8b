----------------------------- MODULE GuestLife -----------------------------
(***************************************************************************)
(* What a guest promises the provider that made it: it lives as long as it *)
(* has sessions, and when it has none for long enough it ends by itself.   *)
(* Guest implements it with a counter, generations and timers; CloudGuest  *)
(* composes the provider with guests that behave like this.                *)
(***************************************************************************)
CONSTANT Sessions

VARIABLES life,    \* "off", "up", "fatal" or "idle"
          active   \* the sessions it is serving

guest == <<life, active>>

Init == life = "off" /\ active = {}

Boot == life = "off" /\ life' \in {"up", "fatal"} /\ UNCHANGED active

Start(s) ==
    /\ life = "up" /\ s \notin active
    /\ active' = active \cup {s}
    /\ UNCHANGED life

Finish(s) ==
    /\ life = "up" /\ s \in active
    /\ active' = active \ {s}
    /\ UNCHANGED life

\* Only a guest with no session ends, and it stays ended.
IdleExit == life = "up" /\ active = {} /\ life' = "idle" /\ UNCHANGED active

Next == Boot \/ IdleExit \/ \E s \in Sessions : Start(s) \/ Finish(s)

\* What a guest may do.
SafeSpec == Init /\ [][Next]_guest

\* A guest that is left alone ends.
Spec == SafeSpec /\ WF_guest(IdleExit)
=============================================================================

---------------------------- MODULE AtLeastOnce ----------------------------
(***************************************************************************)
(* What the telemetry path promises, with no worker, database or           *)
(* connection in sight: a message the car offered is kept by the broker    *)
(* until its effect is durable, and only then forgotten.                   *)
(***************************************************************************)
CONSTANT Messages

VARIABLES offered,   \* messages the car has published
          held,      \* messages the broker still has to get acknowledged
          accepted   \* messages whose effect is durable

vars == <<offered, held, accepted>>

Init == offered = {} /\ held = {} /\ accepted = {}

Offer(m) ==
    /\ m \notin offered
    /\ offered' = offered \cup {m}
    /\ held' = held \cup {m}
    /\ UNCHANGED accepted

\* A redelivered message may be accepted again: that is a stuttering step here.
Accept(m) ==
    /\ m \in held
    /\ accepted' = accepted \cup {m}
    /\ UNCHANGED <<offered, held>>

Forget(m) ==
    /\ m \in held \cap accepted
    /\ held' = held \ {m}
    /\ UNCHANGED <<offered, accepted>>

Next == \E m \in Messages : Offer(m) \/ Accept(m) \/ Forget(m)

Spec == Init /\ [][Next]_vars
=============================================================================

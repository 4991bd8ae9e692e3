---------------------------- MODULE TailorService ----------------------------
(***************************************************************************)
(* What the tailoring workers promise, whatever their number and however   *)
(* their commands interleave: at most one tailoring of a match at a time,  *)
(* and an application that only such a tailoring takes away or stores, in  *)
(* the place of none.  TailorWorker implements it as long as a lock        *)
(* outlives the run that took it and no Redis command is repeated.         *)
(***************************************************************************)
EXTENDS Integers

CONSTANT MatchId

VARIABLES row, app, tailoring

vars == <<row, app, tailoring>>

Init ==
    /\ row = [m \in MatchId |-> "absent"]
    /\ app = [m \in MatchId |-> 0]
    /\ tailoring = {}

\* A matcher adds a match.
Appear(m) ==
    /\ row[m] = "absent"
    /\ row' = [row EXCEPT ![m] = "live"]
    /\ UNCHANGED <<app, tailoring>>

\* A settings change or a profile submit deletes matches with what they have.
Delete(S) ==
    /\ row' = [m \in MatchId |-> IF m \in S /\ row[m] = "live" THEN "deleted" ELSE row[m]]
    /\ app' = [m \in MatchId |-> IF m \in S THEN 0 ELSE app[m]]
    /\ UNCHANGED tailoring

Start(m) ==
    /\ m \notin tailoring
    /\ tailoring' = tailoring \cup {m}
    /\ UNCHANGED <<row, app>>

\* The application of an earlier tailoring is taken away ...
Discard(m) ==
    /\ m \in tailoring
    /\ app' = [app EXCEPT ![m] = 0]
    /\ UNCHANGED <<row, tailoring>>

\* ... and a new one stored, never beside another.
Store(m) ==
    /\ m \in tailoring /\ row[m] = "live" /\ app[m] = 0
    /\ app' = [app EXCEPT ![m] = 1]
    /\ UNCHANGED <<row, tailoring>>

Stop(m) ==
    /\ m \in tailoring
    /\ tailoring' = tailoring \ {m}
    /\ UNCHANGED <<row, app>>

Next ==
    \/ \E m \in MatchId : Appear(m) \/ Start(m) \/ Discard(m) \/ Store(m) \/ Stop(m)
    \/ \E S \in SUBSET MatchId : Delete(S)

Spec == Init /\ [][Next]_vars
=============================================================================

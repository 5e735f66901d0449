---------------------------- MODULE MCLoadShape ----------------------------
(* LoadShape with the anomalies of loadprofile/profile.json.               *)
EXTENDS LoadShape

Spike       == [type |-> "spike", offset |-> -10, hours |-> 6, multiplier |-> 400]
Outage      == [type |-> "outage", offset |-> -6, hours |-> 4, multiplier |-> 0]
Degradation == [type |-> "degradation", offset |-> -2, hours |-> 48, multiplier |-> 30]
Unknown     == [type |-> "typo", offset |-> -3, hours |-> 5, multiplier |-> 0]

Week == <<105, 108, 110, 110, 115, 85, 75>>

Checked == [base |-> 8, amplitude |-> 35, noise |-> 5, weekdays |-> Week, trend |-> 15,
            anomalies |-> {Spike, Outage, Degradation}]

MCProfiles == {Checked,
               [Checked EXCEPT !.weekdays = SubSeq(Week, 1, 6)],
               [Checked EXCEPT !.anomalies = {Spike, Unknown}]}

\* Before, at and after the full and the half hour, in the first week of 1970
\* (with a history that begins before it) and in 2026.  The last one has a
\* sample, on a Saturday of profile time, where the trend at scale 24 is above
\* zero and the hour still rounds to no event.
MCRefs == {7225 + m : m \in {0, 1, 5, 29, 34, 35, 36, 59}} \cup {29700000 + m : m \in {0, 29, 30, 31, 59, 1449}}

\* What the theorems about LoadShape presuppose.
ASSUME ProofHypotheses == WholeMinutes /\ BusyProfiles /\ DisjointAnomalies
=============================================================================

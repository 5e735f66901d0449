--------------------------- MODULE SchemaVersion ---------------------------
(***************************************************************************)
(* What the migrations runner promises, without processes, transactions or *)
(* failures: the schema goes up one version at a time, never back, and     *)
(* nobody uses it before it is complete.                                   *)
(***************************************************************************)
EXTENDS Naturals

CONSTANTS Procs, NumMigrations

VARIABLES version, users

Init == version = 0 /\ users = {}

Upgrade == version < NumMigrations /\ version' = version + 1 /\ UNCHANGED users

Enter(p) == version = NumMigrations /\ users' = users \cup {p} /\ UNCHANGED version

Leave(p) == p \in users /\ users' = users \ {p} /\ UNCHANGED version

Next == Upgrade \/ \E p \in Procs : Enter(p) \/ Leave(p)

Spec == Init /\ [][Next]_<<version, users>>
=============================================================================

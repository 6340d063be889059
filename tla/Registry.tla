------------------------------ MODULE Registry ------------------------------
(***************************************************************************)
(* What the backend promises about the all-time count, without sessions,   *)
(* locks or time: every installation that ever checked in is either active *)
(* or archived, a check-in makes it active, retention archives active      *)
(* ones, and nothing is ever forgotten or counted twice.                   *)
(***************************************************************************)
CONSTANT Ids
VARIABLES active, archived

RegistryInit == active = {} /\ archived = {}

CheckIn(x) ==
    /\ active' = active \cup {x}
    /\ archived' = archived \ {x}

Retire(S) ==
    /\ S \subseteq active
    /\ active' = active \ S
    /\ archived' = archived \cup S

RegistryNext ==
    \/ \E x \in Ids : CheckIn(x)
    \/ \E S \in SUBSET Ids : Retire(S)

RegistrySpec == RegistryInit /\ [][RegistryNext]_<<active, archived>>
=============================================================================

------------------------------ MODULE MCOverlap ------------------------------
(***************************************************************************)
(* Resets, and overlapping syncs, backups and pauses in the Desktop        *)
(* process of device a, in one instance.  A reset or a journal with        *)
(* another call beside it is left out: both are refuted (README).          *)
(***************************************************************************)
EXTENDS MCCloudSync

\* Any call, a reset included, with no other beside it on its device; no
\* backup and no pause.
OneAtATime ==
    /\ task[<<a, 2>>].stage = "idle"
    /\ \A g \in Engines : /\ ~engine[g].paused
                          /\ \A x \in engine[g].journal : x.entity \in Entities

\* Two calls on device a, none of them a reset or a journal, at most one
\* backup; once it is made, a failure leaves only one of the two.
Overlapping ==
    /\ writes <= 1
    /\ \A h \in Handlers : task[h].stage # "reset" /\ task[h].mine = {}
    /\ ~engine[b].paused /\ ~disk[b].paused
    /\ faults = 0 \/ writes = 0 \/ task[<<a, 2>>].stage = "idle"

InScenario == OneAtATime \/ Overlapping
=============================================================================

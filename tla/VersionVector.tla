---------------------------- MODULE VersionVector ----------------------------
(***************************************************************************)
(* Version vectors of the Cloud Sync protocol.  The code keeps a sparse    *)
(* record from device id to counter and reads a missing entry as 0, so a   *)
(* vector is a total function on Devices here.                             *)
(***************************************************************************)
EXTENDS Naturals

CONSTANT Devices

Vector == [Devices -> Nat]

ZeroVector == [d \in Devices |-> 0]

Larger(m, n) == IF m >= n THEN m ELSE n

\* compareVectors: the two flags of its loop, then its four outcomes.
CompareVectors(a, b) ==
    LET less    == \E d \in Devices : a[d] < b[d]
        greater == \E d \in Devices : a[d] > b[d]
    IN  CASE less /\ greater   -> "concurrent"
          [] less /\ ~greater  -> "before"
          [] ~less /\ greater  -> "after"
          [] ~less /\ ~greater -> "equal"

\* mergeVectors: the pointwise maximum.
MergeVectors(a, b) == [d \in Devices |-> Larger(a[d], b[d])]
=============================================================================

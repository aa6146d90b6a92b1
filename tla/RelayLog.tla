------------------------------ MODULE RelayLog ------------------------------
(***************************************************************************)
(* What the relay promises to the devices of one Vault, as the interface   *)
(* SyncRelayTransport (packages/cloud-sync/src/protocol.ts) and the engine *)
(* use it: a log that grows at its end, of which a device holds a prefix,  *)
(* and a register of devices of which one always remains.                  *)
(*                                                                         *)
(* CloudSync takes this log for granted (its variable `log').  The module  *)
(* PostgresRelay shows that the relay's transactions implement it.         *)
(***************************************************************************)
EXTENDS SequencesExt, FiniteSets

CONSTANT Devices     \* device ids

VARIABLES
    log,         \* the records, in the order of their sequence numbers
    members,     \* devices whose requests are accepted
    former,      \* devices that were revoked; they never come back
    received     \* [Devices -> the part of the log a device holds]

logVars == <<log, members, former, received>>

Init ==
    /\ log = <<>>
    /\ members \in (SUBSET Devices) \ {{}}
    /\ former = {}
    /\ received = [d \in Devices |-> <<>>]

\* Records not stored yet are added at the end.
Extend(d) ==
    /\ d \in members
    /\ IsPrefix(log, log')
    /\ IsInjective(log')
    /\ UNCHANGED <<members, former, received>>

\* A device is handed the log up to some point; an answer under way when the
\* Vault is deleted may still arrive.
Deliver(d) ==
    /\ received' = [received EXCEPT ![d] = received'[d]]
    /\ IsPrefix(received[d], received'[d])
    /\ members # {} => IsPrefix(received'[d], log)
    /\ UNCHANGED <<log, members, former>>

Enroll(d, new) ==
    /\ d \in members
    /\ new \notin former
    /\ members' = members \cup {new}
    /\ UNCHANGED <<log, former, received>>

Revoke(d, old) ==
    /\ {d, old} \subseteq members
    /\ members # {old}
    /\ members' = members \ {old}
    /\ former' = former \cup {old}
    /\ UNCHANGED <<log, received>>

\* The whole Vault is deleted, by a device of it.
Delete(d) ==
    /\ d \in members
    /\ members' = {} /\ log' = <<>> /\ former' = {}
    /\ UNCHANGED received

Next ==
    \E d \in Devices :
        \/ Extend(d)
        \/ Deliver(d)
        \/ \E e \in Devices : Enroll(d, e) \/ Revoke(d, e)
        \/ Delete(d)

Spec == Init /\ [][Next]_logVars
=============================================================================

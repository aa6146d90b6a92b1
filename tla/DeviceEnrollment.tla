-------------------------- MODULE DeviceEnrollment --------------------------
(***************************************************************************)
(* Enrolling and revoking devices with Sync v2                             *)
(* (apps/local-node/src/device-enrollment-v2.ts): each is a call to the    *)
(* relay and a write of the encrypted registry of the approving Local      *)
(* Node, by a process of its own that may fail between the two.            *)
(*                                                                         *)
(* The relay is taken at its word, as in the module RelayLog: one atomic   *)
(* step registers a device, unless it was revoked before, or revokes it.   *)
(* A root that wants to join makes an identity for every attempt.          *)
(***************************************************************************)
EXTENDS Naturals, FiniteSets

CONSTANTS
    Joiners,       \* Vault roots that want to join
    Processes,     \* commands that may run at once on the approving node
    MaxAttempts,   \* bound: identities made in one behaviour
    MaxEpoch       \* bound: revocations, as the epoch they lead to

VARIABLES
    onRelay,       \* [Identities -> "unknown", "active" or "revoked"]
    registry,      \* device-registry-v2.cvlt of the approving node
    operation,     \* [Processes -> the operation a process runs]
    pending,       \* [Joiners -> its last identity, or 0]
    expired,       \* challenges whose time has passed
    granted,       \* grants returned with their bundle
    joined         \* [Joiners -> what acceptance has written so far]

enrollmentVars ==
    <<onRelay, registry, operation, pending, expired, granted, joined>>

Identities == 1..MaxAttempts

NoSession == [state |-> "none", epoch |-> 0]

\* newDeviceRegistryV2
NewRegistry == [sync_epoch |-> 1, devices |-> [i \in Identities |-> NoSession]]

NoCommand == [stage |-> "idle", device |-> 0, registry |-> NewRegistry]

NotJoined == [config |-> 0, state |-> 0, registry |-> 0, epoch |-> 0]

EnrollmentInit ==
    /\ onRelay = [i \in Identities |-> "unknown"]
    /\ registry = NewRegistry
    /\ operation = [p \in Processes |-> NoCommand]
    /\ pending = [j \in Joiners |-> 0]
    /\ expired = {}
    /\ granted = {}
    /\ joined = [j \in Joiners |-> NotJoined]

-----------------------------------------------------------------------------
\* The registry (packages/cloud-sync/src/device-registry.ts)

\* enrollDeviceV2
Enrolled(r, i) ==
    [r EXCEPT !.devices[i] = [state |-> "live", epoch |-> r.sync_epoch]]

\* revokeDeviceV2
Revoked(r, i) ==
    [r EXCEPT !.sync_epoch = @ + 1, !.devices[i].state = "revoked"]

\* rotateSessionsToEpoch
Rotated(r) ==
    [r EXCEPT !.devices = [i \in Identities |->
        IF r.devices[i].state = "live"
        THEN [r.devices[i] EXCEPT !.epoch = r.sync_epoch]
        ELSE r.devices[i]]]

-----------------------------------------------------------------------------
\* beginDeviceEnrollmentV2: keys and a challenge, written as the pending one.
BeginEnrollment(j) ==
    LET made == {i \in Identities : \E k \in Joiners : i <= pending[k]} IN
    /\ Cardinality(made) < MaxAttempts
    /\ pending' = [pending EXCEPT ![j] = Cardinality(made) + 1]
    /\ UNCHANGED <<onRelay, registry, operation, expired, granted, joined>>

Requested == {i \in Identities : \E j \in Joiners : i <= pending[j]}

\* The challenge of i runs out, and with it the bundles sealed for i.
Expire(i) ==
    /\ i \in Requested \ expired
    /\ expired' = expired \cup {i}
    /\ UNCHANGED <<onRelay, registry, operation, pending, granted, joined>>

CommandGoes(p, fields) == operation' = [operation EXCEPT ![p] = fields]

CommandEnds(p) == CommandGoes(p, NoCommand)

AtStage(p, stage) == operation[p].stage = stage

\* approveDeviceEnrollmentV2, up to the relay.
Approve(p, i) ==
    /\ AtStage(p, "idle")
    /\ i \in Requested \ expired
    /\ CommandGoes(p, [NoCommand EXCEPT !.stage = "enroll", !.device = i])
    /\ UNCHANGED <<onRelay, registry, pending, expired, granted, joined>>

\* The relay's upsert, which leaves a revoked device as it is, without an error.
RelayEnrolls(p) ==
    /\ AtStage(p, "enroll")
    /\ onRelay' = [onRelay EXCEPT ![operation[p].device] =
                      IF @ = "revoked" THEN @ ELSE "active"]
    /\ CommandGoes(p, [operation[p] EXCEPT !.stage = "load"])

\* loadRegistry and enrollDeviceV2, or DEVICE_ALREADY_ENROLLED.
LoadForGrant(p) ==
    LET i == operation[p].device IN
    /\ AtStage(p, "load")
    /\ IF registry.devices[i].state = "live"
       THEN CommandEnds(p)
       ELSE CommandGoes(p, [operation[p] EXCEPT !.stage = "grant",
                                              !.registry = Enrolled(registry, i)])
    /\ UNCHANGED <<onRelay, registry>>

\* The registry is written, the root key sealed, grant and bundle returned.
Grant(p) ==
    /\ AtStage(p, "grant")
    /\ registry' = operation[p].registry
    /\ granted' = granted \cup {[device |-> operation[p].device,
                                 epoch |-> operation[p].registry.sync_epoch]}
    /\ CommandEnds(p)
    /\ UNCHANGED <<onRelay, pending, expired, joined>>

\* revokeEnrolledDeviceV2: the registry is loaded before the relay is asked.
StartRevocation(p, i) ==
    /\ AtStage(p, "idle")
    /\ registry.sync_epoch < MaxEpoch
    /\ CommandGoes(p, [stage |-> "revoke", device |-> i, registry |-> registry])
    /\ UNCHANGED <<onRelay, registry, pending, expired, granted, joined>>

\* Mutant: a refusal of the relay does not end the operation.
RelayRevokesOrNot(p) ==
    LET i == operation[p].device IN
    /\ AtStage(p, "revoke")
    /\ onRelay' = onRelay
    /\ IF operation[p].registry.devices[i].state = "none"
       THEN CommandEnds(p)
       ELSE CommandGoes(p, [operation[p] EXCEPT
                !.stage = "retire", !.registry = Rotated(Revoked(@, i))])

\* The relay revokes an active device; revokeDeviceV2 then wants to know it too.
RelayRevokes(p) ==
    LET i == operation[p].device IN
    /\ AtStage(p, "revoke")
    /\ IF onRelay[i] = "active"
       THEN /\ onRelay' = [onRelay EXCEPT ![i] = "revoked"]
            /\ IF operation[p].registry.devices[i].state = "none"
               THEN CommandEnds(p)
               ELSE CommandGoes(p, [operation[p] EXCEPT
                        !.stage = "retire", !.registry = Rotated(Revoked(@, i))])
       ELSE CommandEnds(p) /\ UNCHANGED onRelay

WriteRevocation(p) ==
    /\ AtStage(p, "retire")
    /\ registry' = operation[p].registry
    /\ CommandEnds(p)
    /\ UNCHANGED <<onRelay, pending, expired, granted, joined>>

\* A call fails, an answer is lost, the process ends.
CommandFails(p) ==
    /\ ~AtStage(p, "idle")
    /\ CommandEnds(p)
    /\ UNCHANGED <<onRelay, registry, pending, expired, granted, joined>>

-----------------------------------------------------------------------------
\* acceptDeviceEnrollmentV2: the grant is for the pending identity and in time;
\* configuration, state and registry are written one after the other.
AcceptConfig(j) ==
    /\ \E g \in granted :
          /\ g.device = pending[j] /\ g.device \notin expired
          /\ joined[j].config # g.device
          /\ joined' = [joined EXCEPT ![j].config = g.device, ![j].epoch = g.epoch]
    /\ UNCHANGED <<onRelay, registry, operation, pending, expired, granted>>

AcceptState(j) ==
    /\ joined[j].state # joined[j].config
    /\ joined' = [joined EXCEPT ![j].state = joined[j].config]
    /\ UNCHANGED <<onRelay, registry, operation, pending, expired, granted>>

AcceptRegistry(j) ==
    /\ joined[j].state = joined[j].config /\ joined[j].registry # joined[j].state
    /\ joined' = [joined EXCEPT ![j].registry = joined[j].state]
    /\ UNCHANGED <<onRelay, registry, operation, pending, expired, granted>>

EnrollmentNext ==
    \/ \E j \in Joiners :
          BeginEnrollment(j) \/ AcceptConfig(j) \/ AcceptState(j) \/ AcceptRegistry(j)
    \/ \E i \in Identities : Expire(i)
    \/ \E p \in Processes :
          \/ \E i \in Identities : Approve(p, i) \/ StartRevocation(p, i)
          \/ /\ RelayEnrolls(p) \/ LoadForGrant(p) \/ RelayRevokes(p)
             /\ UNCHANGED <<pending, expired, granted, joined>>
             /\ UNCHANGED registry
          \/ Grant(p) \/ WriteRevocation(p) \/ CommandFails(p)

EnrollmentSpec == EnrollmentInit /\ [][EnrollmentNext]_enrollmentVars

-----------------------------------------------------------------------------
\* Properties

\* The registry calls a device revoked only when the relay refuses it already:
\* no order of commands and failures leaves a device that the node believes to
\* be out and the relay still serves.
RevokedIsRefused ==
    \A i \in Identities :
        registry.devices[i].state = "revoked" => onRelay[i] = "revoked"

\* "Surviving local sessions are advanced to the new epoch": whatever overlaps,
\* the live sessions of the registry are all at its epoch.
SurvivorsAtEpoch ==
    \A i \in Identities :
        registry.devices[i].state = "live"
            => registry.devices[i].epoch = registry.sync_epoch

\* A root that holds the Vault's key by Sync v2 is a device the relay knows, so
\* that it can be revoked there.
KeyHoldersAreKnown ==
    \A j \in Joiners :
        joined[j].config # 0 => onRelay[joined[j].config] # "unknown"

\* Relay, registry and joining root agree on who holds the Vault, whatever
\* commands overlap or fail between the relay and the registry.
EnrollmentIsSound == RevokedIsRefused /\ SurvivorsAtEpoch /\ KeyHoldersAreKnown
=============================================================================

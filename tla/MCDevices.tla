----------------------------- MODULE MCDevices ------------------------------
(***************************************************************************)
(* One instance for TLC of what devices do with each other, with the relay *)
(* and with their node, and of the developer's commands on one of them:    *)
(* enrollment, the transactions of the relay, chunks, queued captures, the *)
(* runtime.  As in MCNode, in every behaviour one part moves.              *)
(***************************************************************************)
EXTENDS DeveloperRuntime, ChunkUpload, DeviceEnrollment, PostgresRelay, CaptureQueue, TLC

CONSTANTS Moving,            \* the parts that move
          t1, t2, c1, c2

VARIABLE part

Two == {t1, t2}              \* devices, commands, transactions
TwoChunks == {c1, c2}
Symmetry == Permutations(Two) \cup Permutations(TwoChunks)

DevicesInit ==
    /\ part \in Moving
    /\ RuntimeInit /\ Init /\ EnrollmentInit /\ RelayInit /\ QueueInit
    \* It may begin in several ways, and begins in one of them when it stays.
    /\ part # "relay" => \A d \in Peers : sync_devices[d] = "active"

Moves(p) ==
    /\ part = p /\ UNCHANGED part
    /\ p # "runtime" => UNCHANGED runtimeVars
    /\ p # "chunks" => UNCHANGED vars
    /\ p # "enrollment" => UNCHANGED enrollmentVars
    /\ p # "relay" => UNCHANGED relayVars
    /\ p # "queue" => UNCHANGED queueVars

DevicesNext ==
    \/ Moves("runtime") /\ RuntimeNext
    \/ Moves("chunks") /\ Next
    \/ Moves("enrollment") /\ EnrollmentNext
    \/ Moves("relay") /\ RelayNext
    \/ Moves("queue") /\ QueueNext

devicesVars == <<part, runtimeVars, vars, enrollmentVars, relayVars, queueVars>>

AllDevices == DevicesInit /\ [][DevicesNext]_devicesVars

TwoJournals == "a" :> <<"a1", "a2">> @@ "b" :> <<"b1">>
CapturedTexts == 1 :> "x" @@ 2 :> "x" @@ 3 :> "y"
=============================================================================

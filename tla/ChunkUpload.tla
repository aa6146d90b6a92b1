------------------------------ MODULE ChunkUpload ------------------------------
(***************************************************************************)
(* Encrypted chunks of artifacts on their way to the relay: uploadChunks   *)
(* of the engine (packages/cloud-sync/src/engine.ts) and putChunkPart of   *)
(* the relays (packages/cloud-sync/src/relay.ts,                           *)
(* apps/sync-relay/src/postgres-relay.ts).                                 *)
(*                                                                         *)
(* A chunk is named by its plaintext, so devices that attach the same bytes*)
(* upload the same chunk; each encryption has its own nonce, and a chunk at*)
(* the relay must come from one encryption, part after part.               *)
(***************************************************************************)
EXTENDS Naturals, Sequences

CONSTANTS
    Devices,      \* enrolled devices
    Chunks,       \* chunk ids
    Parts,        \* parts of 512 KiB in one chunk
    MidSync,      \* whether an artifact may be attached while a sync is waiting
    MaxAttached,  \* bound: artifacts attached by a device
    MaxFaults     \* bound: calls that fail without an answer

ASSUME ChunkUploadAssumption ==
    /\ Parts \in Nat \ {0}
    /\ MidSync \in BOOLEAN
    /\ MaxAttached \in Nat

VARIABLES
    cache,     \* [device -> chunk id -> its latest encryption]: engine.chunks
    attached,  \* [device -> encryptions made so far]
    unsent,    \* [device -> artifacts, as sets of chunks, not pushed yet]
    task,      \* [device -> the sync under way]
    store,     \* [chunk id -> what the relay has of it]: sync_chunks
    records,   \* artifacts whose envelope the relay has
    stray,     \* parts in flight whose caller has given up
    faults

vars == <<cache, attached, unsent, task, store, records, stray, faults>>

\* The nth encryption a device made; its nonce and tag tell it from all others.
Encryption == [device : Devices, nth : 1..MaxAttached]
NoEncryption == [device |-> "none", nth |-> 0]

\* A part: which encryption, and how many parts come before it.
Part == [by : Encryption, offset : 0..(Parts - 1)]
Request == [chunk : Chunks, part : Part]

Empty == [by |-> NoEncryption, parts |-> <<>>, complete |-> FALSE]
Idle == [stage |-> "idle", todo |-> {}, chunk |-> "none", by |-> NoEncryption, offset |-> 0]

Init ==
    /\ cache = [d \in Devices |-> [c \in Chunks |-> NoEncryption]]
    /\ attached = [d \in Devices |-> 0]
    /\ unsent = [d \in Devices |-> {}]
    /\ task = [d \in Devices |-> Idle]
    /\ store = [c \in Chunks |-> Empty]
    /\ records = {}
    /\ stray = {}
    /\ faults = 0

-----------------------------------------------------------------------------
\* The relay

\* The part that ends the chunk.
IsFinal(offset) == offset + 1 = Parts

\* Mutant: the offset is not compared with what was received.
Refused_AnyOffset(s, part) == ~s.complete /\ s.by \notin {NoEncryption, part.by}

\* putChunkPart is an error for this part of the chunk as it is stored.
Refused(s, part) ==
    /\ ~s.complete
    /\ \/ s.by \notin {NoEncryption, part.by}
       \/ Len(s.parts) # part.offset

\* The chunk after putChunkPart: a complete chunk stays, the final part
\* completes it.
Stored(s, part) ==
    IF s.complete \/ Refused(s, part) THEN s
    ELSE [by |-> part.by, parts |-> Append(s.parts, part), complete |-> IsFinal(part.offset)]

-----------------------------------------------------------------------------
\* The engine

\* attachArtifact: every chunk is encrypted anew, also one that is cached.
Attach(d, artifact) ==
    LET by == [device |-> d, nth |-> attached[d] + 1] IN
    /\ attached[d] < MaxAttached
    /\ MidSync \/ task[d].stage = "idle"
    /\ attached' = [attached EXCEPT ![d] = @ + 1]
    /\ cache' = [cache EXCEPT ![d] = [c \in Chunks |->
                    IF c \in artifact THEN by ELSE @[c]]]
    /\ unsent' = [unsent EXCEPT ![d] = @ \cup {artifact}]
    /\ UNCHANGED <<task, store, records, stray, faults>>

\* sync() asks which of the chunks it has the relay does not have completely.
Sync(d) ==
    /\ task[d].stage = "idle"
    /\ task' = [task EXCEPT ![d] = [Idle EXCEPT !.stage = "missing",
                   !.todo = {c \in Chunks : cache[d][c] # NoEncryption}]]
    /\ UNCHANGED <<cache, attached, unsent, store, records, stray, faults>>

\* What sync() does with these chunks left: one of them is next, in the
\* encryption of this moment, or the envelopes are.
Turns(d, todo) ==
    IF todo = {} THEN {[Idle EXCEPT !.stage = "push"]}
    ELSE {[stage |-> "put", todo |-> todo \ {c}, chunk |-> c,
           by |-> cache[d][c], offset |-> 0] : c \in todo}

\* Mutant: a chunk that was begun is not missing.
Missing_NotBegun(ids) == {c \in ids : store[c].by = NoEncryption}

\* missingChunks: those of ids the relay does not have completely.
Missing(ids) == {c \in ids : ~store[c].complete}

MissingAnswered(d) ==
    /\ task[d].stage = "missing"
    /\ \E turn \in Turns(d, Missing(task[d].todo)) : task' = [task EXCEPT ![d] = turn]
    /\ UNCHANGED <<cache, attached, unsent, store, records, stray, faults>>

PartOf(d) == [by |-> task[d].by, offset |-> task[d].offset]

\* What sync() does after a part was answered; an error ends it.
Answered(d) ==
    IF Refused(store[task[d].chunk], PartOf(d)) THEN {Idle}
    ELSE IF IsFinal(task[d].offset) THEN Turns(d, task[d].todo)
    ELSE {[task[d] EXCEPT !.offset = @ + 1]}

\* One part is sent and answered.
Put(d) ==
    /\ task[d].stage = "put"
    /\ store' = [store EXCEPT ![task[d].chunk] = Stored(@, PartOf(d))]
    /\ \E turn \in Answered(d) : task' = [task EXCEPT ![d] = turn]
    /\ UNCHANGED <<cache, attached, unsent, records, stray, faults>>

\* The call times out or the process stops: the sync is over, the part may
\* still arrive.
PutUnanswered(d) ==
    /\ task[d].stage = "put"
    /\ faults < MaxFaults
    /\ faults' = faults + 1
    /\ stray' = stray \cup {[chunk |-> task[d].chunk, part |-> PartOf(d)]}
    /\ task' = [task EXCEPT ![d] = Idle]
    /\ UNCHANGED <<cache, attached, unsent, store, records>>

StrayArrives(r) ==
    /\ stray' = stray \ {r}
    /\ store' = [store EXCEPT ![r.chunk] = Stored(@, r.part)]
    /\ UNCHANGED <<cache, attached, unsent, task, records, faults>>

StrayLost(r) ==
    /\ stray' = stray \ {r}
    /\ UNCHANGED <<cache, attached, unsent, task, store, records, faults>>

\* The chunks have been uploaded: everything unsent is pushed.
Push(d) ==
    /\ task[d].stage = "push"
    /\ records' = records \cup unsent[d]
    /\ unsent' = [unsent EXCEPT ![d] = {}]
    /\ task' = [task EXCEPT ![d] = Idle]
    /\ UNCHANGED <<cache, attached, store, stray, faults>>

Next ==
    \/ \E d \in Devices :
         \/ \E artifact \in (SUBSET Chunks) \ {{}} : Attach(d, artifact)
         \/ Sync(d) \/ MissingAnswered(d) \/ Put(d) \/ PutUnanswered(d) \/ Push(d)
    \/ \E r \in stray : StrayArrives(r) \/ StrayLost(r)

Spec == Init /\ [][Next]_vars

\* The application calls sync() again and again, and calls are answered.
FairSpec ==
    /\ Spec
    /\ \A d \in Devices :
         WF_vars(Sync(d) \/ MissingAnswered(d) \/ Put(d) \/ Push(d))

-----------------------------------------------------------------------------
StoredChunk == [by : Encryption \cup {NoEncryption}, parts : Seq(Part), complete : BOOLEAN]

Task == [stage : {"idle", "missing", "put", "push"}, todo : SUBSET Chunks,
         chunk : Chunks \cup {"none"}, by : Encryption \cup {NoEncryption},
         offset : 0..(Parts - 1)]

\* A sync of device d handles only chunks d has, and uploads one of its encryptions.
TaskOK(d) ==
    /\ task[d] \in Task
    /\ \A c \in task[d].todo : cache[d][c] \in Encryption
    /\ task[d].stage = "put" => task[d].chunk \in Chunks /\ task[d].by \in Encryption

\* The type of every variable, and of what a sync under way refers to.
TypeOK ==
    /\ cache \in [Devices -> [Chunks -> Encryption \cup {NoEncryption}]]
    /\ attached \in [Devices -> 0..MaxAttached]
    /\ unsent \in [Devices -> SUBSET SUBSET Chunks]
    /\ DOMAIN task = Devices /\ \A d \in Devices : TaskOK(d)
    /\ store \in [Chunks -> StoredChunk]
    /\ records \in SUBSET SUBSET Chunks
    /\ stray \in SUBSET Request
    /\ faults \in Nat

\* The parts are the beginning of one encryption, each once and in order; a
\* complete chunk has all of them.
Whole(s) ==
    /\ \A i \in 1..Len(s.parts) : s.parts[i] = [by |-> s.by, offset |-> i - 1]
    /\ s.complete => Len(s.parts) = Parts

\* A chunk at the relay comes from one encryption, without a gap or a repetition:
\* whatever devices upload it together, and whatever arrives late (the
\* comparisons of putChunkPart).
ChunksAreWhole == \A c \in Chunks : Whole(store[c])

\* An artifact whose record other devices can pull can be restored: sync()
\* uploads chunks before it pushes envelopes.
RecordsHaveChunks == \A a \in records : \A c \in a : store[c].complete

\* An attached artifact is pushed some time.
AttachedIsPushed == \A d \in Devices : (unsent[d] # {}) ~> (unsent[d] = {})
=============================================================================

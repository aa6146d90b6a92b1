--------------------------- MODULE DevicesProofs ----------------------------
(***************************************************************************)
(* Proofs about what runs on a device or for one, each part on its own.    *)
(* ChunkUpload, for every set of devices and chunks, every number of parts *)
(* and of faults; CaptureQueue, for any number of operations under way, of *)
(* captures and of requests, and any limit; DeviceEnrollment, for any      *)
(* number of commands at once and of joining devices; DeveloperRuntime,    *)
(* for any number of commands, interrupted anywhere.                       *)
(***************************************************************************)
EXTENDS ChunkUpload, CaptureQueue, DeviceEnrollment, DeveloperRuntime, FiniteSetTheorems, TLAPS

-----------------------------------------------------------------------------
(* ChunkUpload: lemmas about the operators of the model                    *)

LEMMA NoEncryptionIsNone == NoEncryption \notin Encryption
  BY ChunkUploadAssumption DEF NoEncryption, Encryption

(* What putChunkPart stores has the type of a chunk. *)
LEMMA StoredType ==
    ASSUME NEW s \in StoredChunk, NEW part \in Part
    PROVE  Stored(s, part) \in StoredChunk
<1>1. CASE s.complete \/ Refused(s, part)
  BY <1>1 DEF Stored
<1>2. CASE ~(s.complete \/ Refused(s, part))
  <2>1. Append(s.parts, part) \in Seq(Part)
    BY DEF StoredChunk
  <2>2. part.by \in Encryption /\ IsFinal(part.offset) \in BOOLEAN
    BY DEF Part, IsFinal
  <2>3. Stored(s, part) = [by |-> part.by, parts |-> Append(s.parts, part),
                           complete |-> IsFinal(part.offset)]
    BY <1>2 DEF Stored
  <2> QED
    BY <2>1, <2>2, <2>3 DEF StoredChunk
<1> QED
  BY <1>1, <1>2

(* putChunkPart keeps a chunk whole: a part is added only at the offset that *)
(* was received, and only of the encryption the chunk was begun with.        *)
LEMMA StoredWhole ==
    ASSUME NEW s \in StoredChunk, NEW part \in Part, Whole(s)
    PROVE  Whole(Stored(s, part))
<1>1. CASE s.complete \/ Refused(s, part)
  BY <1>1 DEF Stored
<1>2. CASE ~(s.complete \/ Refused(s, part))
  <2> DEFINE n == Len(s.parts)
             t == [by |-> part.by, parts |-> Append(s.parts, part),
                   complete |-> IsFinal(part.offset)]
  <2>1. Stored(s, part) = t
    BY <1>2 DEF Stored
  <2>2. s.by \in {NoEncryption, part.by} /\ n = part.offset
    BY <1>2 DEF Refused
  <2>3. s.parts \in Seq(Part) /\ n \in Nat
    BY DEF StoredChunk
  <2>4. part = [by |-> part.by, offset |-> n]
    BY <2>2 DEF Part
  <2>5. n = 0 \/ s.by = part.by
    <3>1. SUFFICES ASSUME n # 0 PROVE s.by # NoEncryption
      BY <2>2
    <3>2. 1 \in 1..n
      BY <2>3, <3>1
    <3>3. s.parts[1] \in Part
      BY <2>3, <3>2
    <3>4. s.parts[1] = [by |-> s.by, offset |-> 1 - 1]
      BY <3>2 DEF Whole
    <3> QED
      BY <3>3, <3>4, NoEncryptionIsNone DEF Part
  <2>6. Len(Append(s.parts, part)) = n + 1
    BY <2>3
  <2>7. ASSUME NEW i \in 1..(n + 1)
        PROVE  Append(s.parts, part)[i] = [by |-> part.by, offset |-> i - 1]
    <3>1. CASE i = n + 1
      <4>1. Append(s.parts, part)[n + 1] = part
        BY <2>3
      <4> QED
        BY <2>3, <2>4, <3>1, <4>1
    <3>2. CASE i \in 1..n
      <4>1. Append(s.parts, part)[i] = s.parts[i]
        BY <2>3, <3>2
      <4>2. s.parts[i] = [by |-> s.by, offset |-> i - 1]
        BY <3>2 DEF Whole
      <4>3. s.by = part.by
        BY <2>3, <2>5, <3>2
      <4> QED
        BY <4>1, <4>2, <4>3
    <3> QED
      BY <2>3, <3>1, <3>2
  <2>8. IsFinal(part.offset) => n + 1 = Parts
    BY <2>2 DEF IsFinal
  <2> QED
    BY <2>1, <2>6, <2>7, <2>8 DEF Whole
<1> QED
  BY <1>1, <1>2

-----------------------------------------------------------------------------
(* The type invariant                                                      *)

(* A sync that begins with chunks of the device, or goes on with them. *)
LEMMA TurnsType ==
    ASSUME NEW d \in Devices, NEW todo \in SUBSET Chunks,
           \A c \in todo : cache[d][c] \in Encryption,
           NEW turn \in Turns(d, todo)
    PROVE  /\ turn \in Task
           /\ \A c \in turn.todo : cache[d][c] \in Encryption
           /\ turn.stage = "put" => turn.chunk \in Chunks /\ turn.by \in Encryption
<1>1. 0 \in 0..(Parts - 1)
  BY ChunkUploadAssumption
<1>2. CASE todo = {}
  <2>1. turn = [stage |-> "push", todo |-> {}, chunk |-> "none",
                by |-> NoEncryption, offset |-> 0]
    BY <1>2 DEF Turns, Idle
  <2> QED
    BY <1>1, <2>1 DEF Task
<1>3. CASE todo # {}
  <2>1. PICK c \in todo : turn = [stage |-> "put", todo |-> todo \ {c}, chunk |-> c,
                                  by |-> cache[d][c], offset |-> 0]
    BY <1>3 DEF Turns
  <2> QED
    BY <1>1, <2>1 DEF Task
<1> QED
  BY <1>2, <1>3

(* What follows an answered part. *)
LEMMA AnsweredType ==
    ASSUME NEW d \in Devices, TaskOK(d), task[d].stage = "put",
           NEW turn \in Answered(d)
    PROVE  /\ turn \in Task
           /\ \A c \in turn.todo : cache[d][c] \in Encryption
           /\ turn.stage = "put" => turn.chunk \in Chunks /\ turn.by \in Encryption
<1>1. CASE Refused(store[task[d].chunk], PartOf(d))
  <2>1. turn = Idle
    BY <1>1 DEF Answered
  <2> QED
    BY <2>1, ChunkUploadAssumption DEF Idle, Task
<1>2. CASE ~Refused(store[task[d].chunk], PartOf(d)) /\ IsFinal(task[d].offset)
  <2>1. turn \in Turns(d, task[d].todo)
    BY <1>2 DEF Answered
  <2>2. task[d].todo \in SUBSET Chunks
    BY DEF TaskOK, Task
  <2> QED
    BY <2>1, <2>2, TurnsType DEF TaskOK
<1>3. CASE ~Refused(store[task[d].chunk], PartOf(d)) /\ ~IsFinal(task[d].offset)
  <2>1. turn = [task[d] EXCEPT !.offset = task[d].offset + 1]
    BY <1>3 DEF Answered
  <2>2. task[d].offset + 1 \in 0..(Parts - 1)
    BY <1>3, ChunkUploadAssumption DEF IsFinal, TaskOK, Task
  <2> QED
    BY <2>1, <2>2 DEF TaskOK, Task
<1> QED
  BY <1>1, <1>2, <1>3

(* The part a sync sends. *)
LEMMA PartOfType ==
    ASSUME NEW d \in Devices, TaskOK(d), task[d].stage = "put"
    PROVE  PartOf(d) \in Part
  BY DEF PartOf, Part, TaskOK, Task

(* A step that only gives device d another task. *)
LEMMA TaskStep ==
    ASSUME TypeOK, NEW d \in Devices, NEW t, task' = [task EXCEPT ![d] = t],
           UNCHANGED cache, t \in Task,
           \A c \in t.todo : cache[d][c] \in Encryption,
           t.stage = "put" => t.chunk \in Chunks /\ t.by \in Encryption
    PROVE  DOMAIN task' = Devices /\ \A e \in Devices : TaskOK(e)'
<1>1. DOMAIN task' = Devices /\ task'[d] = t
  BY DEF TypeOK
<1>2. ASSUME NEW e \in Devices, e # d PROVE task'[e] = task[e]
  BY <1>2 DEF TypeOK
<1>3. TaskOK(d)'
  BY <1>1 DEF TaskOK
<1>4. ASSUME NEW e \in Devices, e # d PROVE TaskOK(e)'
  BY <1>2, <1>4 DEF TaskOK, TypeOK
<1> QED
  BY <1>1, <1>3, <1>4

-----------------------------------------------------------------------------
(* The inductive invariant                                                 *)

IInv == TypeOK /\ ChunksAreWhole

LEMMA InitIInv == Init => IInv
<1> SUFFICES ASSUME Init PROVE IInv
  OBVIOUS
<1> USE DEF Init
<1>1. cache \in [Devices -> [Chunks -> Encryption \cup {NoEncryption}]]
  OBVIOUS
<1>2. \A d \in Devices : TaskOK(d)
  <2>1. Idle \in Task /\ Idle.todo = {} /\ Idle.stage = "idle"
    BY ChunkUploadAssumption DEF Idle, Task
  <2>2. TAKE d \in Devices
  <2>3. task[d] = Idle
    OBVIOUS
  <2> QED
    BY <2>1, <2>3 DEF TaskOK
<1>3. Empty \in StoredChunk
  BY DEF Empty, StoredChunk
<1>4. Whole(Empty)
  BY DEF Empty, Whole
<1>5. 0 \in 0..MaxAttached
  BY ChunkUploadAssumption
<1> QED
  BY <1>1, <1>2, <1>3, <1>4, <1>5 DEF IInv, TypeOK, ChunksAreWhole

(* A step of the relay: one part of a chunk is stored, or refused. *)
LEMMA RelayStep ==
    ASSUME IInv, NEW c \in Chunks, NEW part \in Part,
           store' = [store EXCEPT ![c] = Stored(store[c], part)]
    PROVE  store' \in [Chunks -> StoredChunk] /\ ChunksAreWhole'
<1>1. store[c] \in StoredChunk /\ Whole(store[c])
  BY DEF IInv, TypeOK, ChunksAreWhole
<1>2. Stored(store[c], part) \in StoredChunk /\ Whole(Stored(store[c], part))
  BY <1>1, StoredType, StoredWhole
<1>3. \A e \in Chunks : store'[e] = IF e = c THEN Stored(store[c], part) ELSE store[e]
  BY DEF IInv, TypeOK
<1>4. \A e \in Chunks : Whole(store'[e])
  BY <1>2, <1>3 DEF IInv, ChunksAreWhole
<1> QED
  BY <1>2, <1>4 DEF IInv, TypeOK, ChunksAreWhole

LEMMA AttachStep ==
    ASSUME IInv, NEW d \in Devices, NEW artifact \in SUBSET Chunks, Attach(d, artifact)
    PROVE  IInv'
<1> DEFINE by == [device |-> d, nth |-> attached[d] + 1]
<1> USE DEF IInv
<1>1. attached[d] + 1 \in 1..MaxAttached
  BY ChunkUploadAssumption DEF Attach, TypeOK
<1>2. by \in Encryption
  BY <1>1 DEF Encryption
<1>3. attached' \in [Devices -> 0..MaxAttached]
  BY <1>1 DEF Attach, TypeOK
<1> HIDE DEF by
<1>4. cache' = [cache EXCEPT ![d] = [c \in Chunks |-> IF c \in artifact THEN by ELSE cache[d][c]]]
  BY DEF Attach, by
<1>5. cache[d] \in [Chunks -> Encryption \cup {NoEncryption}]
  BY DEF TypeOK
<1>6. cache' \in [Devices -> [Chunks -> Encryption \cup {NoEncryption}]]
  BY <1>2, <1>4, <1>5 DEF TypeOK
<1>7. \A e \in Devices, c \in Chunks : cache[e][c] \in Encryption => cache'[e][c] \in Encryption
  BY <1>2, <1>4, <1>5 DEF TypeOK
<1>8. \A e \in Devices : TaskOK(e)'
  <2>1. TAKE e \in Devices
  <2>2. TaskOK(e) /\ task' = task
    BY DEF TypeOK, Attach
  <2>3. \A c \in task[e].todo : c \in Chunks
    BY <2>2 DEF TaskOK, Task
  <2>4. \A c \in task[e].todo : cache'[e][c] \in Encryption
    BY <1>7, <2>2, <2>3 DEF TaskOK
  <2> QED
    BY <2>2, <2>4 DEF TaskOK
<1>9. unsent' \in [Devices -> SUBSET SUBSET Chunks]
  BY DEF Attach, TypeOK
<1>10. UNCHANGED <<task, store, records, stray, faults>>
  BY DEF Attach
<1> QED
  BY <1>3, <1>6, <1>8, <1>9, <1>10 DEF TypeOK, ChunksAreWhole

LEMMA SyncStep ==
    ASSUME IInv, NEW d \in Devices, Sync(d)
    PROVE  IInv'
<1> DEFINE ids == {c \in Chunks : cache[d][c] # NoEncryption}
           t == [Idle EXCEPT !.stage = "missing", !.todo = ids]
<1> USE DEF IInv
<1>1. task' = [task EXCEPT ![d] = t]
  BY DEF Sync
<1>2. ids \in SUBSET Chunks
  OBVIOUS
<1>3. \A c \in ids : cache[d][c] \in Encryption
  BY DEF TypeOK
<1> HIDE DEF ids
<1>4. t \in Task /\ t.todo = ids /\ t.stage = "missing"
  <2>1. Idle \in Task
    BY ChunkUploadAssumption DEF Idle, Task
  <2> QED
    BY <1>2, <2>1 DEF Task
<1>5. UNCHANGED <<cache, attached, unsent, store, records, stray, faults>>
  BY DEF Sync
<1> HIDE DEF t
<1>6. \A c \in t.todo : cache[d][c] \in Encryption
  BY <1>3, <1>4
<1>7. DOMAIN task' = Devices /\ \A e \in Devices : TaskOK(e)'
  BY <1>1, <1>4, <1>5, <1>6, TaskStep
<1> QED
  BY <1>5, <1>7 DEF TypeOK, ChunksAreWhole

LEMMA MissingAnsweredStep ==
    ASSUME IInv, NEW d \in Devices, MissingAnswered(d)
    PROVE  IInv'
<1> USE DEF IInv
<1>1. PICK turn \in Turns(d, Missing(task[d].todo)) : task' = [task EXCEPT ![d] = turn]
  BY DEF MissingAnswered
<1>2. TaskOK(d)
  BY DEF TypeOK
<1>3. /\ Missing(task[d].todo) \in SUBSET Chunks
      /\ \A c \in Missing(task[d].todo) : cache[d][c] \in Encryption
  BY <1>2 DEF Missing, TaskOK, Task
<1>4. UNCHANGED <<cache, attached, unsent, store, records, stray, faults>>
  BY DEF MissingAnswered
<1>5. /\ turn \in Task
      /\ \A c \in turn.todo : cache[d][c] \in Encryption
      /\ turn.stage = "put" => turn.chunk \in Chunks /\ turn.by \in Encryption
  BY <1>3, TurnsType
<1>6. DOMAIN task' = Devices /\ \A e \in Devices : TaskOK(e)'
  BY <1>1, <1>4, <1>5, TaskStep
<1> QED
  BY <1>4, <1>6 DEF TypeOK, ChunksAreWhole

LEMMA PutStep ==
    ASSUME IInv, NEW d \in Devices, Put(d)
    PROVE  IInv'
<1> USE DEF IInv
<1>1. TaskOK(d) /\ task[d].stage = "put"
  BY DEF TypeOK, Put
<1>2. PICK turn \in Answered(d) : task' = [task EXCEPT ![d] = turn]
  BY DEF Put
<1>3. /\ turn \in Task
      /\ \A c \in turn.todo : cache[d][c] \in Encryption
      /\ turn.stage = "put" => turn.chunk \in Chunks /\ turn.by \in Encryption
  BY <1>1, AnsweredType
<1>4. UNCHANGED <<cache, attached, unsent, records, stray, faults>>
  BY DEF Put
<1>5. DOMAIN task' = Devices /\ \A e \in Devices : TaskOK(e)'
  BY <1>2, <1>3, <1>4, TaskStep
<1>6. task[d].chunk \in Chunks /\ PartOf(d) \in Part
  BY <1>1, PartOfType DEF TaskOK
<1>7. store' \in [Chunks -> StoredChunk] /\ ChunksAreWhole'
  BY <1>6, RelayStep DEF Put
<1> QED
  BY <1>4, <1>5, <1>7 DEF TypeOK

LEMMA PutUnansweredStep ==
    ASSUME IInv, NEW d \in Devices, PutUnanswered(d)
    PROVE  IInv'
<1> USE DEF IInv
<1>1. TaskOK(d) /\ task[d].stage = "put"
  BY DEF TypeOK, PutUnanswered
<1>2. [chunk |-> task[d].chunk, part |-> PartOf(d)] \in Request
  BY <1>1, PartOfType DEF TaskOK, Request
<1>3. stray' \in SUBSET Request /\ faults' \in Nat
  BY <1>2 DEF PutUnanswered, TypeOK
<1>4. UNCHANGED <<cache, attached, unsent, store, records>>
  BY DEF PutUnanswered
<1>5. Idle \in Task /\ Idle.todo = {} /\ Idle.stage = "idle"
  BY ChunkUploadAssumption DEF Idle, Task
<1>6. DOMAIN task' = Devices /\ \A e \in Devices : TaskOK(e)'
  BY <1>4, <1>5, TaskStep DEF PutUnanswered
<1> QED
  BY <1>3, <1>4, <1>6 DEF TypeOK, ChunksAreWhole

LEMMA StrayStep ==
    ASSUME IInv, NEW r \in stray, StrayArrives(r) \/ StrayLost(r)
    PROVE  IInv'
<1> USE DEF IInv
<1>1. r \in Request /\ stray' \in SUBSET Request
  BY DEF TypeOK, StrayArrives, StrayLost
<1>2. UNCHANGED <<cache, attached, unsent, task, records, faults>>
  BY DEF StrayArrives, StrayLost
<1>3. DOMAIN task' = Devices /\ \A e \in Devices : TaskOK(e)'
  BY <1>2 DEF TypeOK, TaskOK
<1>4. store' \in [Chunks -> StoredChunk] /\ ChunksAreWhole'
  <2>1. CASE StrayArrives(r)
    BY <1>1, <2>1, RelayStep DEF StrayArrives, Request
  <2>2. CASE StrayLost(r)
    BY <2>2 DEF StrayLost, TypeOK, ChunksAreWhole
  <2> QED
    BY <2>1, <2>2
<1> QED
  BY <1>1, <1>2, <1>3, <1>4 DEF TypeOK

LEMMA PushStep ==
    ASSUME IInv, NEW d \in Devices, Push(d)
    PROVE  IInv'
<1> USE DEF IInv
<1>1. UNCHANGED <<cache, attached, store, stray, faults>>
  BY DEF Push
<1>2. Idle \in Task /\ Idle.todo = {} /\ Idle.stage = "idle"
  BY ChunkUploadAssumption DEF Idle, Task
<1>3. DOMAIN task' = Devices /\ \A e \in Devices : TaskOK(e)'
  BY <1>1, <1>2, TaskStep DEF Push
<1>4. unsent' \in [Devices -> SUBSET SUBSET Chunks] /\ records' \in SUBSET SUBSET Chunks
  BY DEF Push, TypeOK
<1> QED
  BY <1>1, <1>3, <1>4 DEF TypeOK, ChunksAreWhole

LEMMA NextIInv == IInv /\ [Next]_vars => IInv'
<1> SUFFICES ASSUME IInv, [Next]_vars PROVE IInv'
  OBVIOUS
<1>1. ASSUME NEW d \in Devices, NEW artifact \in (SUBSET Chunks) \ {{}}, Attach(d, artifact)
      PROVE  IInv'
  BY <1>1, AttachStep
<1>2. ASSUME NEW d \in Devices, Sync(d) PROVE IInv'
  BY <1>2, SyncStep
<1>3. ASSUME NEW d \in Devices, MissingAnswered(d) PROVE IInv'
  BY <1>3, MissingAnsweredStep
<1>4. ASSUME NEW d \in Devices, Put(d) PROVE IInv'
  BY <1>4, PutStep
<1>5. ASSUME NEW d \in Devices, PutUnanswered(d) PROVE IInv'
  BY <1>5, PutUnansweredStep
<1>6. ASSUME NEW d \in Devices, Push(d) PROVE IInv'
  BY <1>6, PushStep
<1>7. ASSUME NEW r \in stray, StrayArrives(r) \/ StrayLost(r) PROVE IInv'
  BY <1>7, StrayStep
<1>8. CASE UNCHANGED vars
  BY <1>8 DEF vars, IInv, TypeOK, TaskOK, ChunksAreWhole
<1> QED
  BY <1>1, <1>2, <1>3, <1>4, <1>5, <1>6, <1>7, <1>8 DEF Next

(* Whatever devices upload the same chunk together, whatever calls fail and  *)
(* whatever parts arrive after their caller gave up, what the relay has of a *)
(* chunk is the beginning of one encryption of it.                           *)
THEOREM ChunksStayWhole == Spec => [](TypeOK /\ ChunksAreWhole)
<1>1. Init => IInv
  BY InitIInv
<1>2. IInv /\ [Next]_vars => IInv'
  BY NextIInv
<1>3. IInv => TypeOK /\ ChunksAreWhole
  BY DEF IInv
<1> QED
  BY <1>1, <1>2, <1>3, PTL DEF Spec

-----------------------------------------------------------------------------
(* Records only of complete chunks, if nothing is attached during a sync   *)

\* Where a chunk of an unsent artifact of d is, as far as the sync of d has come.
Accounted(d, c) ==
    /\ cache[d][c] # NoEncryption
    /\ task[d].stage = "missing" => c \in task[d].todo
    /\ task[d].stage = "put" => c \in task[d].todo \/ c = task[d].chunk \/ store[c].complete
    /\ task[d].stage = "push" => store[c].complete

UnsentOK == \A d \in Devices : \A a \in unsent[d] : \A c \in a : Accounted(d, c)

UploadInv == IInv /\ UnsentOK /\ RecordsHaveChunks

(* A chunk that is complete stays complete. *)
LEMMA CompleteStays == \A s, part : s.complete => Stored(s, part).complete
BY DEF Stored

(* The final part completes a chunk, unless it is refused. *)
LEMMA FinalCompletes ==
    ASSUME NEW s, NEW part, ~Refused(s, part), IsFinal(part.offset)
    PROVE  Stored(s, part).complete
BY DEF Stored

LEMMA ArtifactsAreChunks ==
    IInv => \A d \in Devices : \A a \in unsent[d] : a \subseteq Chunks
BY DEF IInv, TypeOK

(* Parts arrive, and a sync of d moves on or another does. *)
LEMMA UploadMoves ==
    ASSUME UploadInv, NEW d \in Devices, NEW t,
           task' = [task EXCEPT ![d] = t], UNCHANGED <<cache, unsent, records>>,
           \A c \in Chunks : store[c].complete => store'[c].complete,
           \A c \in Chunks : Accounted(d, c) =>
              /\ t.stage = "missing" => c \in t.todo
              /\ t.stage = "put" => c \in t.todo \/ c = t.chunk \/ store'[c].complete
              /\ t.stage = "push" => store'[c].complete
    PROVE  UnsentOK' /\ RecordsHaveChunks'
<1>1. RecordsHaveChunks'
  BY DEF UploadInv, RecordsHaveChunks, IInv, TypeOK
<1>2. task'[d] = t /\ \A e \in Devices : e # d => task'[e] = task[e]
  BY DEF UploadInv, IInv, TypeOK
<1>3. ASSUME NEW e \in Devices, NEW a \in unsent[e], NEW c \in a PROVE Accounted(e, c)'
  <2>1. c \in Chunks /\ Accounted(e, c)
    BY ArtifactsAreChunks DEF UploadInv, UnsentOK
  <2>2. CASE e = d
    BY <1>2, <2>1, <2>2 DEF Accounted
  <2>3. CASE e # d
    BY <1>2, <2>1, <2>3 DEF Accounted
  <2> QED
    BY <2>2, <2>3
<1>4. UnsentOK'
  BY <1>3 DEF UnsentOK
<1> QED
  BY <1>1, <1>4

(* What sync() turns to next leaves no chunk out. *)
LEMMA TurnsKeep ==
    ASSUME NEW d \in Devices, NEW todo, NEW turn \in Turns(d, todo)
    PROVE  /\ turn.stage # "missing"
           /\ turn.stage = "put" => \A c \in todo : c \in turn.todo \/ c = turn.chunk
           /\ turn.stage = "push" => todo = {}
<1>1. CASE todo = {}
  <2>1. turn = [Idle EXCEPT !.stage = "push"]
    BY <1>1 DEF Turns
  <2> QED
    BY <1>1, <2>1 DEF Idle
<1>2. CASE todo # {}
  <2>1. PICK c \in todo : turn = [stage |-> "put", todo |-> todo \ {c}, chunk |-> c,
                                  by |-> cache[d][c], offset |-> 0]
    BY <1>2 DEF Turns
  <2> QED
    BY <2>1
<1> QED
  BY <1>1, <1>2

LEMMA AttachUpload ==
    ASSUME UploadInv, ~MidSync, NEW d \in Devices, NEW artifact \in SUBSET Chunks,
           Attach(d, artifact)
    PROVE  UnsentOK' /\ RecordsHaveChunks'
<1> DEFINE by == [device |-> d, nth |-> attached[d] + 1]
<1>1. /\ task[d].stage = "idle" /\ UNCHANGED <<task, store, records>>
      /\ cache' = [cache EXCEPT ![d] = [c \in Chunks |-> IF c \in artifact THEN by ELSE cache[d][c]]]
      /\ unsent' = [unsent EXCEPT ![d] = @ \cup {artifact}]
  BY DEF Attach
<1>2. by # NoEncryption
  <2>1. attached[d] + 1 \in 1..MaxAttached
    BY ChunkUploadAssumption DEF Attach, UploadInv, IInv, TypeOK
  <2>2. by \in Encryption
    BY <2>1 DEF Encryption
  <2> QED
    BY <2>2, NoEncryptionIsNone
<1> HIDE DEF by
<1>3. /\ \A c \in artifact : cache'[d][c] # NoEncryption
      /\ \A e \in Devices, c \in Chunks : cache[e][c] # NoEncryption => cache'[e][c] # NoEncryption
  BY <1>1, <1>2 DEF UploadInv, IInv, TypeOK
<1>4. /\ unsent'[d] = unsent[d] \cup {artifact}
      /\ \A e \in Devices : e # d => unsent'[e] = unsent[e]
  BY <1>1 DEF UploadInv, IInv, TypeOK
<1>5. ASSUME NEW e \in Devices, NEW a \in unsent'[e], NEW c \in a PROVE Accounted(e, c)'
  <2>1. CASE a \in unsent[e]
    <3>1. c \in Chunks /\ Accounted(e, c)
      BY <2>1, ArtifactsAreChunks DEF UploadInv, UnsentOK
    <3> QED
      BY <1>1, <1>3, <3>1 DEF Accounted
  <2>2. CASE a \notin unsent[e]
    <3>1. e = d /\ a = artifact
      BY <1>4, <2>2
    <3> QED
      BY <1>1, <1>3, <3>1 DEF Accounted
  <2> QED
    BY <2>1, <2>2
<1>6. UnsentOK'
  BY <1>5 DEF UnsentOK
<1> QED
  BY <1>1, <1>6 DEF UploadInv, RecordsHaveChunks

LEMMA PutUpload ==
    ASSUME UploadInv, NEW d \in Devices, Put(d)
    PROVE  UnsentOK' /\ RecordsHaveChunks'
<1> DEFINE k == task[d].chunk
<1>1. PICK turn \in Answered(d) : task' = [task EXCEPT ![d] = turn]
  BY DEF Put
<1>2. /\ task[d].stage = "put" /\ UNCHANGED <<cache, unsent, records>>
      /\ store' = [store EXCEPT ![k] = Stored(store[k], PartOf(d))]
  BY DEF Put
<1>3. k \in Chunks /\ store \in [Chunks -> StoredChunk] /\ task[d] \in Task
  BY <1>2 DEF UploadInv, IInv, TypeOK, TaskOK
<1>4. \A c \in Chunks : store[c].complete => store'[c].complete
  <2> HIDE DEF k
  <2> QED
    BY <1>2, <1>3, CompleteStays
<1>5. ASSUME NEW c \in Chunks, Accounted(d, c)
      PROVE  /\ turn.stage = "missing" => c \in turn.todo
             /\ turn.stage = "put" => c \in turn.todo \/ c = turn.chunk \/ store'[c].complete
             /\ turn.stage = "push" => store'[c].complete
  <2>1. c \in task[d].todo \/ c = k \/ store[c].complete
    BY <1>2, <1>5 DEF Accounted
  <2>2. CASE Refused(store[k], PartOf(d))
    <3>1. turn = Idle
      BY <2>2 DEF Answered
    <3> QED
      BY <3>1 DEF Idle
  <2>3. CASE ~Refused(store[k], PartOf(d)) /\ IsFinal(task[d].offset)
    <3>1. turn \in Turns(d, task[d].todo)
      BY <2>3 DEF Answered
    <3>2. store'[k].complete
      <4>1. PartOf(d).offset = task[d].offset
        BY DEF PartOf
      <4>2. Stored(store[k], PartOf(d)).complete
        BY <2>3, <4>1, FinalCompletes
      <4> HIDE DEF k
      <4> QED
        BY <1>2, <1>3, <4>2
    <3>3. /\ turn.stage # "missing"
          /\ turn.stage = "put" => \A e \in task[d].todo : e \in turn.todo \/ e = turn.chunk
          /\ turn.stage = "push" => task[d].todo = {}
      BY <3>1, TurnsKeep
    <3> QED
      BY <1>4, <2>1, <3>2, <3>3
  <2>4. CASE ~Refused(store[k], PartOf(d)) /\ ~IsFinal(task[d].offset)
    <3>1. turn = [task[d] EXCEPT !.offset = task[d].offset + 1]
      BY <2>4 DEF Answered
    <3>2. turn.stage = "put" /\ turn.todo = task[d].todo /\ turn.chunk = k
      BY <1>2, <1>3, <3>1 DEF Task
    <3> QED
      BY <1>4, <2>1, <3>2
  <2> QED
    BY <2>2, <2>3, <2>4
<1> QED
  BY <1>1, <1>2, <1>4, <1>5, UploadMoves

LEMMA PushUpload ==
    ASSUME UploadInv, NEW d \in Devices, Push(d)
    PROVE  UnsentOK' /\ RecordsHaveChunks'
<1>1. /\ task[d].stage = "push" /\ UNCHANGED <<cache, store>>
      /\ records' = records \cup unsent[d]
      /\ unsent' = [unsent EXCEPT ![d] = {}]
      /\ task' = [task EXCEPT ![d] = Idle]
  BY DEF Push
<1>2. RecordsHaveChunks'
  BY <1>1 DEF UploadInv, UnsentOK, Accounted, RecordsHaveChunks
<1>3. /\ unsent'[d] = {} /\ \A e \in Devices : e # d => unsent'[e] = unsent[e] /\ task'[e] = task[e]
  BY <1>1 DEF UploadInv, IInv, TypeOK
<1>4. UnsentOK'
  BY <1>1, <1>3 DEF UploadInv, UnsentOK, Accounted
<1> QED
  BY <1>2, <1>4

LEMMA UploadStep ==
    ASSUME ~MidSync PROVE UploadInv /\ [Next]_vars => UploadInv'
<1> SUFFICES ASSUME UploadInv, [Next]_vars PROVE UnsentOK' /\ RecordsHaveChunks'
  BY NextIInv DEF UploadInv
<1>1. ASSUME NEW d \in Devices, NEW artifact \in (SUBSET Chunks) \ {{}}, Attach(d, artifact)
      PROVE  UnsentOK' /\ RecordsHaveChunks'
  BY <1>1, AttachUpload
<1>2. ASSUME NEW d \in Devices, Sync(d) PROVE UnsentOK' /\ RecordsHaveChunks'
  <2> DEFINE t == [Idle EXCEPT !.stage = "missing",
                               !.todo = {c \in Chunks : cache[d][c] # NoEncryption}]
  <2>1. task' = [task EXCEPT ![d] = t] /\ UNCHANGED <<cache, unsent, records, store>>
    BY <1>2 DEF Sync
  <2>2. t.stage = "missing" /\ \A c \in Chunks : cache[d][c] # NoEncryption => c \in t.todo
    BY DEF Idle
  <2> HIDE DEF t
  <2> QED
    BY <2>1, <2>2, UploadMoves DEF Accounted
<1>3. ASSUME NEW d \in Devices, MissingAnswered(d) PROVE UnsentOK' /\ RecordsHaveChunks'
  <2>1. PICK turn \in Turns(d, Missing(task[d].todo)) : task' = [task EXCEPT ![d] = turn]
    BY <1>3 DEF MissingAnswered
  <2>2. task[d].stage = "missing" /\ UNCHANGED <<cache, unsent, records, store>>
    BY <1>3 DEF MissingAnswered
  <2>3. \A c \in task[d].todo : c \in Missing(task[d].todo) \/ store[c].complete
    BY DEF Missing
  <2>4. /\ turn.stage # "missing"
        /\ turn.stage = "put" =>
              \A c \in Missing(task[d].todo) : c \in turn.todo \/ c = turn.chunk
        /\ turn.stage = "push" => Missing(task[d].todo) = {}
    BY TurnsKeep
  <2> QED
    BY <2>1, <2>2, <2>3, <2>4, UploadMoves DEF Accounted
<1>4. ASSUME NEW d \in Devices, Put(d) PROVE UnsentOK' /\ RecordsHaveChunks'
  BY <1>4, PutUpload
<1>5. ASSUME NEW d \in Devices, PutUnanswered(d) PROVE UnsentOK' /\ RecordsHaveChunks'
  <2>1. task' = [task EXCEPT ![d] = Idle] /\ UNCHANGED <<cache, unsent, records, store>>
    BY <1>5 DEF PutUnanswered
  <2>2. Idle.stage = "idle"
    BY DEF Idle
  <2> QED
    BY <2>1, <2>2, UploadMoves
<1>6. ASSUME NEW d \in Devices, Push(d) PROVE UnsentOK' /\ RecordsHaveChunks'
  BY <1>6, PushUpload
<1>7. ASSUME NEW r \in stray, StrayArrives(r) \/ StrayLost(r)
      PROVE  UnsentOK' /\ RecordsHaveChunks'
  <2>1. UNCHANGED <<cache, unsent, task, records>>
    BY <1>7 DEF StrayArrives, StrayLost
  <2>2. \A c \in Chunks : store[c].complete => store'[c].complete
    BY <1>7, CompleteStays DEF StrayArrives, StrayLost, UploadInv, IInv, TypeOK
  <2>3. ASSUME NEW d \in Devices, NEW a \in unsent[d], NEW c \in a PROVE Accounted(d, c)'
    <3>1. c \in Chunks /\ Accounted(d, c)
      BY ArtifactsAreChunks DEF UploadInv, UnsentOK
    <3> QED
      BY <2>1, <2>2, <3>1 DEF Accounted
  <2>4. RecordsHaveChunks'
    BY <2>1, <2>2 DEF UploadInv, IInv, TypeOK, RecordsHaveChunks
  <2> QED
    BY <2>1, <2>3, <2>4 DEF UnsentOK
<1>8. CASE UNCHANGED vars
  BY <1>8 DEF vars, UploadInv, UnsentOK, Accounted, RecordsHaveChunks
<1> QED
  BY <1>1, <1>2, <1>3, <1>4, <1>5, <1>6, <1>7, <1>8 DEF Next

(* An artifact whose record other devices can pull can be restored: sync()   *)
(* uploads every chunk it has before it pushes the envelopes, whichever      *)
(* parts fail, arrive late or belong to another device's encryption.  The    *)
(* hypothesis is that nothing is attached while a sync of the same device    *)
(* is waiting; otherwise its envelope goes out ahead of its chunks.          *)
THEOREM RecordsAreRestorable ==
    ASSUME ~MidSync PROVE Spec => []RecordsHaveChunks
<1>1. Init => UploadInv
  BY InitIInv DEF Init, UploadInv, UnsentOK, RecordsHaveChunks
<1>2. UploadInv /\ [Next]_vars => UploadInv'
  BY UploadStep
<1>3. UploadInv => RecordsHaveChunks
  BY DEF UploadInv
<1> QED
  BY <1>1, <1>2, <1>3, PTL DEF Spec

-----------------------------------------------------------------------------
(* CaptureQueue: the inductive invariant, as named parts.                  *)

Operation ==
    [at : {"idle", "enqueue", "retry", "drain", "waiting"},
     loaded : SUBSET Captures, kept : SUBSET Captures, item : Nat, sent : Nat]
QueueRequest == [capture : Captures, at : {"sent", "writing", "stored", "refused", "conflict"}]
History == [accepted : SUBSET Captures, pushedOut : SUBSET Captures, overlapped : BOOLEAN]

QueueTyped ==
    /\ queue \subseteq Captures /\ doing \in [QueueOperations -> Operation]
    /\ requests \in Seq(QueueRequest) /\ arrived \in Seq(Captures) /\ past \in History

\* What an operation adds is a capture, what it waits for its own request.
OperationOK(o) ==
    /\ o.at = "enqueue" => o.item \in Captures
    /\ o.at = "waiting" =>
         /\ o.sent \in 1 .. Len(requests) /\ o.item \in Captures
         /\ requests[o.sent].capture = o.item

\* A request that writes has its text to itself, in the rows and among requests.
RequestOK(q) ==
    /\ q.at # "conflict"
    /\ q.at = "writing" => ~Known(q.capture)
    /\ q.at = "stored" => Known(q.capture)

Exclusive(q, p) ==
    q.at = "writing" /\ p.at = "writing" => TextOf[q.capture] # TextOf[p.capture]

NodeOK ==
    /\ \A m, n \in 1 .. Len(arrived) : TextOf[arrived[m]] = TextOf[arrived[n]] => m = n
    /\ \A n \in 1 .. Len(requests) : RequestOK(requests[n])
    /\ \A m, n \in 1 .. Len(requests) : m # n => Exclusive(requests[m], requests[n])

\* What an operation would save misses nothing that is not stored.
Covers(o) ==
    /\ o.at \in {"enqueue", "retry"} => o.loaded = queue
    /\ o.at \in {"drain", "waiting"} => \A c \in queue : c \in o.loaded \/ c \in o.kept \/ Known(c)

\* As long as no two have overlapped, at most one is under way, and it covers all.
AloneOK ==
    ~past.overlapped =>
        /\ \A a, b \in QueueOperations : a # b => doing[a].at = "idle" \/ doing[b].at = "idle"
        /\ \A a \in QueueOperations : Covers(doing[a])
        /\ NothingIsLost

QueueInv == QueueTyped /\ (\A a \in QueueOperations : OperationOK(doing[a])) /\ NodeOK /\ AloneOK

-----------------------------------------------------------------------------
LEMMA QueueInvIsEnough == QueueInv => CapturesArrive
<1> SUFFICES ASSUME QueueInv PROVE CapturesArrive
  OBVIOUS
<1>1. DOMAIN arrived = 1 .. Len(arrived) /\ DOMAIN requests = 1 .. Len(requests)
  BY DEF QueueInv, QueueTyped
<1>2. StoredOnce
  BY <1>1 DEF StoredOnce, QueueInv, NodeOK, RequestOK
<1>3. QueuedUntilStored
  BY DEF QueuedUntilStored, QueueInv, AloneOK
<1> QED
  BY <1>2, <1>3 DEF CapturesArrive

LEMMA NoOperationIsOK ==
    /\ NoOperation \in Operation /\ NoOperation.at = "idle"
    /\ NoOperation.loaded = {} /\ NoOperation.kept = {} /\ NoOperation.item = 0 /\ NoOperation.sent = 0
  BY DEF NoOperation, Operation

LEMMA QueueInitial == QueueInit => QueueInv
<1> SUFFICES ASSUME QueueInit PROVE QueueInv
  OBVIOUS
<1>1. \A a \in QueueOperations : doing[a] = NoOperation
  BY DEF QueueInit
<1>2. /\ past \in History /\ past.accepted = {} /\ past.pushedOut = {}
      /\ past.overlapped = FALSE
  BY DEF QueueInit, History
<1>3. QueueTyped
  BY <1>1, <1>2, NoOperationIsOK DEF QueueInit, QueueTyped
<1>4. \A a \in QueueOperations : OperationOK(doing[a])
  BY <1>1, NoOperationIsOK DEF OperationOK
<1>5. NodeOK
  BY DEF QueueInit, NodeOK
<1>6. AloneOK
  BY <1>1, <1>2, NoOperationIsOK DEF AloneOK, Covers, NothingIsLost
<1> QED
  BY <1>3, <1>4, <1>5, <1>6 DEF QueueInv

-----------------------------------------------------------------------------
(* Steps on the device.                                                    *)

\* The node as it was, but for requests just sent.
Sends ==
    /\ arrived' = arrived /\ requests' \in Seq(QueueRequest) /\ Len(requests) <= Len(requests')
    /\ \A n \in 1 .. Len(requests) : requests'[n] = requests[n]
    /\ \A n \in 1 .. Len(requests') : n \notin 1 .. Len(requests) => requests'[n].at = "sent"

LEMMA NothingSent == ASSUME QueueInv, UNCHANGED <<arrived, requests>> PROVE Sends
  BY DEF Sends, QueueInv, QueueTyped

LEMMA NodeWaits == ASSUME QueueInv, Sends PROVE NodeOK'
<1>1. Len(requests) \in Nat /\ Len(requests') \in Nat /\ arrived' = arrived
  BY DEF QueueInv, QueueTyped, Sends
<1>2. \A c : Known(c)' <=> Known(c)
  BY <1>1 DEF Known
<1>3. ASSUME NEW n \in 1 .. Len(requests') PROVE RequestOK(requests[n])'
  <2>1. CASE n \in 1 .. Len(requests)
    <3>1. requests'[n] = requests[n] /\ RequestOK(requests[n])
      BY <2>1 DEF Sends, QueueInv, NodeOK
    <3> QED
      BY <1>1, <3>1 DEF RequestOK, Known
  <2>2. CASE n \notin 1 .. Len(requests)
    BY <2>2 DEF Sends, RequestOK
  <2> QED
    BY <2>1, <2>2
<1>4. ASSUME NEW m \in 1 .. Len(requests'), NEW n \in 1 .. Len(requests'), m # n
      PROVE  Exclusive(requests'[m], requests'[n])
  <2>1. CASE m \in 1 .. Len(requests) /\ n \in 1 .. Len(requests)
    BY <1>4, <2>1 DEF Sends, QueueInv, NodeOK
  <2>2. CASE ~(m \in 1 .. Len(requests) /\ n \in 1 .. Len(requests))
    BY <2>2 DEF Sends, Exclusive
  <2> QED
    BY <2>1, <2>2
<1> QED
  BY <1>1, <1>3, <1>4 DEF QueueInv, NodeOK, Exclusive

\* The other operations do not notice requests being sent.
LEMMA OthersWait ==
    ASSUME QueueInv, Sends, NEW b \in QueueOperations, doing'[b] = doing[b]
    PROVE  OperationOK(doing[b])'
<1>1. Len(requests) \in Nat /\ Len(requests') \in Nat
  BY DEF QueueInv, QueueTyped, Sends
<1>2. OperationOK(doing[b])
  BY DEF QueueInv
<1> QED
  BY <1>1, <1>2 DEF OperationOK, Sends

LEMMA LoadStep ==
    ASSUME QueueInv, NEW a \in QueueOperations, NEW at \in {"enqueue", "retry", "drain"}, NEW c \in Nat,
           at = "enqueue" => c \in Captures, LoadQueue(a, at, c)
    PROVE  QueueInv'
<1>1. PICK o \in Operation :
        doing' = [doing EXCEPT ![a] = o] /\ o.at = at /\ o.loaded = queue /\ o.item = c
  <2> DEFINE o == [NoOperation EXCEPT !.at = at, !.loaded = queue, !.item = c]
  <2>1. o \in Operation /\ o.at = at /\ o.loaded = queue /\ o.item = c
    BY NoOperationIsOK DEF Operation, QueueInv, QueueTyped
  <2>2. doing' = [doing EXCEPT ![a] = o]
    BY DEF LoadQueue
  <2> QED
    BY <2>1, <2>2
<1>2. /\ doing' \in [QueueOperations -> Operation]
      /\ \A b \in QueueOperations : doing'[b] = IF b = a THEN o ELSE doing[b]
  BY <1>1 DEF QueueInv, QueueTyped
<1>3. /\ queue' = queue /\ arrived' = arrived /\ requests' = requests /\ doing[a].at = "idle"
      /\ past' \in History /\ past'.accepted = past.accepted
      /\ past'.pushedOut = past.pushedOut
      /\ ~past'.overlapped => ~past.overlapped /\ \A b \in QueueOperations \ {a} : doing[b].at = "idle"
  BY DEF LoadQueue, QueueInv, QueueTyped, History
<1>4. Sends
  BY <1>3, NothingSent
<1>5. QueueTyped'
  BY <1>2, <1>3 DEF QueueInv, QueueTyped
<1>6. ASSUME NEW b \in QueueOperations PROVE OperationOK(doing[b])'
  <2>1. CASE b = a
    BY <1>1, <1>2, <2>1 DEF OperationOK
  <2>2. CASE b # a
    BY <1>2, <1>4, <2>2, OthersWait
  <2> QED
    BY <2>1, <2>2
<1>7. AloneOK'
  <2> SUFFICES ASSUME ~past'.overlapped
               PROVE  /\ \A b, d \in QueueOperations : b # d => doing'[b].at = "idle" \/ doing'[d].at = "idle"
                      /\ \A b \in QueueOperations : Covers(doing[b])'
                      /\ NothingIsLost'
    BY DEF AloneOK
  <2>1. \A b \in QueueOperations \ {a} : doing'[b].at = "idle"
    BY <1>2, <1>3
  <2>2. Covers(doing[a])'
    BY <1>1, <1>2, <1>3 DEF Covers
  <2>3. \A b \in QueueOperations \ {a} : Covers(doing[b])'
    BY <2>1 DEF Covers
  <2>4. NothingIsLost'
    BY <1>3 DEF QueueInv, AloneOK, NothingIsLost, Known
  <2> QED
    BY <2>1, <2>2, <2>3, <2>4
<1> QED
  BY <1>4, <1>5, <1>6, <1>7, NodeWaits DEF QueueInv

LEMMA SaveStep ==
    ASSUME QueueInv, NEW a \in QueueOperations, doing[a].at # "idle", NEW cs \in SUBSET Captures, Save(a, cs),
           past' \in History, past'.overlapped = past.overlapped,
           ~past.overlapped => \A c \in past'.accepted \ past'.pushedOut : c \in cs \/ Known(c)
    PROVE  QueueInv'
<1>1. /\ doing' \in [QueueOperations -> Operation]
      /\ \A b \in QueueOperations : doing'[b] = IF b = a THEN NoOperation ELSE doing[b]
  BY NoOperationIsOK DEF Save, QueueInv, QueueTyped
<1>2. queue' = cs /\ arrived' = arrived /\ requests' = requests
  BY DEF Save
<1>3. Sends
  BY <1>2, NothingSent
<1>4. QueueTyped'
  BY <1>1, <1>2 DEF QueueInv, QueueTyped
<1>5. ASSUME NEW b \in QueueOperations PROVE OperationOK(doing[b])'
  <2>1. CASE b = a
    BY <1>1, <2>1, NoOperationIsOK DEF OperationOK
  <2>2. CASE b # a
    BY <1>1, <1>3, <2>2, OthersWait
  <2> QED
    BY <2>1, <2>2
<1>6. AloneOK'
  <2> SUFFICES ASSUME ~past.overlapped
               PROVE  /\ \A b \in QueueOperations : doing'[b].at = "idle"
                      /\ NothingIsLost'
    BY DEF AloneOK, Covers
  <2>1. \A b \in QueueOperations : b # a => doing[b].at = "idle"
    BY DEF QueueInv, AloneOK
  <2>2. \A b \in QueueOperations : doing'[b].at = "idle"
    BY <1>1, <2>1, NoOperationIsOK
  <2>3. NothingIsLost'
    BY <1>2 DEF NothingIsLost, Known
  <2> QED
    BY <2>2, <2>3
<1> QED
  BY <1>3, <1>4, <1>5, <1>6, NodeWaits DEF QueueInv

LEMMA GoesStep ==
    ASSUME QueueInv, NEW a \in QueueOperations, NEW o \in Operation, Goes(a, o), Sends,
           doing[a].at \in {"drain", "waiting"}, o.at \in {"drain", "waiting"}, OperationOK(o)',
           \A c \in doing[a].loaded \cup doing[a].kept : c \in o.loaded \/ c \in o.kept \/ Known(c)
    PROVE  QueueInv'
<1>1. /\ doing' \in [QueueOperations -> Operation]
      /\ \A b \in QueueOperations : doing'[b] = IF b = a THEN o ELSE doing[b]
      /\ queue' = queue /\ arrived' = arrived /\ past' = past
  BY DEF Goes, QueueInv, QueueTyped
<1>2. QueueTyped'
  BY <1>1 DEF QueueInv, QueueTyped, Sends
<1>3. ASSUME NEW b \in QueueOperations PROVE OperationOK(doing[b])'
  <2>1. CASE b = a
    BY <1>1, <2>1 DEF OperationOK
  <2>2. CASE b # a
    BY <1>1, <2>2, OthersWait
  <2> QED
    BY <2>1, <2>2
<1>4. AloneOK'
  <2> SUFFICES ASSUME ~past.overlapped
               PROVE  /\ \A b, d \in QueueOperations : b # d => doing'[b].at = "idle" \/ doing'[d].at = "idle"
                      /\ \A b \in QueueOperations : Covers(doing[b])'
                      /\ NothingIsLost'
    BY <1>1 DEF AloneOK
  <2>1. \A b \in QueueOperations : b # a => doing[b].at = "idle"
    BY DEF QueueInv, AloneOK
  <2>2. \A c \in queue : c \in doing[a].loaded \/ c \in doing[a].kept \/ Known(c)
    BY DEF QueueInv, AloneOK, Covers
  <2>3. \A c \in queue : c \in o.loaded \/ c \in o.kept \/ Known(c)
    BY <2>2
  <2>4. Covers(doing[a])'
    BY <1>1, <2>3 DEF Covers, Known
  <2>5. \A b \in QueueOperations : b # a => doing'[b].at = "idle"
    BY <1>1, <2>1
  <2>6. \A b \in QueueOperations : b # a => Covers(doing[b])'
    BY <2>5 DEF Covers
  <2>7. NothingIsLost'
    BY <1>1 DEF QueueInv, AloneOK, NothingIsLost, Known
  <2> QED
    BY <2>4, <2>5, <2>6, <2>7
<1> QED
  BY <1>2, <1>3, <1>4, NodeWaits DEF QueueInv

-----------------------------------------------------------------------------
(* The operations, one by one.                                             *)

LEMMA EnqueueSteps ==
    ASSUME QueueInv, NEW a \in QueueOperations,
           (\E c \in Captures : Enqueue(a, c)) \/ SaveEnqueued(a)
    PROVE  QueueInv'
<1>1. ASSUME NEW c \in Captures, Enqueue(a, c) PROVE QueueInv'
  BY <1>1, LoadStep, CapturesAssumption DEF Enqueue
<1>2. CASE SaveEnqueued(a)
  <2> DEFINE o == doing[a]
             all == o.loaded \cup {o.item}
  <2>1. o \in Operation /\ o.at = "enqueue" /\ o.item \in Captures /\ past \in History
    BY <1>2 DEF SaveEnqueued, QueueInv, QueueTyped, OperationOK
  <2>2. all \in SUBSET Captures /\ Trimmed(all) \in SUBSET Captures
    BY <2>1 DEF Operation, Trimmed
  <2>3. /\ past' \in History /\ past'.overlapped = past.overlapped
        /\ past'.accepted = past.accepted \cup {o.item}
        /\ past'.pushedOut = past.pushedOut \cup (all \ Trimmed(all))
    BY <1>2, <2>1, <2>2 DEF SaveEnqueued, History
  <2>4. ASSUME ~past.overlapped, NEW c \in past'.accepted \ past'.pushedOut
        PROVE  c \in Trimmed(all) \/ Known(c)
    <3>1. o.loaded = queue /\ NothingIsLost
      BY <2>1, <2>4 DEF QueueInv, AloneOK, Covers
    <3>2. c \in all \/ Known(c)
      BY <2>3, <2>4, <3>1 DEF NothingIsLost
    <3> QED
      BY <2>3, <2>4, <3>2
  <2>5. Save(a, Trimmed(all))
    BY <1>2 DEF SaveEnqueued
  <2> QED
    BY <2>1, <2>2, <2>3, <2>4, <2>5, SaveStep
<1> QED
  BY <1>1, <1>2

LEMMA RetrySteps ==
    ASSUME QueueInv, NEW a \in QueueOperations, RetryAll(a) \/ SaveRetry(a)
    PROVE  QueueInv'
<1>1. CASE RetryAll(a)
  BY <1>1, LoadStep DEF RetryAll
<1>2. CASE SaveRetry(a)
  <2>1. doing[a].at = "retry" /\ doing[a].loaded \in SUBSET Captures /\ past \in History
    BY <1>2 DEF SaveRetry, QueueInv, QueueTyped, Operation
  <2>2. ~past.overlapped =>
           \A c \in past.accepted \ past.pushedOut : c \in doing[a].loaded \/ Known(c)
    BY <2>1 DEF QueueInv, AloneOK, Covers, NothingIsLost
  <2> QED
    BY <1>2, <2>1, <2>2, SaveStep DEF SaveRetry
<1> QED
  BY <1>1, <1>2

LEMMA DrainSteps ==
    ASSUME QueueInv, NEW a \in QueueOperations, Drain(a) \/ SaveDrained(a)
    PROVE  QueueInv'
<1>1. CASE Drain(a)
  BY <1>1, LoadStep DEF Drain
<1>2. CASE SaveDrained(a)
  <2>1. /\ doing[a].at = "drain" /\ doing[a].loaded = {} /\ doing[a].kept \in SUBSET Captures
        /\ past \in History
    BY <1>2 DEF SaveDrained, QueueInv, QueueTyped, Operation
  <2>2. ~past.overlapped =>
           \A c \in past.accepted \ past.pushedOut : c \in doing[a].kept \/ Known(c)
    BY <2>1 DEF QueueInv, AloneOK, Covers, NothingIsLost
  <2> QED
    BY <1>2, <2>1, <2>2, SaveStep DEF SaveDrained
<1> QED
  BY <1>1, <1>2

LEMMA SkipStep ==
    ASSUME QueueInv, NEW a \in QueueOperations, NEW c \in Captures, Skip(a, c)
    PROVE  QueueInv'
<1>1. doing[a] \in Operation /\ doing[a].at = "drain" /\ Sends
  BY NothingSent DEF Skip, QueueInv, QueueTyped, Goes
<1>2. PICK o \in Operation :
        /\ Goes(a, o) /\ o.at = "drain"
        /\ o.loaded = doing[a].loaded \ {c} /\ o.kept = doing[a].kept \cup {c}
  <2> DEFINE o == [doing[a] EXCEPT !.loaded = @ \ {c}, !.kept = @ \cup {c}]
  <2>1. /\ o \in Operation /\ o.at = "drain"
        /\ o.loaded = doing[a].loaded \ {c} /\ o.kept = doing[a].kept \cup {c}
    BY <1>1 DEF Operation
  <2>2. Goes(a, o)
    BY DEF Skip
  <2> QED
    BY <2>1, <2>2
<1>3. OperationOK(o)'
  BY <1>2 DEF OperationOK
<1> QED
  BY <1>1, <1>2, <1>3, GoesStep

LEMMA DeliverStep ==
    ASSUME QueueInv, NEW a \in QueueOperations, NEW c \in Captures, Deliver(a, c)
    PROVE  QueueInv'
<1>1. doing[a] \in Operation /\ doing[a].at = "drain" /\ requests \in Seq(QueueRequest) /\ Len(requests) \in Nat
  BY DEF Deliver, QueueInv, QueueTyped
<1>2. PICK q \in QueueRequest : requests' = Append(requests, q) /\ q.capture = c /\ q.at = "sent"
  <2> DEFINE q == [capture |-> c, at |-> "sent"]
  <2>1. q \in QueueRequest /\ q.capture = c /\ q.at = "sent"
    BY DEF QueueRequest
  <2>2. requests' = Append(requests, q)
    BY DEF Deliver
  <2> QED
    BY <2>1, <2>2
<1>3. /\ requests' \in Seq(QueueRequest) /\ Len(requests') = Len(requests) + 1
      /\ \A n \in 1 .. Len(requests) : requests'[n] = requests[n]
      /\ requests'[Len(requests) + 1] = q
  BY <1>1, <1>2
<1>4. Sends
  BY <1>1, <1>2, <1>3 DEF Sends, Deliver, Goes
<1>5. PICK o \in Operation :
        /\ Goes(a, o) /\ o.at = "waiting" /\ o.item = c /\ o.sent = Len(requests) + 1
        /\ o.loaded = doing[a].loaded /\ o.kept = doing[a].kept
  <2> DEFINE o == [doing[a] EXCEPT !.at = "waiting", !.item = c, !.sent = Len(requests) + 1]
  <2>1. c \in Nat /\ Len(requests) + 1 \in Nat
    BY <1>1, CapturesAssumption
  <2>2. /\ o \in Operation /\ o.at = "waiting" /\ o.item = c /\ o.sent = Len(requests) + 1
        /\ o.loaded = doing[a].loaded /\ o.kept = doing[a].kept
    BY <1>1, <2>1 DEF Operation
  <2>3. Goes(a, o)
    BY DEF Deliver
  <2> QED
    BY <2>2, <2>3
<1>6. OperationOK(o)'
  BY <1>1, <1>2, <1>3, <1>5 DEF OperationOK
<1> QED
  BY <1>1, <1>4, <1>5, <1>6, GoesStep

LEMMA AnsweredStep ==
    ASSUME QueueInv, NEW a \in QueueOperations, Delivered(a) \/ KeepForLater(a)
    PROVE  QueueInv'
<1>1. /\ doing[a] \in Operation /\ doing[a].at = "waiting" /\ doing[a].item \in Captures /\ Sends
      /\ OperationOK(doing[a])
  BY NothingSent DEF Delivered, KeepForLater, QueueInv, QueueTyped, Goes, OperationOK
<1>2. CASE Delivered(a)
  <2>1. Known(doing[a].item)
    BY <1>1, <1>2 DEF Delivered, OperationOK, QueueInv, NodeOK, RequestOK
  <2>2. PICK o \in Operation :
          /\ Goes(a, o) /\ o.at = "drain"
          /\ o.loaded = doing[a].loaded \ {doing[a].item} /\ o.kept = doing[a].kept
    <3> DEFINE o == [doing[a] EXCEPT !.at = "drain", !.loaded = @ \ {doing[a].item}]
    <3>1. /\ o \in Operation /\ o.at = "drain"
          /\ o.loaded = doing[a].loaded \ {doing[a].item} /\ o.kept = doing[a].kept
      BY <1>1 DEF Operation
    <3>2. Goes(a, o)
      BY <1>2 DEF Delivered
    <3> QED
      BY <3>1, <3>2
  <2>3. OperationOK(o)'
    BY <2>2 DEF OperationOK
  <2> QED
    BY <1>1, <2>1, <2>2, <2>3, GoesStep
<1>3. CASE KeepForLater(a)
  <2>1. PICK o \in Operation :
          /\ Goes(a, o) /\ o.at = "drain"
          /\ o.loaded = doing[a].loaded \ {doing[a].item} /\ o.kept = doing[a].kept \cup {doing[a].item}
    <3> DEFINE o == [doing[a] EXCEPT !.at = "drain", !.loaded = @ \ {doing[a].item},
                                     !.kept = @ \cup {doing[a].item}]
    <3>1. /\ o \in Operation /\ o.at = "drain"
          /\ o.loaded = doing[a].loaded \ {doing[a].item} /\ o.kept = doing[a].kept \cup {doing[a].item}
      BY <1>1 DEF Operation
    <3>2. Goes(a, o)
      BY <1>3 DEF KeepForLater
    <3> QED
      BY <3>1, <3>2
  <2>2. OperationOK(o)'
    BY <2>1 DEF OperationOK
  <2> QED
    BY <1>1, <2>1, <2>2, GoesStep
<1> QED
  BY <1>2, <1>3

LEMMA KillStep == ASSUME QueueInv, Kill PROVE QueueInv'
<1>1. /\ doing' \in [QueueOperations -> Operation] /\ \A a \in QueueOperations : doing'[a] = NoOperation
      /\ queue' = queue /\ arrived' = arrived /\ requests' = requests /\ past' = past
  BY NoOperationIsOK DEF Kill
<1>2. QueueTyped'
  BY <1>1 DEF QueueInv, QueueTyped
<1>3. \A a \in QueueOperations : OperationOK(doing[a])'
  BY <1>1, NoOperationIsOK DEF OperationOK
<1>4. AloneOK'
  BY <1>1, NoOperationIsOK DEF QueueInv, AloneOK, Covers, NothingIsLost, Known
<1> QED
  BY <1>1, <1>2, <1>3, <1>4, NothingSent, NodeWaits DEF QueueInv

-----------------------------------------------------------------------------
(* Steps at the node.                                                      *)

\* The device as it was; rows are kept, and request n is answered.
Responded(n, q) ==
    /\ UNCHANGED <<queue, doing, past>>
    /\ requests' \in Seq(QueueRequest) /\ Len(requests') = Len(requests)
    /\ \A m \in 1 .. Len(requests) : requests'[m] = IF m = n THEN q ELSE requests[m]

LEMMA RespondedTo ==
    ASSUME QueueInv, NEW n \in 1 .. Len(requests),
           NEW at \in {"sent", "writing", "stored", "refused", "conflict"}, AnswerWith(n, at)
    PROVE  \E q \in QueueRequest : q.capture = requests[n].capture /\ q.at = at /\ Responded(n, q)
<1>1. requests \in Seq(QueueRequest) /\ requests[n] \in QueueRequest
  BY DEF QueueInv, QueueTyped
<1>2. PICK q \in QueueRequest :
        requests' = [requests EXCEPT ![n] = q] /\ q.capture = requests[n].capture /\ q.at = at
  <2> DEFINE q == [requests[n] EXCEPT !.at = at]
  <2>1. q \in QueueRequest /\ q.capture = requests[n].capture /\ q.at = at
    BY <1>1 DEF QueueRequest
  <2>2. requests' = [requests EXCEPT ![n] = q]
    BY DEF AnswerWith
  <2> QED
    BY <2>1, <2>2
<1>3. /\ requests' \in Seq(QueueRequest) /\ Len(requests') = Len(requests)
      /\ \A m \in 1 .. Len(requests) : requests'[m] = IF m = n THEN q ELSE requests[m]
  BY <1>1, <1>2
<1> QED
  BY <1>2, <1>3 DEF Responded, AnswerWith

\* The device's parts, when rows have only been added.
LEMMA DeviceWaits ==
    ASSUME QueueInv, NEW n \in 1 .. Len(requests), NEW q \in QueueRequest, Responded(n, q),
           q.capture = requests[n].capture, arrived' \in Seq(Captures), \A c : Known(c) => Known(c)'
    PROVE  QueueTyped' /\ (\A a \in QueueOperations : OperationOK(doing[a])') /\ AloneOK'
<1>1. QueueTyped'
  BY DEF QueueInv, QueueTyped, Responded
<1>2. ASSUME NEW a \in QueueOperations PROVE OperationOK(doing[a])'
  <2>1. OperationOK(doing[a]) /\ doing' = doing
    BY DEF QueueInv, Responded
  <2>2. \A m \in 1 .. Len(requests) : requests'[m].capture = requests[m].capture
    BY DEF Responded
  <2> QED
    BY <2>1, <2>2 DEF OperationOK, Responded
<1>3. AloneOK'
  <2> SUFFICES ASSUME ~past.overlapped
               PROVE  /\ \A a, b \in QueueOperations : a # b => doing[a].at = "idle" \/ doing[b].at = "idle"
                      /\ \A a \in QueueOperations : Covers(doing[a])'
                      /\ NothingIsLost'
    BY DEF AloneOK, Responded
  <2>1. \A a \in QueueOperations : Covers(doing[a])'
    BY DEF QueueInv, AloneOK, Covers, Responded
  <2>2. NothingIsLost'
    BY DEF QueueInv, AloneOK, NothingIsLost, Responded
  <2> QED
    BY <2>1, <2>2 DEF QueueInv, AloneOK
<1> QED
  BY <1>1, <1>2, <1>3

LEMMA TakeStep ==
    ASSUME QueueInv, NEW n \in DOMAIN requests, Take(n) \/ TurnAway(n)
    PROVE  QueueInv'
<1>1. n \in 1 .. Len(requests) /\ DOMAIN requests = 1 .. Len(requests) /\ arrived' = arrived /\ arrived \in Seq(Captures)
  BY DEF QueueInv, QueueTyped, Take, TurnAway
<1>2. PICK q \in QueueRequest : q.capture = requests[n].capture /\ Responded(n, q) /\
        \/ q.at = "refused"
        \/ q.at = "stored" /\ Known(q.capture)
        \/ /\ q.at = "writing" /\ ~Known(q.capture)
           /\ \A m \in 1 .. Len(requests) :
                requests[m].at = "writing" => TextOf[requests[m].capture] # TextOf[q.capture]
  <2>1. CASE TurnAway(n)
    BY <1>1, <2>1, RespondedTo DEF TurnAway
  <2>2. CASE Take(n) /\ Known(requests[n].capture)
    <3>1. AnswerWith(n, "stored")
      BY <2>2 DEF Take
    <3> QED
      BY <1>1, <2>2, <3>1, RespondedTo
  <2>3. CASE Take(n) /\ ~Known(requests[n].capture)
    <3>1. /\ AnswerWith(n, "writing")
          /\ \A m \in 1 .. Len(requests) :
               requests[m].at = "writing" => TextOf[requests[m].capture] # TextOf[requests[n].capture]
      BY <1>1, <2>3 DEF Take
    <3>2. PICK q \in QueueRequest : q.capture = requests[n].capture /\ q.at = "writing" /\ Responded(n, q)
      BY <1>1, <3>1, RespondedTo
    <3> QED
      BY <2>3, <3>1, <3>2
  <2> QED
    BY <2>1, <2>2, <2>3
<1>3. \A c : Known(c)' <=> Known(c)
  BY <1>1 DEF Known
<1>4. ASSUME NEW m \in 1 .. Len(requests') PROVE RequestOK(requests[m])'
  <2>1. m \in 1 .. Len(requests) /\ RequestOK(requests[m])
    BY <1>2 DEF Responded, QueueInv, NodeOK
  <2>2. CASE m = n
    BY <1>1, <1>2, <2>1, <2>2 DEF RequestOK, Responded, Known
  <2>3. CASE m # n
    BY <1>1, <1>2, <2>1, <2>3 DEF RequestOK, Responded, Known
  <2> QED
    BY <2>2, <2>3
<1>5. ASSUME NEW m \in 1 .. Len(requests'), NEW l \in 1 .. Len(requests'), m # l
      PROVE  Exclusive(requests'[m], requests'[l])
  <2>1. m \in 1 .. Len(requests) /\ l \in 1 .. Len(requests) /\ Exclusive(requests[m], requests[l])
    BY <1>2, <1>5 DEF Responded, QueueInv, NodeOK
  <2> QED
    BY <1>2, <1>5, <2>1 DEF Exclusive, Responded
<1>6. NodeOK'
  BY <1>1, <1>4, <1>5 DEF QueueInv, NodeOK, Exclusive
<1> QED
  BY <1>1, <1>2, <1>3, <1>6, DeviceWaits DEF QueueInv

LEMMA CommitStep ==
    ASSUME QueueInv, NEW n \in DOMAIN requests, StoreCapture(n)
    PROVE  QueueInv'
<1> DEFINE c == requests[n].capture
<1>0. requests \in Seq(QueueRequest) /\ arrived \in Seq(Captures) /\ requests[n].at = "writing"
  BY DEF QueueInv, QueueTyped, StoreCapture
<1>1. /\ n \in 1 .. Len(requests) /\ DOMAIN requests = 1 .. Len(requests) /\ c \in Captures
      /\ arrived \in Seq(Captures) /\ requests[n].at = "writing" /\ DOMAIN arrived = 1 .. Len(arrived)
      /\ Len(arrived) \in Nat
  <2>1. requests[n] \in QueueRequest
    BY <1>0
  <2> QED
    BY <1>0, <2>1 DEF QueueRequest
<1>2. ~Known(c)
  BY <1>1 DEF QueueInv, NodeOK, RequestOK
<1>3. arrived' = Append(arrived, c) /\ AnswerWith(n, "stored")
  BY <1>2 DEF StoreCapture
<1>4. PICK q \in QueueRequest : q.capture = c /\ q.at = "stored" /\ Responded(n, q)
  BY <1>1, <1>3, RespondedTo
<1>5. /\ arrived' \in Seq(Captures) /\ Len(arrived') = Len(arrived) + 1 /\ DOMAIN arrived' = 1 .. Len(arrived')
      /\ \A k \in 1 .. Len(arrived) : arrived'[k] = arrived[k]
      /\ arrived'[Len(arrived) + 1] = c
  BY <1>1, <1>3
<1>6. \A d : (\E k \in DOMAIN arrived' : TextOf[arrived'[k]] = TextOf[d]) <=> Known(d) \/ TextOf[d] = TextOf[c]
  <2> SUFFICES ASSUME NEW d
               PROVE  (\E k \in DOMAIN arrived' : TextOf[arrived'[k]] = TextOf[d]) <=> Known(d) \/ TextOf[d] = TextOf[c]
    OBVIOUS
  <2>1. ASSUME NEW k \in DOMAIN arrived', TextOf[arrived'[k]] = TextOf[d]
        PROVE  Known(d) \/ TextOf[d] = TextOf[c]
    <3>1. CASE k \in 1 .. Len(arrived)
      BY <1>1, <1>5, <2>1, <3>1 DEF Known
    <3>2. CASE k = Len(arrived) + 1
      BY <1>5, <2>1, <3>2
    <3> QED
      BY <1>1, <1>5, <3>1, <3>2
  <2>2. ASSUME Known(d) PROVE \E k \in DOMAIN arrived' : TextOf[arrived'[k]] = TextOf[d]
    BY <1>1, <1>5, <2>2 DEF Known
  <2>3. ASSUME TextOf[d] = TextOf[c] PROVE \E k \in DOMAIN arrived' : TextOf[arrived'[k]] = TextOf[d]
    <3>1. Len(arrived) + 1 \in DOMAIN arrived'
      BY <1>1, <1>5
    <3> QED
      BY <1>5, <2>3, <3>1
  <2> QED
    BY <2>1, <2>2, <2>3
<1>7. ASSUME NEW m \in 1 .. Len(requests') PROVE RequestOK(requests[m])'
  <2>1. m \in 1 .. Len(requests) /\ RequestOK(requests[m]) /\ (m # n => Exclusive(requests[m], requests[n]))
    BY <1>1, <1>4 DEF Responded, QueueInv, NodeOK
  <2>2. CASE m = n
    <3>1. requests'[m] = q
      BY <1>4, <2>1, <2>2 DEF Responded
    <3> QED
      BY <1>4, <1>6, <3>1 DEF RequestOK, Known
  <2>3. CASE m # n
    <3>1. requests'[m] = requests[m]
      BY <1>4, <2>1, <2>3 DEF Responded
    <3>2. requests[m].at = "writing" => TextOf[requests[m].capture] # TextOf[c]
      BY <1>1, <2>1, <2>3 DEF Exclusive
    <3> QED
      BY <1>6, <2>1, <3>1, <3>2 DEF RequestOK, Known
  <2> QED
    BY <2>2, <2>3
<1>8. ASSUME NEW m \in 1 .. Len(requests'), NEW l \in 1 .. Len(requests'), m # l
      PROVE  Exclusive(requests'[m], requests'[l])
  <2>1. m \in 1 .. Len(requests) /\ l \in 1 .. Len(requests) /\ Exclusive(requests[m], requests[l])
    BY <1>4, <1>8 DEF Responded, QueueInv, NodeOK
  <2> QED
    BY <1>4, <1>8, <2>1 DEF Exclusive, Responded
<1>9. ASSUME NEW k \in 1 .. Len(arrived'), NEW l \in 1 .. Len(arrived'), TextOf[arrived'[k]] = TextOf[arrived'[l]]
      PROVE  k = l
  <2>1. \A j \in 1 .. Len(arrived) : TextOf[arrived[j]] # TextOf[c]
    BY <1>1, <1>2 DEF Known
  <2> QED
    BY <1>5, <1>9, <2>1 DEF QueueInv, NodeOK
<1>10. NodeOK'
  BY <1>7, <1>8, <1>9 DEF NodeOK, Exclusive
<1>11. \A d : Known(d) => Known(d)'
  BY <1>6 DEF Known
<1> QED
  BY <1>1, <1>4, <1>5, <1>10, <1>11, DeviceWaits DEF QueueInv

-----------------------------------------------------------------------------
LEMMA QueueStep == QueueInv /\ [QueueNext]_queueVars => QueueInv'
<1> SUFFICES ASSUME QueueInv, [QueueNext]_queueVars PROVE QueueInv'
  OBVIOUS
<1>1. ASSUME NEW a \in QueueOperations, Operate(a) PROVE QueueInv'
  BY <1>1, EnqueueSteps, RetrySteps, DrainSteps, SkipStep, DeliverStep, AnsweredStep DEF Operate
<1>2. CASE Kill
  BY <1>2, KillStep
<1>3. ASSUME NEW n \in DOMAIN requests, Take(n) \/ StoreCapture(n) \/ TurnAway(n) PROVE QueueInv'
  BY <1>3, TakeStep, CommitStep
<1>4. CASE UNCHANGED queueVars
  BY <1>4 DEF queueVars, QueueInv, QueueTyped, OperationOK, NodeOK, RequestOK, Exclusive, AloneOK, Covers,
              NothingIsLost, Known
<1> QED
  BY <1>1, <1>2, <1>3, <1>4 DEF QueueNext

(* The captures of an offline device arrive once, whatever is lost, killed *)
(* or delivered twice, and until then each is in the queue unless the limit*)
(* has removed it or two operations have overlapped (background.js,        *)
(* queue.ts, mobile-routes.ts).                                            *)
THEOREM CapturesAlwaysArrive == QueueSpec => []CapturesArrive
<1>1. QueueInit => QueueInv
  BY QueueInitial
<1>2. QueueInv /\ [QueueNext]_queueVars => QueueInv'
  BY QueueStep
<1>3. QueueInv => CapturesArrive
  BY QueueInvIsEnough
<1> QED
  BY <1>1, <1>2, <1>3, PTL DEF QueueSpec

-----------------------------------------------------------------------------
(* DeviceEnrollment: the inductive invariant.                              *)

Registry ==
    [sync_epoch : Nat, devices : [Identities -> [state : {"none", "live", "revoked"}, epoch : Nat]]]

Command ==
    [stage : {"idle", "enroll", "load", "grant", "revoke", "retire"}, device : Identities \cup {0},
     registry : Registry]

Joined == [config : Identities \cup {0}, state : Identities \cup {0}, registry : Identities \cup {0},
           epoch : Nat]

\* What a registry says, of the node or in the memory of a command, is so at the
\* relay, and its sessions are at its epoch.
RegistryOK(r, relay) ==
    /\ r \in Registry
    /\ \A i \in Identities : /\ r.devices[i].state = "revoked" => relay[i] = "revoked"
                             /\ r.devices[i].state = "live" => r.devices[i].epoch = r.sync_epoch

\* A command that has been to the relay left its device known there.
CommandOK(c, relay) ==
    /\ c \in Command
    /\ RegistryOK(c.registry, relay)
    /\ c.stage # "idle" => c.device \in Identities
    /\ c.stage \in {"load", "grant"} => relay[c.device] # "unknown"

KnownDevice(i, relay) == i \in Identities /\ relay[i] # "unknown"

RelayOK == onRelay \in [Identities -> {"unknown", "active", "revoked"}]

CommandsOK == operation \in [Processes -> Command] /\ \A p \in Processes : CommandOK(operation[p], onRelay)

GrantsOK == \A g \in granted : g.epoch \in Nat /\ KnownDevice(g.device, onRelay)

JoinedOK ==
    /\ joined \in [Joiners -> Joined]
    /\ \A j \in Joiners : joined[j].config # 0 => KnownDevice(joined[j].config, onRelay)

EnrollmentInv == RelayOK /\ RegistryOK(registry, onRelay) /\ CommandsOK /\ GrantsOK /\ JoinedOK

-----------------------------------------------------------------------------
(* DeviceEnrollment: the registry and the relay                            *)

LEMMA ZeroIsNoIdentity == 0 \notin Identities
  BY DEF Identities

LEMMA NewRegistryOK == ASSUME NEW relay PROVE RegistryOK(NewRegistry, relay)
<1> DEFINE devices == [i \in Identities |-> NoSession]
<1>1. devices \in [Identities -> [state : {"none", "live", "revoked"}, epoch : Nat]]
  BY DEF NoSession
<1>2. \A i \in Identities : devices[i].state = "none"
  BY DEF NoSession
<1>3. NewRegistry.devices = devices /\ NewRegistry \in Registry
  BY <1>1 DEF NewRegistry, Registry
<1> QED
  BY <1>2, <1>3 DEF RegistryOK

(* A device is enrolled at the epoch of the registry.                       *)
LEMMA EnrolledOK ==
    ASSUME NEW relay, NEW r, RegistryOK(r, relay), NEW i \in Identities
    PROVE  RegistryOK(Enrolled(r, i), relay)
<1> DEFINE new == [state |-> "live", epoch |-> r.sync_epoch]
           devices == [r.devices EXCEPT ![i] = new]
<1>1. r \in Registry
  BY DEF RegistryOK
<1>2. r.sync_epoch \in Nat
      /\ r.devices \in [Identities -> [state : {"none", "live", "revoked"}, epoch : Nat]]
  BY <1>1 DEF Registry
<1>3. new \in [state : {"none", "live", "revoked"}, epoch : Nat]
  BY <1>2
<1>4. devices \in [Identities -> [state : {"none", "live", "revoked"}, epoch : Nat]]
  BY <1>2, <1>3
<1>5. \A k \in Identities : devices[k] = IF k = i THEN new ELSE r.devices[k]
  BY <1>2
<1>6. Enrolled(r, i) = [r EXCEPT !.devices = devices]
  BY DEF Enrolled
<1> HIDE DEF devices
<1>7. /\ Enrolled(r, i) \in Registry
      /\ Enrolled(r, i).devices = devices /\ Enrolled(r, i).sync_epoch = r.sync_epoch
  BY <1>1, <1>4, <1>6 DEF Registry
<1> QED
  BY <1>5, <1>7 DEF RegistryOK

(* A revocation moves the epoch and every session that survives it.         *)
LEMMA RevocationOK ==
    ASSUME NEW relay, NEW r, RegistryOK(r, relay), NEW i \in Identities, relay[i] = "revoked"
    PROVE  RegistryOK(Rotated(Revoked(r, i)), relay)
<1> DEFINE Sessions == [state : {"none", "live", "revoked"}, epoch : Nat]
           out == [r.devices[i] EXCEPT !.state = "revoked"]
           without == [r.devices EXCEPT ![i] = out]
           moved(k) == [without[k] EXCEPT !.epoch = r.sync_epoch + 1]
           devices == [k \in Identities |-> IF without[k].state = "live" THEN moved(k) ELSE without[k]]
           s == Revoked(r, i)
<1>1. r \in Registry
  BY DEF RegistryOK
<1>2. r.sync_epoch \in Nat /\ r.devices \in [Identities -> Sessions]
  BY <1>1 DEF Registry
<1>3. out \in Sessions /\ out.state = "revoked"
  BY <1>2
<1>4. /\ without \in [Identities -> Sessions]
      /\ \A k \in Identities : without[k] = IF k = i THEN out ELSE r.devices[k]
  BY <1>2, <1>3
<1>5. \A k \in Identities : moved(k) \in Sessions /\ moved(k).state = without[k].state
                            /\ moved(k).epoch = r.sync_epoch + 1
  BY <1>2, <1>4
<1>6. /\ s \in Registry /\ s.devices = without /\ s.sync_epoch = r.sync_epoch + 1
  <2> DEFINE q == [r EXCEPT !.sync_epoch = @ + 1]
  <2>1. q \in Registry /\ q.devices = r.devices /\ q.sync_epoch = r.sync_epoch + 1
    BY <1>1, <1>2 DEF Registry
  <2>2. s = [q EXCEPT !.devices = without]
    BY <1>1 DEF Revoked, Registry
  <2> HIDE DEF without, q, s
  <2> QED
    BY <1>4, <2>1, <2>2 DEF Registry
<1>7. \A k \in Identities : moved(k) = [s.devices[k] EXCEPT !.epoch = s.sync_epoch]
  BY <1>6
<1>8. Rotated(s) = [s EXCEPT !.devices = devices]
  BY <1>6, <1>7 DEF Rotated
<1> HIDE DEF out, without, moved
<1>9. /\ devices \in [Identities -> Sessions]
      /\ \A k \in Identities : devices[k] = IF without[k].state = "live" THEN moved(k) ELSE without[k]
  BY <1>4, <1>5
<1> HIDE DEF devices, s
<1>10. /\ Rotated(s) \in Registry /\ Rotated(s).devices = devices /\ Rotated(s).sync_epoch = r.sync_epoch + 1
  BY <1>6, <1>8, <1>9 DEF Registry
<1>11. ASSUME NEW k \in Identities, devices[k].state = "revoked" PROVE relay[k] = "revoked"
  <2>1. without[k].state = "revoked"
    BY <1>11, <1>9, <1>5
  <2> QED
    BY <2>1, <1>4 DEF RegistryOK
<1>12. ASSUME NEW k \in Identities, devices[k].state = "live" PROVE devices[k].epoch = r.sync_epoch + 1
  BY <1>12, <1>9, <1>5
<1> QED
  BY <1>10, <1>11, <1>12 DEF RegistryOK, s

(* The relay forgets no device and takes no revocation back: what was so    *)
(* of a registry, a command, a grant or a root stays so.                    *)
Onwards(old, new) ==
    \A i \in Identities : /\ old[i] = "revoked" => new[i] = "revoked"
                          /\ old[i] # "unknown" => new[i] # "unknown"

LEMMA StaysOK ==
    ASSUME NEW old, NEW new, Onwards(old, new)
    PROVE  /\ \A r : RegistryOK(r, old) => RegistryOK(r, new)
           /\ \A c : CommandOK(c, old) => CommandOK(c, new)
           /\ \A i : KnownDevice(i, old) => KnownDevice(i, new)
<1>1. \A r : RegistryOK(r, old) => RegistryOK(r, new)
  BY DEF RegistryOK, Onwards
<1>2. \A c : CommandOK(c, old) => CommandOK(c, new)
  BY <1>1 DEF CommandOK, Onwards
<1>3. \A i : KnownDevice(i, old) => KnownDevice(i, new)
  BY DEF KnownDevice, Onwards
<1> QED
  BY <1>1, <1>2, <1>3

-----------------------------------------------------------------------------
(* DeviceEnrollment: the steps                                             *)

LEMMA NoCommandOK == ASSUME NEW relay PROVE CommandOK(NoCommand, relay)
<1>1. NewRegistry \in Registry /\ RegistryOK(NewRegistry, relay)
  BY NewRegistryOK DEF RegistryOK
<1> HIDE DEF NewRegistry
<1>2. /\ NoCommand \in Command /\ NoCommand.registry = NewRegistry /\ NoCommand.stage = "idle"
  BY <1>1 DEF NoCommand, Command
<1> QED
  BY <1>1, <1>2 DEF CommandOK

LEMMA EnrollmentInitOK == EnrollmentInit => EnrollmentInv
<1> SUFFICES ASSUME EnrollmentInit PROVE EnrollmentInv
  OBVIOUS
<1>1. RelayOK
  BY DEF EnrollmentInit, RelayOK
<1>2. RegistryOK(registry, onRelay)
  BY NewRegistryOK DEF EnrollmentInit
<1>3. CommandsOK
  <2>1. CommandOK(NoCommand, onRelay) /\ NoCommand \in Command
    BY NoCommandOK DEF CommandOK
  <2> QED
    BY <2>1 DEF EnrollmentInit, CommandsOK
<1>4. GrantsOK
  BY DEF EnrollmentInit, GrantsOK
<1>5. JoinedOK
  <2>1. NotJoined \in Joined /\ NotJoined.config = 0
    BY DEF NotJoined, Joined
  <2> QED
    BY <2>1 DEF EnrollmentInit, JoinedOK
<1> QED
  BY <1>1, <1>2, <1>3, <1>4, <1>5 DEF EnrollmentInv

(* A step of one command, at the relay or in memory.                        *)
LEMMA CommandMoves ==
    ASSUME EnrollmentInv, NEW p \in Processes, NEW c, CommandGoes(p, c), CommandOK(c, onRelay'),
           RelayOK', Onwards(onRelay, onRelay')
    PROVE  CommandsOK'
<1>1. c \in Command
  BY DEF CommandOK
<1>2. /\ operation' \in [Processes -> Command]
      /\ \A q \in Processes : operation'[q] = IF q = p THEN c ELSE operation[q]
  BY <1>1 DEF CommandGoes, EnrollmentInv, CommandsOK
<1>3. \A q \in Processes : CommandOK(operation[q], onRelay')
  BY StaysOK DEF EnrollmentInv, CommandsOK
<1> QED
  BY <1>2, <1>3 DEF CommandsOK

LEMMA OthersStay ==
    ASSUME EnrollmentInv, Onwards(onRelay, onRelay')
    PROVE  /\ UNCHANGED registry => RegistryOK(registry, onRelay)'
           /\ UNCHANGED granted => GrantsOK'
           /\ UNCHANGED joined => JoinedOK'
<1>1. UNCHANGED registry => RegistryOK(registry, onRelay)'
  BY StaysOK DEF EnrollmentInv
<1>2. UNCHANGED granted => GrantsOK'
  BY StaysOK DEF EnrollmentInv, GrantsOK
<1>3. UNCHANGED joined => JoinedOK'
  BY StaysOK DEF EnrollmentInv, JoinedOK
<1> QED
  BY <1>1, <1>2, <1>3

(* A step of one root.                                                      *)
LEMMA RootMoves ==
    ASSUME EnrollmentInv, NEW j \in Joiners, NEW x \in Joined, joined' = [joined EXCEPT ![j] = x],
           x.config # 0 => KnownDevice(x.config, onRelay),
           UNCHANGED <<onRelay, registry, operation, granted>>
    PROVE  EnrollmentInv'
<1>1. /\ joined' \in [Joiners -> Joined]
      /\ \A k \in Joiners : joined'[k] = IF k = j THEN x ELSE joined[k]
  BY DEF EnrollmentInv, JoinedOK
<1>2. JoinedOK'
  BY <1>1 DEF EnrollmentInv, JoinedOK
<1> QED
  BY <1>2 DEF EnrollmentInv, RelayOK, CommandsOK, GrantsOK

LEMMA EnrollmentStep == EnrollmentInv /\ [EnrollmentNext]_enrollmentVars => EnrollmentInv'
<1> SUFFICES ASSUME EnrollmentInv, [EnrollmentNext]_enrollmentVars PROVE EnrollmentInv'
  OBVIOUS
<1> USE DEF AtStage
<1>i. /\ RelayOK /\ RegistryOK(registry, onRelay) /\ CommandsOK /\ GrantsOK /\ JoinedOK
  BY DEF EnrollmentInv
<1>s. Onwards(onRelay, onRelay)
  BY DEF Onwards
\* A step of a command that leaves the relay alone.
<1>c. ASSUME NEW p \in Processes, NEW c, CommandGoes(p, c), CommandOK(c, onRelay), UNCHANGED onRelay
      PROVE  RelayOK' /\ CommandsOK'
  <2>1. RelayOK' /\ Onwards(onRelay, onRelay') /\ CommandOK(c, onRelay')
    BY <1>c, <1>i, <1>s DEF RelayOK
  <2> QED
    BY <1>c, <2>1, CommandMoves
<1>1. ASSUME UNCHANGED <<onRelay, registry, operation, granted, joined>> PROVE EnrollmentInv'
  BY <1>1, <1>i DEF EnrollmentInv, RelayOK, CommandsOK, GrantsOK, JoinedOK
<1>2. ASSUME NEW j \in Joiners, BeginEnrollment(j) PROVE EnrollmentInv'
  BY <1>1, <1>2 DEF BeginEnrollment
<1>3. ASSUME NEW i \in Identities, Expire(i) PROVE EnrollmentInv'
  BY <1>1, <1>3 DEF Expire
<1>4. ASSUME NEW p \in Processes, NEW i \in Identities, Approve(p, i) PROVE EnrollmentInv'
  <2> DEFINE c == [NoCommand EXCEPT !.stage = "enroll", !.device = i]
  <2>1. CommandOK(c, onRelay)
    <3>1. NewRegistry \in Registry /\ RegistryOK(NewRegistry, onRelay)
      BY NewRegistryOK DEF RegistryOK
    <3> HIDE DEF NewRegistry
    <3>2. c \in Command /\ c.registry = NewRegistry /\ c.stage = "enroll" /\ c.device = i
      BY <3>1 DEF NoCommand, Command
    <3> QED
      BY <3>1, <3>2 DEF CommandOK
  <2>2. CommandGoes(p, c) /\ UNCHANGED <<onRelay, registry, granted, joined>>
    BY <1>4 DEF Approve
  <2> HIDE DEF c
  <2>3. RelayOK' /\ CommandsOK'
    BY <2>1, <2>2, <1>c
  <2> QED
    BY <2>2, <2>3, <1>s, OthersStay DEF EnrollmentInv
<1>5. ASSUME NEW p \in Processes, NEW i \in Identities, StartRevocation(p, i) PROVE EnrollmentInv'
  <2> DEFINE c == [stage |-> "revoke", device |-> i, registry |-> registry]
  <2>1. CommandOK(c, onRelay)
    <3>1. c \in Command /\ c.registry = registry /\ c.stage = "revoke" /\ c.device = i
      BY <1>i DEF Command, RegistryOK
    <3> QED
      BY <3>1, <1>i DEF CommandOK
  <2>2. CommandGoes(p, c) /\ UNCHANGED <<onRelay, registry, granted, joined>>
    BY <1>5 DEF StartRevocation
  <2> HIDE DEF c
  <2>3. RelayOK' /\ CommandsOK'
    BY <2>1, <2>2, <1>c
  <2> QED
    BY <2>2, <2>3, <1>s, OthersStay DEF EnrollmentInv
<1>6. ASSUME NEW p \in Processes, RelayEnrolls(p), UNCHANGED <<registry, granted, joined>>
      PROVE  EnrollmentInv'
  <2> DEFINE old == operation[p]
             c == [old EXCEPT !.stage = "load"]
  <2>1. CommandOK(old, onRelay) /\ old.stage = "enroll" /\ CommandGoes(p, c)
        /\ onRelay' = [onRelay EXCEPT ![old.device] = IF @ = "revoked" THEN @ ELSE "active"]
    BY <1>6, <1>i DEF RelayEnrolls, CommandsOK
  <2>2. old \in Command /\ old.device \in Identities /\ RegistryOK(old.registry, onRelay)
    BY <2>1 DEF CommandOK
  <2>3. RelayOK' /\ Onwards(onRelay, onRelay') /\ onRelay'[old.device] # "unknown"
    BY <2>1, <2>2, <1>i DEF RelayOK, Onwards
  <2> HIDE DEF old
  <2>4. c \in Command /\ c.registry = old.registry /\ c.device = old.device /\ c.stage = "load"
    BY <2>2 DEF Command
  <2> HIDE DEF c
  <2>5. RegistryOK(c.registry, onRelay')
    BY <2>2, <2>3, <2>4, StaysOK
  <2>6. CommandOK(c, onRelay')
    BY <2>2, <2>3, <2>4, <2>5 DEF CommandOK
  <2>7. CommandsOK'
    BY <2>1, <2>3, <2>6, CommandMoves
  <2> QED
    BY <1>6, <2>3, <2>7, OthersStay DEF EnrollmentInv
<1>7. ASSUME NEW p \in Processes, CommandEnds(p), UNCHANGED <<onRelay, registry, granted, joined>>
      PROVE  EnrollmentInv'
  <2>1. RelayOK' /\ CommandsOK'
    BY <1>7, <1>c, NoCommandOK DEF CommandEnds
  <2> QED
    BY <1>7, <2>1, <1>s, OthersStay DEF EnrollmentInv
<1>8. ASSUME NEW p \in Processes, LoadForGrant(p), UNCHANGED <<granted, joined>> PROVE EnrollmentInv'
  <2> DEFINE old == operation[p]
             r == Enrolled(registry, old.device)
             c == [old EXCEPT !.stage = "grant", !.registry = r]
  <2>1. CASE CommandEnds(p)
    BY <2>1, <1>7, <1>8 DEF LoadForGrant
  <2>2. CASE CommandGoes(p, c)
    <3>1. CommandOK(old, onRelay) /\ old.stage = "load"
      BY <1>8, <1>i DEF LoadForGrant, CommandsOK
    <3>2. old \in Command /\ old.device \in Identities /\ onRelay[old.device] # "unknown"
      BY <3>1 DEF CommandOK
    <3>3. RegistryOK(r, onRelay) /\ r \in Registry
      BY <3>2, <1>i, EnrolledOK DEF RegistryOK
    <3>4. CommandGoes(p, c)
      BY <2>2
    <3> HIDE DEF old, r
    <3>5. c \in Command /\ c.registry = r /\ c.device = old.device /\ c.stage = "grant"
      BY <3>2, <3>3 DEF Command
    <3> HIDE DEF c
    <3>6. CommandOK(c, onRelay)
      BY <3>2, <3>3, <3>5 DEF CommandOK
    <3>7. UNCHANGED <<onRelay, registry>>
      BY <1>8 DEF LoadForGrant
    <3>8. RelayOK' /\ CommandsOK'
      BY <3>4, <3>6, <3>7, <1>c
    <3> QED
      BY <1>8, <3>7, <3>8, <1>s, OthersStay DEF EnrollmentInv
  <2> QED
    BY <1>8, <2>1, <2>2 DEF LoadForGrant
<1>9. ASSUME NEW p \in Processes, Grant(p) PROVE EnrollmentInv'
  <2> DEFINE old == operation[p]
             g == [device |-> old.device, epoch |-> old.registry.sync_epoch]
  <2>1. CommandOK(old, onRelay) /\ old.stage = "grant" /\ registry' = old.registry
        /\ granted' = granted \cup {g} /\ CommandEnds(p) /\ UNCHANGED <<onRelay, joined>>
    BY <1>9, <1>i DEF Grant, CommandsOK
  <2>2. RegistryOK(old.registry, onRelay) /\ old.registry.sync_epoch \in Nat /\ KnownDevice(old.device, onRelay)
    BY <2>1 DEF CommandOK, RegistryOK, Registry, KnownDevice
  <2>3. RelayOK' /\ CommandsOK'
    BY <2>1, <1>c, NoCommandOK DEF CommandEnds
  <2>4. RegistryOK(registry, onRelay)'
    BY <2>1, <2>2
  <2>5. GrantsOK'
    <3>1. g.device = old.device /\ g.epoch = old.registry.sync_epoch
      OBVIOUS
    <3> HIDE DEF g
    <3> QED
      BY <3>1, <2>1, <2>2, <1>i DEF GrantsOK
  <2> QED
    BY <2>1, <2>3, <2>4, <2>5, <1>s, OthersStay DEF EnrollmentInv
<1>10. ASSUME NEW p \in Processes, RelayRevokes(p), UNCHANGED <<registry, granted, joined>>
       PROVE  EnrollmentInv'
  <2> DEFINE old == operation[p]
             i == old.device
             r == Rotated(Revoked(old.registry, i))
             c == [old EXCEPT !.stage = "retire", !.registry = r]
  <2>1. CommandOK(old, onRelay) /\ old.stage = "revoke"
    BY <1>10, <1>i DEF RelayRevokes, CommandsOK
  <2>2. old \in Command /\ i \in Identities /\ RegistryOK(old.registry, onRelay)
    BY <2>1 DEF CommandOK
  <2>3. CASE CommandEnds(p) /\ UNCHANGED onRelay
    BY <2>3, <1>7, <1>10
  <2>4. ASSUME onRelay' = [onRelay EXCEPT ![i] = "revoked"]
        PROVE  RelayOK' /\ Onwards(onRelay, onRelay') /\ onRelay'[i] = "revoked"
    BY <2>2, <2>4, <1>i DEF RelayOK, Onwards
  <2>5. CASE onRelay' = [onRelay EXCEPT ![i] = "revoked"] /\ CommandEnds(p)
    <3>1. CommandsOK'
      BY <2>4, <2>5, NoCommandOK, CommandMoves DEF CommandEnds
    <3> QED
      BY <1>10, <2>4, <2>5, <3>1, OthersStay DEF EnrollmentInv
  <2>6. CASE onRelay' = [onRelay EXCEPT ![i] = "revoked"] /\ CommandGoes(p, c)
    <3>1. RelayOK' /\ Onwards(onRelay, onRelay') /\ onRelay'[i] = "revoked"
      BY <2>4, <2>6
    <3>2. RegistryOK(old.registry, onRelay')
      BY <2>2, <3>1, StaysOK
    <3>3. RegistryOK(r, onRelay') /\ r \in Registry
      BY <2>2, <3>1, <3>2, RevocationOK DEF RegistryOK
    <3>4. CommandGoes(p, c)
      BY <2>6
    <3> HIDE DEF old, r
    <3>5. c \in Command /\ c.registry = r /\ c.device = i /\ c.stage = "retire"
      BY <2>2, <3>3 DEF Command
    <3> HIDE DEF c
    <3>6. CommandOK(c, onRelay')
      BY <2>2, <3>3, <3>5 DEF CommandOK
    <3>7. CommandsOK'
      BY <3>1, <3>4, <3>6, CommandMoves
    <3> QED
      BY <1>10, <3>1, <3>7, OthersStay DEF EnrollmentInv
  <2>7. CommandGoes(p, [operation[p] EXCEPT !.stage = "retire", !.registry = Rotated(Revoked(@, i))])
          => CommandGoes(p, c)
    BY <2>2 DEF Command
  <2> QED
    BY <1>10, <2>3, <2>5, <2>6, <2>7 DEF RelayRevokes
<1>11. ASSUME NEW p \in Processes, WriteRevocation(p) PROVE EnrollmentInv'
  <2>1. RegistryOK(operation[p].registry, onRelay)
    BY <1>11, <1>i DEF CommandsOK, CommandOK
  <2>2. /\ CommandEnds(p) /\ registry' = operation[p].registry /\ UNCHANGED <<onRelay, granted, joined>>
    BY <1>11 DEF WriteRevocation
  <2>3. RelayOK' /\ CommandsOK'
    BY <2>2, <1>c, NoCommandOK DEF CommandEnds
  <2> QED
    BY <2>1, <2>2, <2>3, <1>s, OthersStay DEF EnrollmentInv
<1>12. ASSUME NEW p \in Processes, CommandFails(p) PROVE EnrollmentInv'
  BY <1>7, <1>12 DEF CommandFails
<1>13. ASSUME NEW j \in Joiners, AcceptConfig(j) PROVE EnrollmentInv'
  <2>1. PICK g \in granted : joined' = [joined EXCEPT ![j].config = g.device, ![j].epoch = g.epoch]
    BY <1>13 DEF AcceptConfig
  <2> DEFINE x == [joined[j] EXCEPT !.config = g.device, !.epoch = g.epoch]
  <2>2. g.epoch \in Nat /\ KnownDevice(g.device, onRelay) /\ g.device \in Identities /\ joined[j] \in Joined
    BY <1>i DEF GrantsOK, KnownDevice, JoinedOK
  <2>3. x \in Joined /\ x.config = g.device
    BY <2>2 DEF Joined
  <2>4. joined' = [joined EXCEPT ![j] = x]
    BY <2>1
  <2>5. UNCHANGED <<onRelay, registry, operation, granted>>
    BY <1>13 DEF AcceptConfig
  <2> HIDE DEF x
  <2> QED
    BY <2>2, <2>3, <2>4, <2>5, RootMoves
<1>14. ASSUME NEW j \in Joiners, AcceptState(j) PROVE EnrollmentInv'
  <2> DEFINE x == [joined[j] EXCEPT !.state = joined[j].config]
  <2>1. joined[j] \in Joined /\ (joined[j].config # 0 => KnownDevice(joined[j].config, onRelay))
    BY <1>i DEF JoinedOK
  <2>2. x \in Joined /\ x.config = joined[j].config
    BY <2>1 DEF Joined
  <2>3. joined' = [joined EXCEPT ![j] = x] /\ UNCHANGED <<onRelay, registry, operation, granted>>
    BY <1>14 DEF AcceptState
  <2> HIDE DEF x
  <2> QED
    BY <2>1, <2>2, <2>3, RootMoves
<1>15. ASSUME NEW j \in Joiners, AcceptRegistry(j) PROVE EnrollmentInv'
  <2> DEFINE x == [joined[j] EXCEPT !.registry = joined[j].state]
  <2>1. joined[j] \in Joined /\ (joined[j].config # 0 => KnownDevice(joined[j].config, onRelay))
    BY <1>i DEF JoinedOK
  <2>2. x \in Joined /\ x.config = joined[j].config
    BY <2>1 DEF Joined
  <2>3. joined' = [joined EXCEPT ![j] = x] /\ UNCHANGED <<onRelay, registry, operation, granted>>
    BY <1>15 DEF AcceptRegistry
  <2> HIDE DEF x
  <2> QED
    BY <2>1, <2>2, <2>3, RootMoves
<1>16. CASE UNCHANGED enrollmentVars
  BY <1>1, <1>16 DEF enrollmentVars
<1> QED
  BY <1>2, <1>3, <1>4, <1>5, <1>6, <1>8, <1>9, <1>10, <1>11, <1>12, <1>13, <1>14, <1>15, <1>16
     DEF EnrollmentNext

(* Whatever enrolments and revocations overlap, fail or are repeated, the    *)
(* registry calls out only who the relay refuses, survivors are at its epoch *)
(* and whoever holds the key is known to the relay.                         *)
THEOREM EnrollmentStaysSound == EnrollmentSpec => []EnrollmentIsSound
<1>1. EnrollmentInv => EnrollmentIsSound
  BY DEF EnrollmentInv, JoinedOK, RegistryOK, KnownDevice, EnrollmentIsSound, RevokedIsRefused,
         SurvivorsAtEpoch, KeyHoldersAreKnown
<1> QED
  BY <1>1, EnrollmentInitOK, EnrollmentStep, PTL DEF EnrollmentSpec

-----------------------------------------------------------------------------
(* DeveloperRuntime: the inductive invariant, as named parts.              *)

\* Of a command only the number of its passphrase is ever compared.
IsCommand(c) ==
    /\ c = [name |-> c.name, at |-> c.at, env |-> c.env, pass |-> c.pass, pid |-> c.pid, count |-> c.count]
    /\ c.pass \in Nat

\* What the writes of a command need to know of the types.
Typed ==
    /\ vault \in [id : Nat, manifest : BOOLEAN, sealed : Nat, record : BOOLEAN]
    /\ passFile \in Nat
    /\ fresh \in Nat /\ fresh > EnvPassphrase
    /\ IsCommand(command)

\* From choosing the passphrase to sealing the vault with it, it stays in its file.
PassphraseIsKept ==
    command.at \in {"vault", "manifest", "secrets"} /\ command.pass > EnvPassphrase =>
        passFile = command.pass

\* The state is cleared when no vault is left.
ClearsAfterVault == command.at = "clear" => vault = NoVault /\ pidFile = 0

\* Only a reset removes, and it reports success from there alone.
StepsOfReset ==
    /\ command.at \in {"remove", "clear"} => command.name = "reset"
    /\ command.name = "reset" => command.at \in {"stop", "dbstop", "probe", "remove", "clear"} \cup Ended

SealInv == Typed /\ PassphraseOutlivesVault /\ PassphraseIsKept /\ ClearsAfterVault

ResetInv == SealInv /\ StepsOfReset /\ ResetIsComplete

-----------------------------------------------------------------------------
(* The parts that speak of a few steps of a command hold wherever it goes  *)
(* next, if that is not one of those steps.                                *)

\* The steps that write a vault or clear the state, and those a proof of a reset names.
Writing == {"vault", "manifest", "secrets", "clear"}

\* A step that leaves the vault and the passphrase file as they were, for a step that does not write.
LEMMA QuietStep ==
    ASSUME SealInv, UNCHANGED <<vault, passFile>>,
           fresh' \in Nat, fresh' > EnvPassphrase,
           IsCommand(command'), command'.at \notin Writing
    PROVE  SealInv'
  BY DEF SealInv, Typed, PassphraseOutlivesVault, PassphraseIsKept, ClearsAfterVault, Writing

\* Going to another step keeps the rest of the command.
LEMMA GotoType ==
    ASSUME IsCommand(command), NEW step, Goto(step)
    PROVE  /\ IsCommand(command')
           /\ command'.at = step /\ command'.name = command.name /\ command'.pass = command.pass
<1>1. command' = [name |-> command.name, at |-> step, env |-> command.env, pass |-> command.pass,
                  pid |-> command.pid, count |-> command.count]
  BY DEF IsCommand, Goto
<1> QED
  BY <1>1 DEF IsCommand

LEMMA QuietGoto ==
    ASSUME SealInv, NEW step, step \notin Writing, Goto(step), UNCHANGED <<vault, passFile, fresh>>
    PROVE  SealInv'
<1>1. IsCommand(command) /\ fresh \in Nat /\ fresh > EnvPassphrase
  BY DEF SealInv, Typed
<1>2. IsCommand(command') /\ command'.at = step
  BY <1>1, GotoType
<1> QED
  BY <1>1, <1>2, QuietStep

LEMMA SealInit == RuntimeInit => SealInv
  BY DEF RuntimeInit, SealInv, Typed, PassphraseOutlivesVault, PassphraseIsKept, ClearsAfterVault,
         IsCommand, NoVault, EnvPassphrase

(* A command begins at a step that writes nothing yet. *)
LEMMA SealBegin ==
    ASSUME SealInv, NEW name \in DOMAIN FirstStep, NEW env \in BOOLEAN, Begin(name, env)
    PROVE  SealInv'
<1>1. FirstStep[name] \notin Writing
  BY DEF FirstStep, Writing
<1>2. command' = [name |-> name, at |-> FirstStep[name], env |-> env, pass |-> 0, pid |-> 0,
                  count |-> command.count + 1]
  BY DEF Begin
<1>3. IsCommand(command') /\ command'.at = FirstStep[name]
  BY <1>2 DEF IsCommand
<1> QED
  BY <1>1, <1>3, QuietStep DEF Begin, SealInv, Typed

(* Every step of a command that neither chooses a passphrase, nor writes or *)
(* removes the vault, nor clears the state.                                 *)
LEMMA SealQuiet ==
    ASSUME SealInv,
           \/ Doctor \/ Load \/ Unlock \/ CheckPid \/ StartDatabase \/ Spawn \/ WritePid
           \/ AwaitReady \/ VerifyReady \/ WriteSetup \/ Stop \/ StopDatabase \/ Probe
           \/ Interrupt \/ Reboot
    PROVE  SealInv'
<1>1. CASE Doctor
  BY <1>1, QuietGoto DEF Writing, Doctor
<1>2. CASE Load
  <2> DEFINE p == IF command.env THEN EnvPassphrase ELSE IF setupFile.source = "file" THEN passFile ELSE 0
  <2>1. PICK step \in {"failed", "done", "unlock"} : command' = [command EXCEPT !.pass = p, !.at = step]
    BY <1>2 DEF Load
  <2>2. p \in Nat
    BY DEF SealInv, Typed, EnvPassphrase
  <2>3. command' = [name |-> command.name, at |-> step, env |-> command.env, pass |-> p,
                    pid |-> command.pid, count |-> command.count]
    BY <2>1 DEF SealInv, Typed, IsCommand
  <2>4. IsCommand(command') /\ command'.at = step
    BY <2>2, <2>3 DEF IsCommand
  <2> QED
    BY <1>2, <2>4, QuietStep DEF Load, SealInv, Typed, Writing
<1>3. CASE Unlock
  BY <1>3, QuietGoto DEF Writing, Unlock
<1>4. CASE CheckPid
  BY <1>4, QuietGoto DEF Writing, CheckPid
<1>5. CASE StartDatabase
  BY <1>5, QuietGoto DEF Writing, StartDatabase
<1>6. CASE Spawn
  <2>1. command' = [name |-> command.name, at |-> "pid", env |-> command.env, pass |-> command.pass,
                    pid |-> fresh, count |-> command.count]
    BY <1>6 DEF Spawn, SealInv, Typed, IsCommand
  <2>2. IsCommand(command') /\ command'.at = "pid"
    BY <2>1 DEF SealInv, Typed, IsCommand
  <2>3. UNCHANGED <<vault, passFile>> /\ fresh' \in Nat /\ fresh' > EnvPassphrase
    BY <1>6 DEF Spawn, SealInv, Typed, EnvPassphrase
  <2> QED
    BY <2>2, <2>3, QuietStep DEF Writing
<1>7. CASE WritePid
  BY <1>7, QuietGoto DEF Writing, WritePid
<1>8. CASE AwaitReady
  BY <1>8, QuietGoto DEF Writing, AwaitReady
<1>9. CASE VerifyReady
  BY <1>9, QuietGoto DEF Writing, VerifyReady
<1>10. CASE WriteSetup
  BY <1>10, QuietGoto DEF Writing, WriteSetup
<1>11. CASE Stop
  BY <1>11, QuietGoto DEF Writing, Stop, AfterStop
<1>12. CASE StopDatabase
  BY <1>12, QuietGoto DEF Writing, StopDatabase
<1>13. CASE Probe
  BY <1>13, QuietGoto DEF Writing, Probe, AfterStop
<1>14. CASE Interrupt
  BY <1>14, QuietGoto DEF Writing, Interrupt, files
<1>15. CASE Reboot
  BY <1>15, QuietGoto DEF Writing, Reboot, files
<1> QED
  BY <1>1, <1>2, <1>3, <1>4, <1>5, <1>6, <1>7, <1>8, <1>9, <1>10, <1>11, <1>12, <1>13, <1>14, <1>15

(* The passphrase is chosen: that of the shell, the one in the file, or a  *)
(* new one, and then the file held none, so that no vault needed it.       *)
LEMMA SealPassphrase ==
    ASSUME SealInv, Passphrase
    PROVE  SealInv'
<1> DEFINE p == IF command.env THEN EnvPassphrase ELSE IF passFile # 0 THEN passFile ELSE fresh
<1>1. p \in Nat
  BY DEF SealInv, Typed, EnvPassphrase
<1>2. /\ command' = [command EXCEPT !.pass = p, !.at = "vault"]
      /\ passFile' = IF p = fresh THEN p ELSE passFile
      /\ fresh' = IF p = fresh THEN fresh + 1 ELSE fresh
      /\ UNCHANGED <<vault, pidFile>>
  BY DEF Passphrase
<1>3. command' = [name |-> command.name, at |-> "vault", env |-> command.env, pass |-> p,
                  pid |-> command.pid, count |-> command.count]
  BY <1>2 DEF SealInv, Typed, IsCommand
<1>4. IsCommand(command') /\ command'.at = "vault" /\ command'.pass = p
  BY <1>1, <1>3 DEF IsCommand
<1>5. Typed'
  BY <1>1, <1>2, <1>4 DEF SealInv, Typed, EnvPassphrase
<1>6. p > EnvPassphrase => passFile' = p
  BY <1>2 DEF SealInv, Typed, EnvPassphrase
<1>7. passFile # 0 => passFile' = passFile
  BY <1>2 DEF SealInv, Typed, EnvPassphrase
<1>8. PassphraseOutlivesVault'
  BY <1>2, <1>7 DEF SealInv, Typed, PassphraseOutlivesVault, EnvPassphrase
<1> QED
  BY <1>4, <1>5, <1>6, <1>8 DEF SealInv, PassphraseIsKept, ClearsAfterVault

(* The vault is made, step by step, and sealed with the passphrase chosen. *)
LEMMA SealVault ==
    ASSUME SealInv, MakeVault \/ WriteManifest \/ WriteSecrets \/ WriteBootstrap
    PROVE  SealInv'
<1> USE DEF SealInv, Typed, PassphraseOutlivesVault, PassphraseIsKept, ClearsAfterVault
<1>1. CASE MakeVault
  <2>1. PICK step \in {"unlock", "failed", "manifest"} : Goto(step)
    BY <1>1 DEF MakeVault
  <2>2. IsCommand(command') /\ command'.at = step /\ command'.pass = command.pass
    BY <2>1, GotoType
  <2>3. AtStep("vault") /\ UNCHANGED passFile
    BY <1>1 DEF MakeVault
  <2>4. vault' \in [id : Nat, manifest : BOOLEAN, sealed : Nat, record : BOOLEAN]
    BY <1>1 DEF MakeVault, NoVault
  <2>5. vault'.sealed \in {vault.sealed, 0}
    BY <1>1 DEF MakeVault, NoVault
  <2>6. fresh' \in {fresh, fresh + 1}
    BY <1>1 DEF MakeVault
  <2> QED
    BY <2>2, <2>3, <2>4, <2>5, <2>6 DEF AtStep, EnvPassphrase
<1>2. CASE WriteManifest
  <2>1. IsCommand(command') /\ command'.at = "secrets" /\ command'.pass = command.pass
    BY <1>2, GotoType DEF WriteManifest
  <2>2. /\ vault' \in [id : Nat, manifest : BOOLEAN, sealed : Nat, record : BOOLEAN]
        /\ vault'.sealed = vault.sealed
    BY <1>2 DEF WriteManifest
  <2> QED
    BY <1>2, <2>1, <2>2 DEF WriteManifest, AtStep
<1>3. CASE WriteSecrets
  <2>1. IsCommand(command') /\ command'.at = "unlock"
    BY <1>3, GotoType DEF WriteSecrets
  <2>2. /\ vault' \in [id : Nat, manifest : BOOLEAN, sealed : Nat, record : BOOLEAN]
        /\ vault'.sealed = command.pass
    BY <1>3 DEF WriteSecrets, IsCommand
  <2> QED
    BY <1>3, <2>1, <2>2 DEF WriteSecrets, AtStep
<1>4. CASE WriteBootstrap
  <2>1. IsCommand(command') /\ command'.at = "spawn"
    BY <1>4, GotoType DEF WriteBootstrap
  <2>2. /\ vault' \in [id : Nat, manifest : BOOLEAN, sealed : Nat, record : BOOLEAN]
        /\ vault'.sealed = vault.sealed
    BY <1>4 DEF WriteBootstrap
  <2> QED
    BY <1>4, <2>1, <2>2 DEF WriteBootstrap, AtStep
<1> QED
  BY <1>1, <1>2, <1>3, <1>4

(* A reset removes the vault first; when the state is cleared no vault is  *)
(* left that its passphrase would open.                                    *)
LEMMA SealReset ==
    ASSUME SealInv, RemoveSome \/ RemoveVault \/ ClearSome \/ ClearState
    PROVE  SealInv'
<1> USE DEF SealInv, Typed, PassphraseOutlivesVault, PassphraseIsKept, ClearsAfterVault
<1>1. CASE RemoveSome
  <2>1. CASE vault' = [vault EXCEPT !.sealed = 0]
    BY <1>1, <2>1 DEF RemoveSome, AtStep, EnvPassphrase
  <2>2. CASE vault' = [vault EXCEPT !.manifest = FALSE] \/ vault' = [vault EXCEPT !.record = FALSE]
    <3>1. /\ vault' \in [id : Nat, manifest : BOOLEAN, sealed : Nat, record : BOOLEAN]
          /\ vault'.sealed = vault.sealed
      BY <2>2
    <3> QED
      BY <1>1, <3>1 DEF RemoveSome, AtStep
  <2> QED
    BY <1>1, <2>1, <2>2 DEF RemoveSome
<1>2. CASE RemoveVault
  BY <1>2, GotoType DEF RemoveVault, NoVault, EnvPassphrase
<1>3. CASE ClearSome
  BY <1>3 DEF ClearSome, AtStep, NoVault, EnvPassphrase
<1>4. CASE ClearState
  BY <1>4, GotoType DEF ClearState, AtStep, NoVault, EnvPassphrase
<1> QED
  BY <1>1, <1>2, <1>3, <1>4

(* What the processes do is not about the files. *)
LEMMA SealStutter ==
    ASSUME SealInv, UNCHANGED <<files, command, fresh>>
    PROVE  SealInv'
  BY DEF SealInv, Typed, PassphraseOutlivesVault, PassphraseIsKept, ClearsAfterVault, files

LEMMA SealStep == SealInv /\ [RuntimeNext]_runtimeVars => SealInv'
<1> SUFFICES ASSUME SealInv, [RuntimeNext]_runtimeVars PROVE SealInv'
  OBVIOUS
<1>1. CASE \E name \in DOMAIN FirstStep, env \in BOOLEAN : Begin(name, env)
  BY <1>1, SealBegin
<1>2. CASE Run \/ Interrupt \/ Reboot
  BY <1>2, SealQuiet, SealPassphrase, SealVault, SealReset DEF Run
<1>3. CASE \E n \in nodes : Bind(n) \/ Exit(n)
  BY <1>3, SealStutter DEF Bind, Exit
<1>4. CASE UNCHANGED runtimeVars
  BY <1>4, SealStutter DEF runtimeVars, files
<1> QED
  BY <1>1, <1>2, <1>3, <1>4 DEF RuntimeNext

(* A vault sealed with a generated passphrase can be opened as long as it  *)
(* exists: no interrupted setup, reset or reboot of any number of commands *)
(* loses the only copy of the passphrase.                                  *)
THEOREM PassphraseIsNeverLost == RuntimeSpec => []PassphraseOutlivesVault
<1>1. SealInv => PassphraseOutlivesVault
  BY DEF SealInv
<1> QED
  BY <1>1, SealInit, SealStep, PTL DEF RuntimeSpec

-----------------------------------------------------------------------------
(* A reset that reports success.                                           *)

\* A step of a command that is no reset.
LEMMA NotReset ==
    ASSUME command'.name # "reset", command'.at \notin {"remove", "clear"}
    PROVE  StepsOfReset' /\ ResetIsComplete'
  BY DEF StepsOfReset, ResetIsComplete

(* The commands that set up and verify never come to the steps of a reset. *)
LEMMA ResetQuiet ==
    ASSUME ResetInv,
           \/ Doctor \/ Load \/ Passphrase \/ MakeVault \/ WriteManifest \/ WriteSecrets \/ Unlock
           \/ CheckPid \/ StartDatabase \/ WriteBootstrap \/ Spawn \/ WritePid \/ AwaitReady
           \/ VerifyReady \/ WriteSetup
    PROVE  StepsOfReset' /\ ResetIsComplete'
<1>1. IsCommand(command)
  BY DEF ResetInv, SealInv, Typed
<1>2. command.name # "reset"
  BY DEF ResetInv, StepsOfReset, Ended, AtStep, Doctor, Load, Passphrase, MakeVault, WriteManifest,
         WriteSecrets, Unlock, CheckPid, StartDatabase, WriteBootstrap, Spawn, WritePid, AwaitReady,
         VerifyReady, WriteSetup
<1>3. CASE Load \/ Passphrase \/ Spawn
  <2>1. PICK c \in {[command EXCEPT !.pass = command'.pass, !.at = command'.at],
                    [command EXCEPT !.at = command'.at, !.pid = command'.pid]} : command' = c
    BY <1>1, <1>3 DEF Load, Passphrase, Spawn, IsCommand
  <2>2. command'.name = command.name
    BY <1>1, <2>1 DEF IsCommand
  <2>3. command'.at \in {"failed", "done", "unlock", "vault", "pid"}
    BY <1>1, <1>3 DEF Load, Passphrase, Spawn, IsCommand
  <2> QED
    BY <1>2, <2>2, <2>3, NotReset
<1>4. CASE ~(Load \/ Passphrase \/ Spawn)
  <2>1. PICK step \in {"done", "failed", "timeout", "passphrase", "unlock", "manifest", "secrets",
                       "pidfile", "ready", "database", "bootstrap", "spawn", "listening", "record"} :
            Goto(step)
    BY <1>4 DEF Doctor, MakeVault, WriteManifest, WriteSecrets, Unlock, CheckPid, StartDatabase,
                WriteBootstrap, WritePid, AwaitReady, VerifyReady, WriteSetup
  <2>2. command'.at = step /\ command'.name = command.name
    BY <1>1, <2>1, GotoType
  <2> QED
    BY <1>2, <2>2, NotReset
<1> QED
  BY <1>3, <1>4

(* The steps of stop and reset.  Before the state is cleared nothing is    *)
(* reported; what is cleared before an interruption stays cleared.         *)
LEMMA ResetSteps ==
    ASSUME ResetInv,
           \/ Stop \/ StopDatabase \/ Probe
           \/ RemoveSome \/ RemoveVault \/ ClearSome \/ ClearState
    PROVE  StepsOfReset' /\ ResetIsComplete'
<1>1. IsCommand(command)
  BY DEF ResetInv, SealInv, Typed
<1>2. CASE Stop \/ StopDatabase \/ Probe
  <2>1. PICK step \in {"failed", "dbstop", "probe", AfterStop} : Goto(step)
    BY <1>2 DEF Stop, StopDatabase, Probe
  <2>2. command'.at = step /\ command'.name = command.name
    BY <1>1, <2>1, GotoType
  <2> QED
    BY <2>2 DEF AfterStop, StepsOfReset, ResetIsComplete, Ended
<1>3. CASE RemoveSome \/ ClearSome
  BY <1>3 DEF RemoveSome, ClearSome, AtStep, ResetInv, StepsOfReset, ResetIsComplete
<1>4. CASE RemoveVault
  <2>1. command'.at = "clear" /\ command'.name = command.name
    BY <1>1, <1>4, GotoType DEF RemoveVault
  <2> QED
    BY <1>4, <2>1 DEF RemoveVault, AtStep, ResetInv, StepsOfReset, ResetIsComplete
<1>5. CASE ClearState
  <2>1. command'.at = "done" /\ command'.name = command.name
    BY <1>1, <1>5, GotoType DEF ClearState
  <2> QED
    BY <1>5, <2>1 DEF ClearState, AtStep, ResetInv, SealInv, ClearsAfterVault, StepsOfReset,
                      ResetIsComplete, Ended
<1> QED
  BY <1>2, <1>3, <1>4, <1>5

LEMMA ResetStep == ResetInv /\ [RuntimeNext]_runtimeVars => ResetInv'
<1> SUFFICES ASSUME ResetInv, [RuntimeNext]_runtimeVars PROVE ResetInv'
  OBVIOUS
<1>1. SealInv'
  BY SealStep DEF ResetInv
<1>2. StepsOfReset' /\ ResetIsComplete'
  <2>1. ASSUME NEW name \in DOMAIN FirstStep, NEW env \in BOOLEAN, Begin(name, env)
        PROVE  StepsOfReset' /\ ResetIsComplete'
    <3>1. /\ FirstStep[name] \notin {"remove", "clear", "done"}
          /\ name = "reset" => FirstStep[name] = "stop"
      BY DEF FirstStep
    <3>2. command' = [name |-> name, at |-> FirstStep[name], env |-> env, pass |-> 0, pid |-> 0,
                      count |-> command.count + 1]
      BY <2>1 DEF Begin
    <3> QED
      BY <3>1, <3>2 DEF StepsOfReset, ResetIsComplete
  <2>2. CASE Run
    BY <2>2, ResetQuiet, ResetSteps DEF Run
  <2>3. CASE Interrupt \/ Reboot
    <3>1. command'.at = "interrupted" /\ command'.name = command.name
      BY <2>3, GotoType DEF Interrupt, Reboot, ResetInv, SealInv, Typed
    <3> QED
      BY <3>1 DEF StepsOfReset, ResetIsComplete, Ended
  <2>4. CASE UNCHANGED <<files, command>>
    BY <2>4 DEF files, ResetInv, StepsOfReset, ResetIsComplete
  <2>5. CASE \E n \in nodes : Bind(n) \/ Exit(n)
    BY <2>4, <2>5 DEF Bind, Exit
  <2> QED
    BY <2>1, <2>2, <2>3, <2>4, <2>5 DEF RuntimeNext, runtimeVars, files
<1> QED
  BY <1>1, <1>2 DEF ResetInv

(* A reset that reports success left no vault, passphrase, setup.json or   *)
(* pid file, whatever the commands before it were interrupted at.          *)
THEOREM ResetLeavesNothing == RuntimeSpec => []ResetIsComplete
<1>1. RuntimeInit => ResetInv
  BY SealInit DEF RuntimeInit, ResetInv, StepsOfReset, ResetIsComplete
<1>2. ResetInv => ResetIsComplete
  BY DEF ResetInv
<1> QED
  BY <1>1, <1>2, ResetStep, PTL DEF RuntimeSpec

-----------------------------------------------------------------------------
(* What the other commands report at their end.                            *)

Starter == {"setup", "dev", "verify"}
Stopper == {"stop", "reset"}

SetupSteps == {"doctor", "load", "passphrase", "vault", "manifest", "secrets", "unlock", "pidfile",
               "database", "bootstrap", "spawn", "pid", "listening", "ready", "record"}
StopSteps == {"stop", "dbstop", "probe", "remove", "clear"}

Stopped == command.at \in {"remove", "clear"} \/ (command.at = "done" /\ command.name \in Stopper)

\* Which command takes which steps.
StepsOfCommand ==
    /\ command.at \in SetupSteps => command.name \in Starter
    /\ command.at \in StopSteps => command.name \in Stopper
    /\ command.at = "load" => command.name = "verify"
    /\ command.at \in {"remove", "clear"} => command.name = "reset"

NodesOK == \A n \in nodes :
    /\ n \in [pid : Nat, vault : Nat, at : {"booting", "listening", "signalled", "dying"}]
    /\ n.pid > 0 /\ n.pid < fresh

\* What has been written of the vault, at each step of a setup.
VaultWritten ==
    /\ vault.manifest => vault.id # 0
    /\ vault.id < fresh
    /\ command.at = "manifest" => vault.id # 0
    /\ command.at \in {"secrets", "unlock", "pidfile", "database", "bootstrap", "spawn", "pid",
                       "listening", "ready", "record"} => vault.manifest
    /\ command.at \in {"spawn", "pid", "listening", "ready", "record"} => vault.record

\* A container runs for the vault that is there, alone, or docker failed to
\* stop it; then it goes on when its vault is gone.
DatabaseOK ==
    /\ ~vault.manifest => database \subseteq kept
    /\ database \subseteq kept \cup {vault.id}
    /\ \A d \in database : d \in Nat /\ d # 0 /\ d < fresh
    /\ vault.id \in database => database = {vault.id}
    /\ pidFile # 0 => database = {vault.id}
    /\ command.at \in {"bootstrap", "spawn", "pid", "listening", "ready", "record"} => database = {vault.id}
    /\ command.at \in {"probe", "remove", "clear"} => database \subseteq kept
    /\ command.at = "done" /\ command.name \in Stopper => database \subseteq kept

\* The process a pid is known of, in its file or still in memory.
Started(n) == n.pid = pidFile \/ (command.at = "pid" /\ n.pid = command.pid)

\* The pid file names a process over its running database that no one told to
\* end; every other process was told to, or its pid was lost.
PidOK ==
    /\ pidFile # 0 => vault.manifest /\ vault.record
    /\ command.at \in {"dbstop", "probe", "remove", "clear", "database", "bootstrap", "spawn", "pid"} =>
          pidFile = 0
    /\ command.at = "done" /\ command.name \in Stopper => pidFile = 0
    /\ \A n \in nodes : Started(n) => n.vault \in database /\ n.at \in {"booting", "listening"}
    /\ \A n \in nodes : Started(n) \/ n.pid \in lost \/ n.at \in {"signalled", "dying"}

\* While a command sets up or verifies, what listens goes on listening.  What
\* was told to end and still listens when a stop is over answers no more.
ReadyStays ==
    /\ command.name \in Starter \/ command.at = "stop" => \A n \in nodes : n.at # "signalled"
    /\ command.at \in {"ready", "record"} => Ready
    /\ Stopped => \A n \in nodes : n.at = "signalled" => n.vault \notin database

StateInv == StepsOfCommand /\ NodesOK /\ VaultWritten /\ DatabaseOK /\ PidOK /\ ReadyStays

ReportsInv == StateInv /\ ReadyIsThisVault /\ SetupRefusesForCause

TruthInv == ResetInv /\ ReportsInv

(* A step of a command keeps its name, its passphrase and its pid. *)
LEMMA GotoKeeps ==
    ASSUME IsCommand(command), NEW step, Goto(step)
    PROVE  /\ command'.at = step /\ command'.name = command.name
           /\ command'.pass = command.pass /\ command'.pid = command.pid
<1>1. command' = [name |-> command.name, at |-> step, env |-> command.env, pass |-> command.pass,
                  pid |-> command.pid, count |-> command.count]
  BY DEF IsCommand, Goto
<1> QED
  BY <1>1

(* A step that leaves the processes and the containers alone. *)
LEMMA MovesOn ==
    ASSUME TruthInv, NEW step, command'.at = step, command'.name = command.name,
           command.at # "pid", step \notin {"pid", "stop"},
           UNCHANGED <<nodes, database, kept>>, fresh' \in Nat, fresh' >= fresh, lost \subseteq lost',
           pidFile' = pidFile,
           vault'.manifest => vault'.id # 0, vault'.id < fresh',
           ~vault'.manifest => database \subseteq kept,
           vault'.id = vault.id \/ (vault'.id \notin database /\ database \subseteq kept),
           pidFile # 0 => vault'.manifest /\ vault'.record /\ vault'.id = vault.id,
           step \in SetupSteps => command.name \in Starter,
           step \in StopSteps => command.name \in Stopper,
           step = "load" => command.name = "verify",
           step \in {"remove", "clear"} => command.name = "reset",
           step = "manifest" => vault'.id # 0,
           step \in {"secrets", "unlock", "pidfile", "database", "bootstrap", "spawn",
                     "listening", "ready", "record"} => vault'.manifest,
           step \in {"spawn", "listening", "ready", "record"} => vault'.record,
           step \in {"bootstrap", "spawn", "listening", "ready", "record"} => database = {vault'.id},
           step \in {"probe", "remove", "clear"} => database \subseteq kept /\ pidFile = 0,
           step = "done" /\ command.name \in Stopper => database \subseteq kept /\ pidFile = 0,
           step \in {"remove", "clear"} \/ (step = "done" /\ command.name \in Stopper) =>
              \A n \in nodes : n.at = "signalled" => n.vault \notin database,
           step \in {"dbstop", "database", "bootstrap", "spawn"} => pidFile = 0,
           step \in {"ready", "record"} => Ready,
           step = "done" /\ command.name \in Starter =>
              /\ Ready /\ vault'.manifest
              /\ command.name # "verify" =>
                    vault'.record /\ setupFile'.vault = vault'.id /\ database = {vault'.id},
           step = "failed" /\ command.name \in {"setup", "dev"} =>
              \/ vault'.id # 0 /\ ~vault'.manifest
              \/ vault'.sealed # command'.pass
              \/ database \ {vault'.id} # {}
    PROVE  ReportsInv'
<1> USE DEF TruthInv, ReportsInv, StateInv
<1>1. StepsOfCommand'
  BY DEF StepsOfCommand
<1>2. NodesOK'
  <2>1. fresh \in Nat
    BY DEF ResetInv, SealInv, Typed
  <2>2. ASSUME NEW n \in nodes PROVE n.pid < fresh'
    BY <2>1, <2>2 DEF NodesOK
  <2> QED
    BY <2>2 DEF NodesOK
<1>3. VaultWritten'
  BY DEF VaultWritten
<1>4. DatabaseOK'
  <2>1. fresh \in Nat
    BY DEF ResetInv, SealInv, Typed
  <2>2. ASSUME NEW d \in database PROVE d \in Nat /\ d # 0 /\ d < fresh'
    BY <2>1, <2>2 DEF DatabaseOK
  <2> QED
    BY <2>2 DEF DatabaseOK
<1>5. PidOK'
  BY DEF PidOK, Started
<1>6. ReadyStays'
  BY DEF ReadyStays, Stopped, Ready, Listening
<1>7. ReadyIsThisVault'
  <2> SUFFICES ASSUME step = "done", command.name \in Starter, database \subseteq {vault'.id}
               PROVE  \E n \in nodes : Listening(n) /\ n.vault = vault'.id /\ vault'.id \in database
    BY DEF ReadyIsThisVault, Starter, Listening
  <2>1. PICK n \in nodes : Listening(n) /\ n.vault \in database
    BY DEF Ready
  <2>2. n.vault = vault'.id
    BY <2>1
  <2> QED
    BY <2>1, <2>2
<1>8. SetupRefusesForCause'
  BY DEF SetupRefusesForCause
<1> QED
  BY <1>1, <1>2, <1>3, <1>4, <1>5, <1>6, <1>7, <1>8

\* The parts of the invariant a step reads.
LEMMA InNode ==
    TruthInv => /\ IsCommand(command) /\ fresh \in Nat /\ fresh > EnvPassphrase
                /\ vault \in [id : Nat, manifest : BOOLEAN, sealed : Nat, record : BOOLEAN]
                /\ StepsOfCommand /\ VaultWritten /\ DatabaseOK /\ PidOK /\ ReadyStays
BY DEF TruthInv, ReportsInv, StateInv, ResetInv, SealInv, Typed

(* The steps of setup, dev and verify that start nothing. *)
LEMMA SetupMoves ==
    ASSUME TruthInv, Doctor \/ Load \/ Passphrase \/ Unlock \/ AwaitReady \/ VerifyReady \/ WriteSetup
    PROVE  ReportsInv'
<1> USE DEF StepsOfCommand, VaultWritten, DatabaseOK, PidOK, ReadyStays, Stopped
<1>1. CASE Doctor
  BY <1>1, InNode, GotoKeeps, MovesOn DEF Doctor, AtStep, Healthy, SetupSteps, StopSteps, Starter, Stopper
<1>2. CASE Load
  BY <1>2, InNode, MovesOn DEF Load, AtStep, IsCommand, SetupSteps, StopSteps, Starter, Stopper
<1>3. CASE Passphrase
  BY <1>3, InNode, MovesOn DEF Passphrase, AtStep, IsCommand, SetupSteps, StopSteps, Starter, Stopper
<1>4. CASE Unlock
  BY <1>4, InNode, GotoKeeps, MovesOn DEF Unlock, AtStep, SetupSteps, StopSteps, Starter, Stopper
<1>5. CASE AwaitReady
  BY <1>5, InNode, GotoKeeps, MovesOn DEF AwaitReady, AtStep, SetupSteps, StopSteps, Starter, Stopper
<1>6. CASE VerifyReady
  BY <1>6, InNode, GotoKeeps, MovesOn DEF VerifyReady, AtStep, SetupSteps, StopSteps, Starter, Stopper
<1>7. CASE WriteSetup
  BY <1>7, InNode, GotoKeeps, MovesOn DEF WriteSetup, AtStep, SetupSteps, StopSteps, Starter, Stopper
<1> QED
  BY <1>1, <1>2, <1>3, <1>4, <1>5, <1>6, <1>7

(* The steps that write the vault. *)
LEMMA VaultWrites ==
    ASSUME TruthInv, MakeVault \/ WriteManifest \/ WriteSecrets \/ WriteBootstrap
    PROVE  ReportsInv'
<1> USE DEF StepsOfCommand, VaultWritten, DatabaseOK, PidOK, ReadyStays, Stopped
<1>1. CASE MakeVault
  <2>1. PICK step \in {"unlock", "failed", "manifest"} :
           /\ Goto(step)
           /\ step = "unlock" => vault.manifest
           /\ step = "failed" => ~vault.manifest /\ vault.id # 0
           /\ step = "manifest" => vault.id = 0
    BY <1>1 DEF MakeVault
  <2>2. /\ command'.at = step /\ command'.name = command.name
    BY <2>1, InNode, GotoKeeps
  <2>3. \/ vault.id # 0 /\ vault' = vault /\ fresh' = fresh
        \/ /\ vault.id = 0 /\ vault'.id = fresh /\ ~vault'.manifest
           /\ fresh' = fresh + 1
    BY <1>1, InNode DEF MakeVault, NoVault
  <2>4. /\ fresh' \in Nat /\ fresh' >= fresh /\ fresh # 0 /\ vault'.id < fresh'
    BY <2>3, InNode DEF EnvPassphrase
  <2>5. command.at = "vault" /\ UNCHANGED <<nodes, database, lost, kept, pidFile>>
    BY <1>1 DEF MakeVault, AtStep
  <2>6. CASE vault.id # 0
    BY <2>1, <2>2, <2>3, <2>4, <2>5, <2>6, InNode, MovesOn DEF SetupSteps, StopSteps, Starter, Stopper
  <2>7. CASE vault.id = 0
    <3>1. step = "manifest"
      BY <2>1, <2>7, InNode
    <3>2. ~vault.manifest /\ database \subseteq kept /\ pidFile = 0 /\ vault'.id \notin database
      BY <2>3, <2>7, InNode
    <3> QED
      BY <2>2, <2>3, <2>4, <2>5, <2>7, <3>1, <3>2, InNode, MovesOn DEF SetupSteps, StopSteps, Starter, Stopper
  <2> QED
    BY <2>6, <2>7
<1>2. CASE WriteManifest
  <2>1. command'.at = "secrets" /\ command'.name = command.name
    BY <1>2, InNode, GotoKeeps DEF WriteManifest
  <2>2. vault'.id = vault.id /\ vault'.manifest /\ vault'.record = vault.record
    BY <1>2, InNode DEF WriteManifest
  <2> QED
    BY <1>2, <2>1, <2>2, InNode, MovesOn DEF WriteManifest, AtStep, SetupSteps, StopSteps, Starter, Stopper
<1>3. CASE WriteSecrets
  <2>1. command'.at = "unlock" /\ command'.name = command.name
    BY <1>3, InNode, GotoKeeps DEF WriteSecrets
  <2>2. vault'.id = vault.id /\ vault'.manifest = vault.manifest /\ vault'.record = vault.record
    BY <1>3, InNode DEF WriteSecrets
  <2> QED
    BY <1>3, <2>1, <2>2, InNode, MovesOn DEF WriteSecrets, AtStep, SetupSteps, StopSteps, Starter, Stopper
<1>4. CASE WriteBootstrap
  <2>1. command'.at = "spawn" /\ command'.name = command.name
    BY <1>4, InNode, GotoKeeps DEF WriteBootstrap
  <2>2. vault'.id = vault.id /\ vault'.manifest = vault.manifest /\ vault'.record
    BY <1>4, InNode DEF WriteBootstrap
  <2> QED
    BY <1>4, <2>1, <2>2, InNode, MovesOn DEF WriteBootstrap, AtStep, SetupSteps, StopSteps, Starter, Stopper
<1> QED
  BY <1>1, <1>2, <1>3, <1>4

(* The steps of a reset that remove. *)
LEMMA Removes ==
    ASSUME TruthInv, RemoveSome \/ RemoveVault \/ ClearSome \/ ClearState \/ Probe
    PROVE  ReportsInv'
<1> USE DEF StepsOfCommand, VaultWritten, DatabaseOK, PidOK, ReadyStays, Stopped
<1>1. CASE RemoveSome
  <2>1. /\ vault'.id = vault.id /\ vault'.manifest => vault.manifest
        /\ command' = command /\ command.at = "remove"
    BY <1>1, InNode DEF RemoveSome, AtStep
  <2>2. database \subseteq kept /\ pidFile = 0
    BY <2>1, InNode
  <2> QED
    BY <1>1, <2>1, <2>2, InNode, MovesOn DEF RemoveSome, SetupSteps, StopSteps, Starter, Stopper
<1>2. CASE RemoveVault
  <2>1. command'.at = "clear" /\ command'.name = command.name
    BY <1>2, InNode, GotoKeeps DEF RemoveVault
  <2>2. vault' = NoVault /\ ~vault'.manifest /\ vault'.id = 0
    BY <1>2 DEF RemoveVault, NoVault
  <2>3. /\ database \subseteq kept /\ 0 \notin database /\ pidFile = 0 /\ command.name = "reset"
        /\ \A n \in nodes : n.at = "signalled" => n.vault \notin database
    BY <1>2, InNode DEF RemoveVault, AtStep
  <2>4. fresh \in Nat /\ fresh > 0
    BY InNode DEF EnvPassphrase
  <2> QED
    BY <1>2, <2>1, <2>2, <2>3, <2>4, MovesOn DEF RemoveVault, AtStep, SetupSteps, StopSteps, Starter, Stopper
<1>3. CASE ClearSome
  BY <1>3, InNode, MovesOn DEF ClearSome, AtStep, SetupSteps, StopSteps, Starter, Stopper
<1>4. CASE ClearState
  BY <1>4, InNode, GotoKeeps, MovesOn DEF ClearState, AtStep, SetupSteps, StopSteps, Starter, Stopper
<1>5. CASE Probe
  <2>1. PICK step \in {"failed", "remove", "done"} :
           /\ Goto(step) /\ (step = "remove" <=> step # "failed" /\ command.name = "reset")
           /\ step # "failed" => ~Ready
    BY <1>5 DEF Probe, AfterStop
  <2>2. command'.at = step /\ command'.name = command.name
    BY <2>1, InNode, GotoKeeps
  <2>3. step # "failed" => \A n \in nodes : n.at = "signalled" => n.vault \notin database
    BY <2>1 DEF Ready, Listening
  <2> QED
    BY <1>5, <2>1, <2>2, <2>3, InNode, MovesOn DEF Probe, AtStep, SetupSteps, StopSteps, Starter, Stopper
<1> QED
  BY <1>1, <1>2, <1>3, <1>4, <1>5

(* The container starts over the command's own vault, alone, or is refused *)
(* for one that was not stopped; it stops, or docker fails to stop it.     *)
LEMMA DatabaseMoves ==
    ASSUME TruthInv, StartDatabase \/ StopDatabase
    PROVE  ReportsInv'
<1>1. CASE StartDatabase /\ database \ {vault.id} # {}
  <2>1. /\ command.at = "database" /\ command'.at = "failed" /\ command'.name = command.name
        /\ UNCHANGED <<vault, passFile, setupFile, pidFile, nodes, database, fresh, lost, kept>>
    BY <1>1, InNode, GotoKeeps DEF StartDatabase, AtStep
  <2> QED
    BY <1>1, <2>1, InNode, MovesOn DEF StepsOfCommand, VaultWritten, DatabaseOK, PidOK, SetupSteps,
                                       StopSteps, Starter, Stopper
<1>2. CASE StopDatabase \/ database \ {vault.id} = {}
  <2> USE DEF TruthInv, ReportsInv, StateInv
  <2>1. PICK step \in {"bootstrap", "probe"} :
           /\ command'.at = step /\ command'.name = command.name
           /\ command.at = (IF step = "bootstrap" THEN "database" ELSE "dbstop")
           /\ step = "bootstrap" => database' = {vault.id} /\ kept' = kept
           /\ step = "probe" =>
                 \/ database' = database \ {vault.id} /\ kept' = kept \ {vault.id}
                 \/ database' = database /\ kept' = kept \cup {vault.id}
           /\ UNCHANGED <<vault, passFile, setupFile, pidFile, nodes, fresh, lost>>
    <3>1. CASE StartDatabase
      BY <1>2, <3>1, InNode, GotoKeeps DEF StartDatabase, StopDatabase, AtStep
    <3>2. CASE StopDatabase
      BY <3>2, InNode, GotoKeeps DEF StopDatabase, AtStep
    <3> QED
      BY <3>1, <3>2
  <2>2. StepsOfCommand' /\ NodesOK' /\ VaultWritten'
    BY <2>1 DEF StepsOfCommand, NodesOK, VaultWritten, SetupSteps, StopSteps
  <2>3. pidFile = 0 /\ \A n \in nodes : n.pid # pidFile
    BY <2>1 DEF PidOK, NodesOK
  <2>4. DatabaseOK'
    <3>1. CASE step = "bootstrap"
      <4>1. vault.manifest /\ vault.id # 0 /\ vault.id < fresh /\ vault.id \in Nat
        BY <2>1, <3>1, InNode DEF VaultWritten
      <4> QED
        BY <2>1, <2>3, <3>1, <4>1 DEF DatabaseOK
    <3>2. CASE step = "probe"
      <4>1. database' \subseteq kept' /\ database' \subseteq database
        BY <2>1, <3>2 DEF DatabaseOK
      <4>2. vault.id \in database' => database' = {vault.id}
        BY <2>1, <3>2, <4>1 DEF DatabaseOK
      <4> QED
        BY <2>1, <2>3, <3>2, <4>1, <4>2 DEF DatabaseOK
    <3> QED
      BY <3>1, <3>2
  <2>5. PidOK'
    BY <2>1, <2>3 DEF PidOK, Started
  <2>6. ReadyStays'
    BY <2>1 DEF ReadyStays, Stopped
  <2>7. ReadyIsThisVault' /\ SetupRefusesForCause'
    BY <2>1 DEF ReadyIsThisVault, SetupRefusesForCause
  <2> QED
    BY <2>2, <2>4, <2>5, <2>6, <2>7
<1> QED
  BY <1>1, <1>2

(* The process of the pid file is told to end. *)
LEMMA Signals ==
    ASSUME TruthInv, NEW step, command'.at = step, command'.name = command.name,
           \/ step = "dbstop" /\ command.name \in Stopper
           \/ /\ step = "database" /\ command.name \in Starter /\ vault.manifest
              /\ ~((\E n \in nodes : n.pid = pidFile) /\ Ready),
           command.at # "pid", nodes' = Signalled(pidFile), pidFile' = 0,
           UNCHANGED <<vault, database, fresh, lost, kept>>
    PROVE  ReportsInv'
<1> USE DEF TruthInv, ReportsInv, StateInv
<1>1. StepsOfCommand' /\ VaultWritten' /\ DatabaseOK'
  BY DEF StepsOfCommand, VaultWritten, DatabaseOK, SetupSteps, StopSteps
<1>2. ASSUME NEW m \in nodes'
      PROVE  \E n \in nodes :
                /\ m.pid = n.pid /\ m.vault = n.vault
                /\ m \in [pid : Nat, vault : Nat, at : {"booting", "listening", "signalled", "dying"}]
                /\ IF n.pid = pidFile
                   THEN m.at = (IF n.at = "booting" THEN "dying" ELSE "signalled")
                   ELSE m.at = n.at
  <2>1. PICK n \in nodes :
           m = IF n.pid # pidFile THEN n
               ELSE [n EXCEPT !.at = IF @ = "booting" THEN "dying" ELSE "signalled"]
    BY DEF Signalled
  <2>2. n \in [pid : Nat, vault : Nat, at : {"booting", "listening", "signalled", "dying"}]
    BY DEF NodesOK
  <2> QED
    BY <2>1, <2>2
<1>3. NodesOK'
  <2> SUFFICES ASSUME NEW m \in nodes'
               PROVE  /\ m \in [pid : Nat, vault : Nat, at : {"booting", "listening", "signalled", "dying"}]
                      /\ m.pid > 0 /\ m.pid < fresh
    BY DEF NodesOK
  <2> QED
    BY <1>2 DEF NodesOK
<1>4. PidOK'
  <2>1. ASSUME NEW m \in nodes'
        PROVE  m.pid # 0 /\ (m.pid \in lost \/ m.at \in {"signalled", "dying"})
    <3>1. PICK n \in nodes :
             /\ m.pid = n.pid
             /\ IF n.pid = pidFile
                THEN m.at = (IF n.at = "booting" THEN "dying" ELSE "signalled")
                ELSE m.at = n.at
      BY <1>2
    <3>2. n.pid > 0 /\ n.pid \in Nat
      BY DEF NodesOK
    <3>3. n.pid = pidFile \/ n.pid \in lost \/ n.at \in {"signalled", "dying"}
      BY DEF PidOK, Started
    <3> QED
      BY <3>1, <3>2, <3>3
  <2> QED
    BY <2>1 DEF PidOK, Started
<1>5. ReadyStays'
  <2> SUFFICES ASSUME command.name \in Starter, NEW m \in nodes' PROVE m.at # "signalled"
    BY DEF ReadyStays, Stopped
  <2>1. PICK n \in nodes :
           /\ m.pid = n.pid
           /\ IF n.pid = pidFile
              THEN m.at = (IF n.at = "booting" THEN "dying" ELSE "signalled")
              ELSE m.at = n.at
    BY <1>2
  <2>2. n.at # "signalled"
    BY DEF ReadyStays, Stopped
  <2>3. n.pid = pidFile => n.at = "booting"
    <3> SUFFICES ASSUME n.pid = pidFile, n.at # "booting" PROVE FALSE
      OBVIOUS
    <3>1. n.vault \in database /\ n.at = "listening"
      BY DEF PidOK, Started
    <3>2. Ready
      BY <3>1 DEF Ready, Listening
    <3> QED
      BY <3>2 DEF Starter, Stopper
  <2> QED
    BY <2>1, <2>2, <2>3
<1>6. ReadyIsThisVault' /\ SetupRefusesForCause'
  BY DEF ReadyIsThisVault, SetupRefusesForCause
<1> QED
  BY <1>1, <1>3, <1>4, <1>5, <1>6

LEMMA CheckPidMoves ==
    ASSUME TruthInv, CheckPid PROVE ReportsInv'
<1> USE DEF StepsOfCommand, VaultWritten, DatabaseOK, PidOK, ReadyStays, Stopped
<1> DEFINE alive == pidFile # 0 /\ \E n \in nodes : n.pid = pidFile
<1>1. /\ command.at = "pidfile" /\ command.name \in Starter /\ vault.manifest
      /\ UNCHANGED <<vault, passFile, setupFile, database, fresh, lost, kept>>
  BY InNode DEF CheckPid, AtStep, SetupSteps
<1>2. CASE alive /\ Ready
  <2>1. UNCHANGED <<nodes, pidFile>> /\ command'.at = "ready" /\ command'.name = command.name
    BY <1>2, InNode, GotoKeeps DEF CheckPid
  <2> QED
    BY <1>1, <1>2, <2>1, InNode, MovesOn DEF SetupSteps, StopSteps, Starter, Stopper
<1>3. CASE ~(alive /\ Ready)
  <2>1. /\ nodes' = Signalled(pidFile) /\ pidFile' = 0
        /\ command'.at = "database" /\ command'.name = command.name
    BY <1>3, InNode, GotoKeeps DEF CheckPid
  <2>2. ~((\E n \in nodes : n.pid = pidFile) /\ Ready)
    BY <1>3 DEF TruthInv, ReportsInv, StateInv, NodesOK
  <2> QED
    BY <1>1, <2>1, <2>2, Signals
<1> QED
  BY <1>2, <1>3

LEMMA StopMoves ==
    ASSUME TruthInv, Stop PROVE ReportsInv'
<1> USE DEF StepsOfCommand, VaultWritten, DatabaseOK, PidOK, ReadyStays, Stopped
<1>1. /\ command.at = "stop" /\ command.name \in Stopper
      /\ UNCHANGED <<vault, passFile, setupFile, database, fresh, lost, kept>>
  BY InNode DEF Stop, AtStep, StopSteps
<1>2. CASE ~vault.manifest
  <2>1. UNCHANGED <<nodes, pidFile>> /\ command'.at = AfterStop /\ command'.name = command.name
    BY <1>2, InNode, GotoKeeps DEF Stop
  <2>2. AfterStop \in {"remove", "done"} /\ (AfterStop = "remove" => command.name = "reset")
    BY DEF AfterStop
  <2>3. /\ database \subseteq kept /\ pidFile = 0
        /\ \A n \in nodes : n.at # "signalled"
    BY <1>1, <1>2, InNode
  <2> QED
    BY <1>1, <1>2, <2>1, <2>2, <2>3, InNode, MovesOn DEF SetupSteps, StopSteps, Starter, Stopper
<1>3. CASE vault.manifest /\ ~command.env /\ passFile = 0
  <2>1. UNCHANGED <<nodes, pidFile>> /\ command'.at = "failed" /\ command'.name = command.name
    BY <1>3, InNode, GotoKeeps DEF Stop
  <2> QED
    BY <1>1, <2>1, InNode, MovesOn DEF SetupSteps, StopSteps, Starter, Stopper
<1>4. CASE vault.manifest /\ ~(~command.env /\ passFile = 0)
  <2>1. /\ nodes' = Signalled(pidFile) /\ pidFile' = 0
        /\ command'.at = "dbstop" /\ command'.name = command.name
    BY <1>4, InNode, GotoKeeps DEF Stop
  <2> QED
    BY <1>1, <2>1, Signals
<1> QED
  BY <1>2, <1>3, <1>4

(* A process is started, and its pid written down. *)
LEMMA SpawnMoves ==
    ASSUME TruthInv, Spawn PROVE ReportsInv'
<1> USE DEF TruthInv, ReportsInv, StateInv
<1> DEFINE new == [pid |-> fresh, vault |-> vault.id, at |-> "booting"]
<1>1. /\ command.at = "spawn" /\ nodes' = nodes \cup {new} /\ fresh' = fresh + 1
      /\ UNCHANGED <<vault, passFile, setupFile, pidFile, database, lost, kept>>
  BY DEF Spawn, AtStep
<1>2. command'.at = "pid" /\ command'.name = command.name /\ command'.pid = fresh
  BY InNode DEF Spawn, IsCommand
<1>3. fresh \in Nat /\ fresh > 0 /\ vault.id \in Nat
  BY InNode DEF EnvPassphrase
<1>4. StepsOfCommand' /\ VaultWritten' /\ DatabaseOK'
  <2>1. vault.id < fresh + 1
    BY <1>3 DEF VaultWritten
  <2>2. ASSUME NEW d \in database PROVE d \in Nat /\ d # 0 /\ d < fresh + 1
    BY <1>3, <2>2 DEF DatabaseOK
  <2> QED
    BY <1>1, <1>2, <2>1, <2>2 DEF StepsOfCommand, VaultWritten, DatabaseOK, SetupSteps, StopSteps
<1>5. NodesOK'
  <2>1. ASSUME NEW n \in nodes PROVE n.pid < fresh + 1
    BY <1>3, <2>1 DEF NodesOK
  <2>2. /\ new \in [pid : Nat, vault : Nat, at : {"booting", "listening", "signalled", "dying"}]
        /\ new.pid > 0 /\ new.pid < fresh + 1
    BY <1>3
  <2> HIDE DEF new
  <2> QED
    BY <1>1, <2>1, <2>2 DEF NodesOK
<1>6. PidOK'
  <2>1. pidFile = 0 /\ vault.id \in database
    BY <1>1 DEF PidOK, DatabaseOK
  <2>2. ASSUME NEW n \in nodes
        PROVE  n.pid # 0 /\ n.pid # fresh /\ (n.pid \in lost \/ n.at \in {"signalled", "dying"})
    BY <1>1, <1>3, <2>1 DEF NodesOK, PidOK, Started
  <2>3. new.pid = fresh /\ new.vault = vault.id /\ new.at = "booting"
    OBVIOUS
  <2> HIDE DEF new
  <2> QED
    BY <1>1, <1>2, <2>1, <2>2, <2>3 DEF PidOK, Started
<1>7. ReadyStays'
  BY <1>1, <1>2 DEF ReadyStays, Stopped
<1>8. ReadyIsThisVault' /\ SetupRefusesForCause'
  BY <1>2 DEF ReadyIsThisVault, SetupRefusesForCause
<1> QED
  BY <1>4, <1>5, <1>6, <1>7, <1>8

LEMMA WritePidMoves ==
    ASSUME TruthInv, WritePid PROVE ReportsInv'
<1> USE DEF TruthInv, ReportsInv, StateInv
<1>1. /\ command.at = "pid" /\ pidFile' = command.pid
      /\ UNCHANGED <<vault, passFile, setupFile, nodes, database, fresh, lost, kept>>
  BY DEF WritePid, AtStep
<1>2. command'.at = "listening" /\ command'.name = command.name
  BY InNode, GotoKeeps DEF WritePid
<1>3. StepsOfCommand' /\ VaultWritten' /\ DatabaseOK' /\ NodesOK'
  BY <1>1, <1>2 DEF StepsOfCommand, VaultWritten, DatabaseOK, NodesOK, SetupSteps, StopSteps
<1>4. PidOK'
  <2>1. vault.manifest /\ vault.record /\ pidFile = 0
    BY <1>1 DEF VaultWritten, PidOK
  <2>2. ASSUME NEW n \in nodes PROVE n.pid # pidFile
    BY <2>1 DEF NodesOK
  <2> QED
    BY <1>1, <1>2, <2>1, <2>2 DEF PidOK, Started
<1>5. ReadyStays'
  BY <1>1, <1>2 DEF ReadyStays, Stopped
<1>6. ReadyIsThisVault' /\ SetupRefusesForCause'
  BY <1>2 DEF ReadyIsThisVault, SetupRefusesForCause
<1> QED
  BY <1>3, <1>4, <1>5, <1>6

(* A command is interrupted; what it had started and not written down is   *)
(* lost from then on.                                                      *)
LEMMA InterruptMoves ==
    ASSUME TruthInv, Interrupt \/ Reboot PROVE ReportsInv'
<1> USE DEF TruthInv, ReportsInv, StateInv
<1>1. /\ command'.at = "interrupted" /\ command'.name = command.name
      /\ UNCHANGED <<vault, passFile, setupFile, pidFile, database, fresh, kept>>
  BY InNode, GotoKeeps DEF Interrupt, Reboot, files
<1>2. StepsOfCommand' /\ VaultWritten' /\ DatabaseOK'
  BY <1>1 DEF StepsOfCommand, VaultWritten, DatabaseOK, SetupSteps, StopSteps
<1>3. NodesOK'
  BY <1>1 DEF NodesOK, Interrupt, Reboot
<1>4. PidOK'
  <2>1. CASE Interrupt
    <3>1. /\ nodes' = nodes /\ lost \subseteq lost'
          /\ command.at = "pid" => command.pid \in lost'
      BY <2>1 DEF Interrupt, AtStep
    <3> QED
      BY <1>1, <3>1 DEF PidOK, Started
  <2>2. CASE Reboot
    BY <1>1, <2>2 DEF PidOK, Reboot
  <2> QED
    BY <2>1, <2>2
<1>5. ReadyStays'
  BY <1>1 DEF ReadyStays, Stopped, Interrupt, Reboot
<1>6. ReadyIsThisVault' /\ SetupRefusesForCause'
  BY <1>1 DEF ReadyIsThisVault, SetupRefusesForCause
<1> QED
  BY <1>2, <1>3, <1>4, <1>5, <1>6

LEMMA BeginMoves ==
    ASSUME TruthInv, NEW name \in DOMAIN FirstStep, NEW env \in BOOLEAN, Begin(name, env)
    PROVE  ReportsInv'
<1> USE DEF TruthInv, ReportsInv, StateInv
<1>1. /\ command'.at = FirstStep[name] /\ command'.name = name
      /\ command.at \in Ended
      /\ \A n \in nodes : n.at \notin {"signalled", "dying"}
      /\ UNCHANGED <<vault, passFile, setupFile, pidFile, nodes, database, fresh, lost, kept>>
  BY DEF Begin
<1>2. \/ name \in {"setup", "dev"} /\ FirstStep[name] \in {"passphrase", "doctor"}
      \/ name = "verify" /\ FirstStep[name] = "load"
      \/ name \in Stopper /\ FirstStep[name] = "stop"
  BY DEF FirstStep, Stopper
<1>3. StepsOfCommand' /\ VaultWritten' /\ DatabaseOK' /\ NodesOK'
  BY <1>1, <1>2 DEF StepsOfCommand, VaultWritten, DatabaseOK, NodesOK, SetupSteps, StopSteps,
                    Starter, Stopper
<1>4. PidOK'
  BY <1>1, <1>2 DEF PidOK, Started, Ended
<1>5. ReadyStays'
  BY <1>1, <1>2 DEF ReadyStays, Stopped
<1>6. ReadyIsThisVault' /\ SetupRefusesForCause'
  BY <1>1, <1>2 DEF ReadyIsThisVault, SetupRefusesForCause
<1> QED
  BY <1>3, <1>4, <1>5, <1>6

(* Processes come to listen, or are gone; one that listens and was not told *)
(* to end stays.                                                            *)
LEMMA ProcessesMove ==
    ASSUME TruthInv, NEW n \in nodes, Bind(n) \/ Exit(n) PROVE ReportsInv'
<1> USE DEF TruthInv, ReportsInv, StateInv
<1>1. UNCHANGED <<vault, passFile, setupFile, pidFile, database, command, fresh, lost, kept>>
  BY DEF Bind, Exit, files
<1>2. ASSUME NEW m \in nodes', m \notin nodes
      PROVE  n.at = "booting" /\ m = [n EXCEPT !.at = "listening"]
  BY <1>2 DEF Bind, Exit
<1>3. n \in [pid : Nat, vault : Nat, at : {"booting", "listening", "signalled", "dying"}]
  BY DEF NodesOK
<1>4. ASSUME NEW m \in nodes', m \notin nodes
      PROVE  /\ n.at = "booting" /\ m.pid = n.pid /\ m.vault = n.vault /\ m.at = "listening"
             /\ m \in [pid : Nat, vault : Nat, at : {"booting", "listening", "signalled", "dying"}]
  BY <1>2, <1>3, <1>4
<1>5. \A m \in nodes : m.at = "listening" => m \in nodes'
  BY DEF Bind, Exit
<1>6. StepsOfCommand' /\ VaultWritten' /\ DatabaseOK'
  BY <1>1 DEF StepsOfCommand, VaultWritten, DatabaseOK
<1>7. NodesOK'
  <2> SUFFICES ASSUME NEW m \in nodes'
               PROVE  /\ m \in [pid : Nat, vault : Nat, at : {"booting", "listening", "signalled", "dying"}]
                      /\ m.pid > 0 /\ m.pid < fresh
    BY <1>1 DEF NodesOK
  <2> QED
    BY <1>4 DEF NodesOK
<1>8. PidOK'
  <2> SUFFICES ASSUME NEW m \in nodes'
               PROVE  /\ Started(m) => m.vault \in database /\ m.at \in {"booting", "listening"}
                      /\ Started(m) \/ m.pid \in lost \/ m.at \in {"signalled", "dying"}
    BY <1>1 DEF PidOK, Started
  <2> QED
    BY <1>4 DEF PidOK, Started
<1>9. ASSUME command.name \in Starter, Ready PROVE Ready'
  <2>1. PICK m \in nodes : Listening(m) /\ m.vault \in database
    BY <1>9 DEF Ready
  <2>2. m.at = "listening" /\ m \in nodes'
    BY <1>5, <1>9, <2>1 DEF ReadyStays, Listening
  <2> QED
    BY <1>1, <2>1, <2>2 DEF Ready, Listening
<1>10. ReadyStays'
  <2>1. command.at \in {"ready", "record"} => command.name \in Starter
    BY DEF StepsOfCommand, SetupSteps
  <2> QED
    BY <1>1, <1>4, <1>9, <2>1 DEF ReadyStays, Stopped
<1>11. ReadyIsThisVault'
  <2> SUFFICES ASSUME command.at = "done", command.name \in Starter,
                      ~(command.name = "verify" /\ database \ {vault.id} # {})
               PROVE  \E m \in nodes' : Listening(m) /\ m.vault = vault.id /\ vault.id \in database
    BY <1>1 DEF ReadyIsThisVault, Starter, Listening
  <2>1. PICK m \in nodes : Listening(m) /\ m.vault = vault.id /\ vault.id \in database
    BY DEF ReadyIsThisVault, Starter
  <2>2. m \in nodes'
    BY <1>5, <2>1 DEF ReadyStays, Listening
  <2> QED
    BY <2>1, <2>2
<1>12. SetupRefusesForCause'
  BY <1>1 DEF SetupRefusesForCause
<1> QED
  BY <1>6, <1>7, <1>8, <1>10, <1>11, <1>12

LEMMA TruthStep == TruthInv /\ [RuntimeNext]_runtimeVars => TruthInv'
<1> SUFFICES ASSUME TruthInv, [RuntimeNext]_runtimeVars PROVE ReportsInv'
  BY ResetStep DEF TruthInv
<1>1. ASSUME NEW name \in DOMAIN FirstStep, NEW env \in BOOLEAN, Begin(name, env)
      PROVE  ReportsInv'
  BY <1>1, BeginMoves
<1>2. CASE Run
  BY <1>2, SetupMoves, VaultWrites, Removes, DatabaseMoves, CheckPidMoves, StopMoves, SpawnMoves,
     WritePidMoves DEF Run
<1>3. CASE Interrupt \/ Reboot
  BY <1>3, InterruptMoves
<1>4. ASSUME NEW n \in nodes, Bind(n) \/ Exit(n) PROVE ReportsInv'
  BY <1>4, ProcessesMove
<1>5. CASE UNCHANGED runtimeVars
  <2> USE <1>5 DEF runtimeVars, TruthInv, ReportsInv, StateInv
  <2>1. StepsOfCommand' /\ NodesOK' /\ VaultWritten' /\ DatabaseOK'
    BY DEF StepsOfCommand, NodesOK, VaultWritten, DatabaseOK
  <2>2. PidOK' /\ ReadyStays'
    BY DEF PidOK, Started, ReadyStays, Stopped, Ready, Listening
  <2>3. ReadyIsThisVault' /\ SetupRefusesForCause'
    BY DEF ReadyIsThisVault, Listening, SetupRefusesForCause
  <2> QED
    BY <2>1, <2>2, <2>3
<1> QED
  BY <1>1, <1>2, <1>3, <1>4, <1>5 DEF RuntimeNext

LEMMA TruthInit == RuntimeInit => TruthInv
<1> SUFFICES ASSUME RuntimeInit PROVE TruthInv
  OBVIOUS
<1>1. ResetInv
  BY SealInit DEF RuntimeInit, ResetInv, StepsOfReset, ResetIsComplete
<1>2. StateInv
  BY DEF RuntimeInit, StateInv, StepsOfCommand, NodesOK, VaultWritten, DatabaseOK, PidOK, ReadyStays, Stopped,
         SetupSteps, StopSteps, Starter, Stopper, NoVault
<1>3. ReadyIsThisVault /\ SetupRefusesForCause
  BY DEF RuntimeInit, ReadyIsThisVault, SetupRefusesForCause
<1> QED
  BY <1>1, <1>2, <1>3 DEF TruthInv, ReportsInv

(* What a command reports at its end is so, whatever commands ran before   *)
(* it and whatever they were interrupted at: a setup, dev or verify leaves *)
(* a node of this vault listening over its own database (a verify, unless  *)
(* the database of an earlier vault was never stopped); a stop leaves no   *)
(* process that any command could still find, and no database but one that *)
(* docker failed to stop; a reset leaves no file; and a setup refuses only *)
(* over a half made vault, for another passphrase, or for such a database. *)
THEOREM ReportsAreTrue == RuntimeSpec => []CommandsTellTheTruth
<1>1. TruthInv => CommandsTellTheTruth
  <2> SUFFICES ASSUME TruthInv PROVE CommandsTellTheTruth
    OBVIOUS
  <2>1. ReadyIsThisVault /\ SetupRefusesForCause /\ ResetIsComplete
    BY DEF TruthInv, ReportsInv, ResetInv
  <2>2. StopEndsWhatItKnows
    <3> SUFFICES ASSUME command.at = "done", command.name \in Stopper
                 PROVE  /\ database \subseteq kept
                        /\ \A n \in nodes : n.at \in {"signalled", "dying"} \/ n.pid \in lost
                        /\ \A n \in nodes : Listening(n) /\ n.vault \in database => n.pid \in lost
      BY DEF StopEndsWhatItKnows, Stopper
    <3> USE DEF TruthInv, ReportsInv, StateInv
    <3>1. database \subseteq kept /\ pidFile = 0
      BY DEF DatabaseOK, PidOK
    <3>2. ASSUME NEW n \in nodes PROVE n.at \in {"signalled", "dying"} \/ n.pid \in lost
      BY <3>1 DEF NodesOK, PidOK, Started
    <3>3. ASSUME NEW n \in nodes, Listening(n), n.vault \in database PROVE n.pid \in lost
      <4>1. n.at # "signalled"
        BY <3>3 DEF ReadyStays, Stopped
      <4> QED
        BY <3>2, <3>3, <4>1 DEF Listening
    <3> QED
      BY <3>1, <3>2, <3>3
  <2> QED
    BY <2>1, <2>2 DEF CommandsTellTheTruth
<1> QED
  BY <1>1, TruthInit, TruthStep, PTL DEF RuntimeSpec
=============================================================================

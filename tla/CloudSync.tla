------------------------------ MODULE CloudSync ------------------------------
(***************************************************************************)
(* The Cloud Sync replication engine of one Vault                          *)
(* (packages/cloud-sync/src/engine.ts), driven by the controller of the    *)
(* Local Node (apps/local-node/src/cloud-sync.ts) against the relay's log. *)
(*                                                                         *)
(* A device has one state file.  An engine is one process that loaded it   *)
(* (the Desktop, or one CLI command); a handler is one call running on an  *)
(* engine (an IPC call of the Desktop).  With one engine per device and    *)
(* one handler per engine the system is used sequentially; with more, the  *)
(* processes share the state file and the handlers share the engine, which *)
(* the code neither locks nor queues.                                      *)
(*                                                                         *)
(* An engine is a JavaScript object: between two awaits a handler runs to  *)
(* completion.  The two loops in such a stretch (applying a page, and the  *)
(* replay of the constructor) take one step per record; `todo' and         *)
(* `replay' hold what they still have to do, and until both are empty no   *)
(* other handler of the engine moves.                                      *)
(***************************************************************************)
EXTENDS VersionVector, Sequences, FiniteSets

CONSTANTS
    Engines,         \* processes that load the state file of a device
    Handlers,        \* calls that may be in progress on an engine
    DeviceOf,        \* [Engines -> Devices]
    EngineOf,        \* [Handlers -> Engines]
    Entities,        \* logical ids a user journals mutations for
    IdAbove(_, _),   \* record_id of the first sorts after the second's (HMAC)
    Ops,             \* operations a run lets the users call
    PageLimit,       \* records per pull (200)
    BatchLimit,      \* envelopes the relay takes per push (500)
    DiskFails,       \* whether writing and reading a state file may fail
    MaxWrites,       \* bound: mutations made in one behaviour
    MaxFaults,       \* bound: failed calls and process exits in one behaviour
    NoEnvelope       \* the absent envelope

ASSUME CloudSyncAssumption ==
    /\ DeviceOf \in [Engines -> Devices]
    /\ EngineOf \in [Handlers -> Engines]
    /\ PageLimit \in Nat \ {0}
    /\ BatchLimit \in Nat \ {0}
    /\ DiskFails \in BOOLEAN
    /\ MaxWrites \in Nat
    /\ MaxFaults \in Nat

VARIABLES
    engine,    \* [Engines -> the fields of CloudSyncEngine]
    task,      \* [Handlers -> where the call is, and what it holds across awaits]
    disk,      \* [Devices -> the SyncPersistence in the state file]
    log,       \* the relay's records, in sequence order: sequence n is log[n]
    storing,   \* envelopes of the push the relay is in the middle of
    stray,     \* pushes whose caller gave up while the request was on its way
    writes,    \* number of mutations so far (numbers the envelopes)
    acked,     \* ghost: envelopes whose journal call has returned
    faults     \* number of failed calls and exits so far

vars == <<engine, task, disk, log, storing, stray, writes, acked, faults>>

-----------------------------------------------------------------------------
\* Envelopes.  `nr' stands for the payload: it tells any two mutations apart.
\* Since an envelope enters a journal when it is created, `nr' is also the
\* order of every journal, which can therefore be a set.

\* The entity of a remote backup is random, so no other mutation has it.
BackupEntity(n) == <<"backup", n>>

ASSUME BackupAssumption == \A n \in 1..MaxWrites : BackupEntity(n) \notin Entities

AnyEntity == Entities \cup {BackupEntity(n) : n \in 1..MaxWrites}

Envelope == [device: Devices, entity: AnyEntity, counter: Nat,
             vector: Vector, nr: Nat]

ASSUME NoEnvelopeAssumption == NoEnvelope \notin Envelope

\* encryptRecord: the record id is an HMAC of device, counter and entity.
Id(x) == <<x.device, x.counter, x.entity>>

Ids(S) == {Id(x) : x \in S}

Members(seq) == {seq[i] : i \in 1..Len(seq)}

\* Seeded fault: a batch, or a journal, is taken from its end.
Oldest_Reversed(S) == CHOOSE x \in S : \A y \in S : x.nr >= y.nr

\* The envelope of a journal or of a batch that comes first.
Oldest(S) == CHOOSE x \in S : \A y \in S : x.nr <= y.nr

NoMaterial == [current   |-> [e \in AnyEntity |-> NoEnvelope],
               conflicts |-> [e \in AnyEntity |-> {}]]

\* SyncPersistence, chunks apart.  `shown' is a ghost: the materialization at
\* the time of writing, which the code does not store but rebuilds.
FreshState == [counter |-> 0, cursor |-> 0, paused |-> FALSE,
               journal |-> {}, sent |-> {}, records |-> <<>>,
               shown |-> NoMaterial]

-----------------------------------------------------------------------------
\* The engine

\* Seeded fault: a restart takes everything in the journal for sent.
Constructed_JournalSent(p) ==
    [up |-> TRUE, counter |-> p.counter, cursor |-> p.cursor,
     paused |-> p.paused, journal |-> p.journal, sent |-> Ids(p.journal),
     records |-> <<>>, current |-> NoMaterial.current,
     conflicts |-> NoMaterial.conflicts,
     todo |-> p.records, replay |-> p.journal]

\* The constructor up to its two replay loops, which `todo' and `replay' hold.
Constructed(p) ==
    [up |-> TRUE, counter |-> p.counter, cursor |-> p.cursor,
     paused |-> p.paused, journal |-> p.journal, sent |-> p.sent,
     records |-> <<>>, current |-> NoMaterial.current,
     conflicts |-> NoMaterial.conflicts,
     todo |-> p.records, replay |-> p.journal]

Down == [Constructed(FreshState) EXCEPT !.up = FALSE]

\* persistence()
Persistence(s) ==
    [counter |-> s.counter, cursor |-> s.cursor, paused |-> s.paused,
     journal |-> s.journal, sent |-> s.sent, records |-> s.records,
     shown |-> [current |-> s.current, conflicts |-> s.conflicts]]

\* The set `applied': apply() adds to it and to recordLog in the same place.
Applied(s) == Ids(Members(s.records))

\* Seeded faults: ids decide although one revision has seen the other; the
\* revision that arrives last is shown.
Replaces_ById(x, c) == c = NoEnvelope \/ IdAbove(x, c)

Replaces_LastArrival(x, c) ==
    c = NoEnvelope \/ CompareVectors(x.vector, c.vector) # "equal"

\* deterministicWinner and the two outcomes that replace the current envelope.
Replaces(x, c) ==
    \/ c = NoEnvelope
    \/ CompareVectors(x.vector, c.vector) = "after"
    \/ CompareVectors(x.vector, c.vector) = "concurrent" /\ IdAbove(x, c)

\* Seeded fault: the history keeps what was replaced, not what arrived and lost.
Losers_ArrivalForgotten(x, c) ==
    IF c # NoEnvelope /\ CompareVectors(x.vector, c.vector) = "concurrent"
       /\ IdAbove(x, c)
    THEN {c} ELSE {}

\* The revision a concurrent pair leaves in the conflict history.
Losers(x, c) ==
    IF c # NoEnvelope /\ CompareVectors(x.vector, c.vector) = "concurrent"
    THEN {IF IdAbove(x, c) THEN c ELSE x}
    ELSE {}

\* apply(envelope) on the engine s of device d.
Apply(d, s, x) ==
    IF Id(x) \in Applied(s) THEN s ELSE
    LET c == s.current[x.entity] IN
    [s EXCEPT !.records = Append(@, x),
              !.counter = Larger(@, x.vector[d]),
              !.current[x.entity] = IF Replaces(x, c) THEN x ELSE c,
              !.conflicts[x.entity] = @ \cup Losers(x, c)]

\* Seeded fault: the counter comes from the current revision alone.
NewEnvelope_CounterOfBase(d, s, e) ==
    LET base == IF s.current[e] = NoEnvelope THEN ZeroVector
                ELSE s.current[e].vector
        n    == base[d] + 1
    IN  [device |-> d, entity |-> e, counter |-> n,
         vector |-> [base EXCEPT ![d] = n], nr |-> writes + 1]

\* The envelope mutate(entity, payload) builds on the current revision.
NewEnvelope(d, s, e) ==
    LET base == IF s.current[e] = NoEnvelope THEN ZeroVector
                ELSE s.current[e].vector
        n    == Larger(s.counter, base[d]) + 1
    IN  [device |-> d, entity |-> e, counter |-> n,
         vector |-> [base EXCEPT ![d] = n], nr |-> writes + 1]

\* Seeded fault: the mutation is applied without entering the journal.
Mutate_NotJournaled(d, s, x) == Apply(d, [s EXCEPT !.counter = x.counter], x)

\* mutate(): count, journal, apply.
Mutate(d, s, x) ==
    Apply(d, [s EXCEPT !.counter = x.counter, !.journal = @ \cup {x}], x)

-----------------------------------------------------------------------------
\* Handlers.  `stage' is the await the call is at:
\*   chunks   uploading missing chunks          push    push on its way
\*   pushed   the relay took the push           pull    pull on its way
\*   page     the page is on its way back       reset   reset call on its way
\*   persist  writing the configuration file    write   writing the state file
\* `then' is what the controller does after persisting: reset() goes on to sync().

Idle == [stage |-> "idle", batch |-> {}, after |-> 0, page |-> <<>>,
         saved |-> FreshState, mine |-> {}, then |-> "return"]

At(h, stage) == task[h].stage = stage

\* No handler of the engine is inside a synchronous stretch.
Free(g) == engine[g].up /\ engine[g].todo = <<>> /\ engine[g].replay = {}

\* The call h may begin, or resume from its await.
CanStart(h, op) == At(h, "idle") /\ Free(EngineOf[h]) /\ op \in Ops
CanResume(h, stage) == At(h, stage) /\ Free(EngineOf[h])

\* The stage at which engine.sync() leaves its first synchronous stretch.
SyncEntry(s) == IF s.paused THEN "persist" ELSE "chunks"

Init ==
    /\ engine = [g \in Engines |-> Down]
    /\ task = [h \in Handlers |-> Idle]
    /\ disk = [d \in Devices |-> FreshState]
    /\ log = <<>>
    /\ storing = {}
    /\ stray = {}
    /\ writes = 0
    /\ acked = {}
    /\ faults = 0

relayVars == <<log, storing, stray>>
ghostVars == <<writes, acked, faults>>

\* What load() reads: an error is caught, and passes for a file never written.
Readings(d) == IF DiskFails THEN {disk[d], FreshState} ELSE {disk[d]}

\* LocalCloudSyncController.load: read the state file, build the engine.
Load(g) ==
    /\ ~engine[g].up
    /\ \E p \in Readings(DeviceOf[g]) : engine' = [engine EXCEPT ![g] = Constructed(p)]
    /\ UNCHANGED <<task, disk, relayVars, ghostVars>>

\* One round of the constructor's first loop, or of the loop over a page.
ApplyNext(g) ==
    /\ engine[g].todo # <<>>
    /\ LET s == engine[g] IN
       engine' = [engine EXCEPT ![g] =
                    [Apply(DeviceOf[g], s, Head(s.todo)) EXCEPT !.todo = Tail(@)]]
    /\ UNCHANGED <<task, disk, relayVars, ghostVars>>

\* Seeded fault: the journal is replayed without waiting for the records.
ReplayNext_AnyTime(g) ==
    /\ engine[g].replay # {}
    /\ LET s == engine[g]
           x == Oldest(s.replay)
       IN engine' = [engine EXCEPT ![g] =
                       [Apply(DeviceOf[g], s, x) EXCEPT !.replay = @ \ {x}]]
    /\ UNCHANGED <<task, disk, relayVars, ghostVars>>

\* One round of the constructor's second loop.
ReplayNext(g) ==
    /\ engine[g].todo = <<>>
    /\ engine[g].replay # {}
    /\ LET s == engine[g]
           x == Oldest(s.replay)
       IN engine' = [engine EXCEPT ![g] =
                       [Apply(DeviceOf[g], s, x) EXCEPT !.replay = @ \ {x}]]
    /\ UNCHANGED <<task, disk, relayVars, ghostVars>>

\* journal(): put, then persist.
Journal(h, e) ==
    LET g == EngineOf[h]
        x == NewEnvelope(DeviceOf[g], engine[g], e)
    IN  /\ CanStart(h, "journal")
        /\ writes < MaxWrites
        /\ writes' = writes + 1
        /\ engine' = [engine EXCEPT ![g] = Mutate(DeviceOf[g], @, x)]
        /\ task' = [task EXCEPT ![h] =
                      [Idle EXCEPT !.stage = "persist", !.mine = {x}]]
        /\ UNCHANGED <<disk, relayVars, acked, faults>>

\* backup(): createRemoteBackup mutates a fresh entity, then sync().
Backup(h) ==
    LET g == EngineOf[h]
        x == NewEnvelope(DeviceOf[g], engine[g], BackupEntity(writes + 1))
    IN  /\ CanStart(h, "backup")
        /\ writes < MaxWrites
        /\ writes' = writes + 1
        /\ engine' = [engine EXCEPT ![g] = Mutate(DeviceOf[g], @, x)]
        /\ task' = [task EXCEPT ![h] =
                      [Idle EXCEPT !.stage = SyncEntry(engine[g])]]
        /\ UNCHANGED <<disk, relayVars, acked, faults>>

\* pause(value): set the flag, persist.
Pause(h, value) ==
    LET g == EngineOf[h] IN
    /\ CanStart(h, "pause")
    /\ engine' = [engine EXCEPT ![g].paused = value]
    /\ task' = [task EXCEPT ![h] = [Idle EXCEPT !.stage = "persist"]]
    /\ UNCHANGED <<disk, relayVars, ghostVars>>

\* sync() of the controller up to the first await of engine.sync().
Sync(h) ==
    /\ CanStart(h, "sync")
    /\ task' = [task EXCEPT ![h] =
                  [Idle EXCEPT !.stage = SyncEntry(engine[EngineOf[h]])]]
    /\ UNCHANGED <<engine, disk, relayVars, ghostVars>>

\* reset() up to the relay call.
Reset(h) ==
    /\ CanStart(h, "reset")
    /\ task' = [task EXCEPT ![h] = [Idle EXCEPT !.stage = "reset"]]
    /\ UNCHANGED <<engine, disk, relayVars, ghostVars>>

\* Seeded faults: a reset forgets the cursor, drops the journal, or restarts
\* the counter.
Forgotten_NotCursor(s) ==
    [s EXCEPT !.sent = {}, !.records = <<>>, !.current = NoMaterial.current,
              !.conflicts = NoMaterial.conflicts]

Forgotten_JournalToo(s) ==
    [s EXCEPT !.cursor = 0, !.sent = {}, !.records = <<>>, !.journal = {},
              !.current = NoMaterial.current,
              !.conflicts = NoMaterial.conflicts]

Forgotten_CounterToo(s) ==
    [s EXCEPT !.cursor = 0, !.sent = {}, !.records = <<>>, !.counter = 0,
              !.current = NoMaterial.current,
              !.conflicts = NoMaterial.conflicts]

\* What a reset drops: whatever was synchronized, but not the journal, the
\* counter or the cached chunks.
Forgotten(s) ==
    [s EXCEPT !.cursor = 0, !.sent = {}, !.records = <<>>,
              !.current = NoMaterial.current,
              !.conflicts = NoMaterial.conflicts]

\* The relay has authenticated the reset.
ResetDone(h) ==
    LET g == EngineOf[h] IN
    /\ CanResume(h, "reset")
    /\ engine' = [engine EXCEPT ![g] = Forgotten(@)]
    /\ task' = [task EXCEPT ![h] =
                  [Idle EXCEPT !.stage = "persist", !.then = "sync"]]
    /\ UNCHANGED <<disk, relayVars, ghostVars>>

\* Seeded fault: a sync with nothing to push has nothing to do.
ChunksUploaded_NoPull(h) ==
    LET s       == engine[EngineOf[h]]
        pending == {x \in s.journal : Id(x) \notin s.sent}
    IN  /\ CanResume(h, "chunks")
        /\ task' = [task EXCEPT ![h] =
             IF pending # {}
             THEN [@ EXCEPT !.stage = "push", !.batch = pending]
             ELSE [Idle EXCEPT !.stage = "persist"]]
        /\ UNCHANGED <<engine, disk, relayVars, ghostVars>>

\* All chunks are on the relay: push what was not sent, or go on to pull.
ChunksUploaded(h) ==
    LET s       == engine[EngineOf[h]]
        pending == {x \in s.journal : Id(x) \notin s.sent}
    IN  /\ CanResume(h, "chunks")
        /\ task' = [task EXCEPT ![h] =
             IF pending # {}
             THEN [@ EXCEPT !.stage = "push", !.batch = pending]
             ELSE [@ EXCEPT !.stage = "pull", !.after = s.cursor]]
        /\ UNCHANGED <<engine, disk, relayVars, ghostVars>>

\* The relay refuses a batch over its limit; the error ends sync().
PushRefused(h) ==
    /\ CanResume(h, "push")
    /\ Cardinality(task[h].batch) > BatchLimit
    /\ task' = [task EXCEPT ![h] = Idle]
    /\ UNCHANGED <<engine, disk, relayVars, ghostVars>>

\* The relay begins to store the batch of a push that reached it.
RelayPush(h) ==
    /\ At(h, "push")
    /\ storing = {}
    /\ Cardinality(task[h].batch) <= BatchLimit
    /\ storing' = task[h].batch
    /\ task' = [task EXCEPT ![h].stage = "pushed"]
    /\ UNCHANGED <<engine, disk, log, stray, ghostVars>>

\* A push reaches the relay although its caller has given up on it.
RelayStray(b) ==
    /\ storing = {}
    /\ storing' = b
    /\ stray' = stray \ {b}
    /\ UNCHANGED <<engine, task, disk, log, ghostVars>>

\* One round of the relay's loop over the batch: a record id it already has
\* is accepted and not stored again, a new one gets the next sequence.
RelayStore ==
    /\ storing # {}
    /\ LET x == Oldest(storing) IN
       /\ log' = IF Id(x) \in Ids(Members(log)) THEN log ELSE Append(log, x)
       /\ storing' = storing \ {x}
    /\ UNCHANGED <<engine, task, disk, stray, ghostVars>>

\* The acknowledgement is back: everything in the batch is sent; first pull.
PushAccepted(h) ==
    LET g == EngineOf[h] IN
    /\ CanResume(h, "pushed")
    /\ storing = {}
    /\ engine' = [engine EXCEPT ![g].sent = @ \cup Ids(task[h].batch)]
    /\ task' = [task EXCEPT ![h] =
                  [@ EXCEPT !.stage = "pull", !.batch = {},
                            !.after = engine[g].cursor]]
    /\ UNCHANGED <<disk, relayVars, ghostVars>>

\* The relay answers a pull with the records after the request's cursor.
RelayPull(h) ==
    LET last == IF task[h].after + PageLimit <= Len(log)
                THEN task[h].after + PageLimit ELSE Len(log)
    IN  /\ At(h, "pull")
        /\ storing = {}
        /\ task' = [task EXCEPT ![h] =
             [@ EXCEPT !.stage = "page",
                       !.page = SubSeq(log, task[h].after + 1, last)]]
        /\ UNCHANGED <<engine, disk, relayVars, ghostVars>>

\* Seeded faults: the cursor is an index from 0, or counts pages.
CursorAfter_FromZero(after, page) == after + Len(page) - 1
CursorAfter_WholePage(after, page) == after + PageLimit

\* The sequence of the last record of the page, or the request's cursor.
CursorAfter(after, page) == after + Len(page)

\* The page is back: apply it, move the cursor, and pull again unless the
\* page was short.
PageReceived(h) ==
    LET g      == EngineOf[h]
        page   == task[h].page
        cursor == CursorAfter(task[h].after, page)
    IN  /\ CanResume(h, "page")
        /\ engine' = [engine EXCEPT ![g] =
                        [@ EXCEPT !.todo = page, !.cursor = cursor]]
        /\ task' = [task EXCEPT ![h] =
             IF Len(page) < PageLimit
             THEN [Idle EXCEPT !.stage = "persist"]
             ELSE [@ EXCEPT !.stage = "pull", !.after = cursor, !.page = <<>>]]
        /\ UNCHANGED <<disk, relayVars, ghostVars>>

\* persist(), the configuration file is written: serialize the engine.
Serialize(h) ==
    /\ CanResume(h, "persist")
    /\ task' = [task EXCEPT ![h].stage = "write",
                            ![h].saved = Persistence(engine[EngineOf[h]])]
    /\ UNCHANGED <<engine, disk, relayVars, ghostVars>>

\* persist(), the rename of the state file; the call returns or goes on.
Write(h) ==
    LET g == EngineOf[h] IN
    /\ CanResume(h, "write")
    /\ disk' = [disk EXCEPT ![DeviceOf[g]] = task[h].saved]
    /\ acked' = acked \cup task[h].mine
    /\ task' = [task EXCEPT ![h] =
          IF task[h].then = "sync"
          THEN [Idle EXCEPT !.stage = SyncEntry(engine[g])] ELSE Idle]
    /\ UNCHANGED <<engine, relayVars, writes, faults>>

\* The awaits of a call that may throw.
Failing == {"chunks", "push", "pushed", "pull", "page", "reset"}
              \cup (IF DiskFails THEN {"persist", "write"} ELSE {})

\* A relay call fails or times out, or a file is not written: the error ends
\* the call, nothing is persisted, and the engine keeps what it has.  A push
\* that was on its way may still arrive.
CallFails(h) ==
    /\ \E stage \in Failing : CanResume(h, stage)
    /\ faults < MaxFaults
    /\ faults' = faults + 1
    /\ stray' = IF At(h, "push") /\ Cardinality(task[h].batch) <= BatchLimit
                THEN stray \cup {task[h].batch} ELSE stray
    /\ task' = [task EXCEPT ![h] = Idle]
    /\ UNCHANGED <<engine, disk, log, storing, writes, acked>>

\* The process ends, at any point: a crash, or the exit of a CLI command.
Exit(g) ==
    /\ engine[g].up
    /\ faults < MaxFaults
    /\ faults' = faults + 1
    /\ engine' = [engine EXCEPT ![g] = Down]
    /\ stray' = stray \cup
         {task[h].batch : h \in {k \in Handlers :
              /\ EngineOf[k] = g
              /\ At(k, "push")
              /\ Cardinality(task[k].batch) <= BatchLimit}}
    /\ task' = [h \in Handlers |-> IF EngineOf[h] = g THEN Idle ELSE task[h]]
    /\ UNCHANGED <<disk, log, storing, writes, acked>>

EngineStep(g) == Load(g) \/ ApplyNext(g) \/ ReplayNext(g)

CallBegins(h) ==
    \/ \E e \in Entities : Journal(h, e)
    \/ Backup(h)
    \/ \E value \in BOOLEAN : Pause(h, value)
    \/ Sync(h)
    \/ Reset(h)

CallGoesOn(h) ==
    \/ ResetDone(h) \/ ChunksUploaded(h) \/ PushRefused(h)
    \/ RelayPush(h) \/ PushAccepted(h) \/ RelayPull(h) \/ PageReceived(h)
    \/ Serialize(h) \/ Write(h)

Next ==
    \/ \E g \in Engines : EngineStep(g) \/ Exit(g)
    \/ \E h \in Handlers : CallBegins(h) \/ CallGoesOn(h) \/ CallFails(h)
    \/ \E b \in stray : RelayStray(b)
    \/ RelayStore

Spec == Init /\ [][Next]_vars

\* A process is started when none runs, a call that began makes progress,
\* the relay finishes what it started, and somebody keeps asking for a sync.
Fairness ==
    /\ WF_vars(RelayStore)
    /\ \A g \in Engines : WF_vars(EngineStep(g))
    /\ \A h \in Handlers : WF_vars(CallGoesOn(h)) /\ SF_vars(Sync(h))

FairSpec == Spec /\ Fairness

-----------------------------------------------------------------------------
\* Types

State == [counter: Nat, cursor: Nat, paused: BOOLEAN,
          journal: SUBSET Envelope, sent: SUBSET (Devices \X Nat \X AnyEntity),
          records: Seq(Envelope),
          shown: [current: [AnyEntity -> Envelope \cup {NoEnvelope}],
                  conflicts: [AnyEntity -> SUBSET Envelope]]]

EngineState ==
    [up: BOOLEAN, counter: Nat, cursor: Nat, paused: BOOLEAN,
     journal: SUBSET Envelope, sent: SUBSET (Devices \X Nat \X AnyEntity),
     records: Seq(Envelope),
     current: [AnyEntity -> Envelope \cup {NoEnvelope}],
     conflicts: [AnyEntity -> SUBSET Envelope],
     todo: Seq(Envelope), replay: SUBSET Envelope]

Task == [stage: {"idle", "chunks", "push", "pushed", "pull", "page", "reset",
                 "persist", "write"},
         batch: SUBSET Envelope, after: Nat, page: Seq(Envelope),
         saved: State, mine: SUBSET Envelope, then: {"return", "sync"}]

\* Every variable of the model holds a value of its kind.
TypeOK ==
    /\ engine \in [Engines -> EngineState]
    /\ task \in [Handlers -> Task]
    /\ disk \in [Devices -> State]
    /\ log \in Seq(Envelope)
    /\ storing \in SUBSET Envelope
    /\ stray \in SUBSET SUBSET Envelope
    /\ writes \in 0..MaxWrites
    /\ acked \in SUBSET Envelope
    /\ faults \in 0..MaxFaults

-----------------------------------------------------------------------------
\* Safety

Superseded(x, S) ==
    \E y \in S : /\ y.entity = x.entity
                 /\ CompareVectors(x.vector, y.vector) \in {"before", "equal"}
                 /\ y # x

\* No revision an engine has applied is lost to a merge: it is the current
\* one, or in the conflict history, or a later revision supersedes it.
NothingDiscarded ==
    \A g \in Engines : \A x \in Members(engine[g].records) :
        \/ x = engine[g].current[x.entity]
        \/ x \in engine[g].conflicts[x.entity]
        \/ Superseded(x, Members(engine[g].records))

\* An engine believes a mutation sent only if the relay has it, on the state
\* file too: a lost response or a crash never turns an unsent one into a sent.
SentIsStored ==
    /\ \A g \in Engines : engine[g].sent \subseteq Ids(Members(log))
    /\ \A d \in Devices : disk[d].sent \subseteq Ids(Members(log))

\* The cursor of an engine, or of a state file, never passes a record that
\* has not been applied there: nothing is skipped by incremental pulls.
CoveredBy(cursor, ids) ==
    /\ cursor <= Len(log)
    /\ \A i \in 1..cursor : Id(log[i]) \in ids

CursorSound ==
    /\ \A g \in Engines : Free(g) => CoveredBy(engine[g].cursor, Applied(engine[g]))
    /\ \A d \in Devices : CoveredBy(disk[d].cursor, Applied(disk[d]))

\* A mutation whose journal call has returned stays in the state file.
JournalIsDurable == \A x \in acked : x \in disk[x.device].journal

\* Every envelope that a journal, the relay or a request holds.
Known ==
    (UNION {engine[g].journal : g \in Engines})
      \cup (UNION {disk[d].journal : d \in Devices})
      \cup Members(log) \cup storing \cup UNION stray

\* Two different mutations never share a record id (the relay would silently
\* drop the second one): counters are not reused, across restarts included.
RecordIdsAreUnique == \A x, y \in Known : Id(x) = Id(y) => x = y

\* The relay's order respects causality: no revision follows one that has
\* already seen it, and none is stored twice, however often it is pushed.
LogIsCausal ==
    \A i, j \in 1..Len(log) :
        i < j /\ log[i].entity = log[j].entity =>
            CompareVectors(log[j].vector, log[i].vector) \notin {"before", "equal"}

\* What an engine shows is never older than another revision it has applied.
CurrentIsMaximal ==
    \A g \in Engines : \A x \in Members(engine[g].records) :
        CompareVectors(x.vector, engine[g].current[x.entity].vector) # "after"

\* A restart rebuilds the materialization that was there when the state was
\* written: same records, same current revisions, same conflict history.
RestartRebuilds ==
    \A g \in Engines :
        LET saved == disk[DeviceOf[g]] IN
        Free(g) /\ Members(engine[g].records) = Members(saved.records) =>
            /\ engine[g].current = saved.shown.current
            /\ engine[g].conflicts = saved.shown.conflicts

\* An engine that has sent its journal and pulled up to the end of the log.
InSync(g) ==
    /\ Free(g)
    /\ engine[g].cursor = Len(log)
    /\ Ids(engine[g].journal) \subseteq engine[g].sent

\* All engines in sync have applied exactly the records of the relay.
InSyncSameRecords ==
    \A g \in Engines : InSync(g) => Applied(engine[g]) = Ids(Members(log))

\* docs/CLOUD_SYNC.md:28 "Concurrent edits use a stable record-ID ordering on
\* every device": engines in sync show the same current revisions.
Convergence ==
    \A g, k \in Engines :
        InSync(g) /\ InSync(k) => engine[g].current = engine[k].current

-----------------------------------------------------------------------------
\* Actions

\* An applied record never takes a causally older place: while a process
\* keeps its records, what it shows moves only to revisions that have not
\* been superseded by it.
ShownNeverRegresses ==
    [][\A g \in Engines : \A e \in AnyEntity :
          LET old == engine[g].current[e]
              new == engine'[g].current[e]
          IN  old # NoEnvelope /\ new # NoEnvelope
                => CompareVectors(new.vector, old.vector) # "before"]_vars

-----------------------------------------------------------------------------
\* Liveness

Numbers(S) == {x.nr : x \in S}

\* A journaled mutation reaches every engine, whatever calls failed before.
JournaledIsDelivered ==
    \A n \in 1..MaxWrites, g \in Engines :
        n \in Numbers(acked) ~> n \in Numbers(Members(engine[g].records))

\* docs/CLOUD_SYNC.md:28 "Synchronization ... pushes unsent envelopes": a
\* journaled mutation reaches the relay.
JournaledIsPushed ==
    \A n \in 1..MaxWrites : n \in Numbers(acked) ~> n \in Numbers(Members(log))
=============================================================================

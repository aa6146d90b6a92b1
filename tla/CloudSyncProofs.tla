-------------------------- MODULE CloudSyncProofs --------------------------
(***************************************************************************)
(* Proofs about CloudSync, for every set of devices, processes and         *)
(* handlers and every order of record ids.                                 *)
(***************************************************************************)
EXTENDS CloudSync, SequenceTheorems, DataLemmas

-----------------------------------------------------------------------------
(* Lemmas about the operators of the model                                 *)

(* The first envelope of a non-empty batch is one of the batch. *)
LEMMA OldestIsMember ==
    ASSUME NEW S \in SUBSET Envelope, S # {}
    PROVE  Oldest(S) \in S
<1> DEFINE T == {x.nr : x \in S}
<1>1. T \subseteq Nat /\ T # {}
  BY DEF Envelope
<1>2. PICK m \in T : \A n \in T : m <= n
  BY <1>1, LeastNatural
<1>3. \E x \in S : \A y \in S : x.nr <= y.nr
  BY <1>2
<1> QED
  BY <1>3 DEF Oldest

LEMMA AppendMembers ==
    ASSUME NEW S, NEW seq \in Seq(S), NEW x \in S
    PROVE  /\ Append(seq, x) \in Seq(S)
           /\ Members(Append(seq, x)) = Members(seq) \cup {x}
  BY DEF Members

LEMMA TailMembers ==
    ASSUME NEW S, NEW seq \in Seq(S), seq # <<>>
    PROVE  /\ Head(seq) \in S
           /\ Tail(seq) \in Seq(S)
           /\ Members(seq) = {Head(seq)} \cup Members(Tail(seq))
<1>1. Head(seq) = seq[1] /\ Len(seq) >= 1 /\ Len(Tail(seq)) = Len(seq) - 1
  OBVIOUS
<1>2. \A i \in 1..Len(Tail(seq)) : Tail(seq)[i] = seq[i + 1]
  OBVIOUS
<1>3. \A i \in 1..Len(seq) : i = 1 \/ (i - 1 \in 1..Len(Tail(seq)) /\ seq[i] = Tail(seq)[i - 1])
  BY <1>1, <1>2
<1>4. Members(seq) \subseteq {Head(seq)} \cup Members(Tail(seq))
  BY <1>1, <1>3 DEF Members
<1>5. {Head(seq)} \cup Members(Tail(seq)) \subseteq Members(seq)
  BY <1>1, <1>2 DEF Members
<1> QED
  BY <1>1, <1>4, <1>5

LEMMA EmptyMembers == Members(<<>>) = {}
  BY DEF Members

(* A pull hands out records of the log. *)
LEMMA PageMembers ==
    ASSUME NEW S, NEW seq \in Seq(S), NEW after \in Nat, NEW last \in Nat,
           last <= Len(seq)
    PROVE  /\ SubSeq(seq, after + 1, last) \in Seq(S)
           /\ Len(SubSeq(seq, after + 1, last)) = IF after + 1 <= last THEN last - after ELSE 0
           /\ \A i \in 1..Len(SubSeq(seq, after + 1, last)) :
                 SubSeq(seq, after + 1, last)[i] = seq[after + i]
  BY SubSeqProperties

LEMMA LargerType ==
    ASSUME NEW m \in Nat, NEW n \in Nat
    PROVE  /\ Larger(m, n) \in Nat
           /\ Larger(m, n) >= m
           /\ Larger(m, n) >= n
  BY DEF Larger

(* compareVectors is antisymmetric: "after" one way is "before" the other. *)
LEMMA CompareDual ==
    ASSUME NEW v \in Vector, NEW w \in Vector
    PROVE  /\ CompareVectors(v, w) = "after" <=> CompareVectors(w, v) = "before"
           /\ CompareVectors(v, w) = "concurrent" <=> CompareVectors(w, v) = "concurrent"
           /\ CompareVectors(v, w) = "equal" <=> CompareVectors(w, v) = "equal"
           /\ CompareVectors(v, w) \in {"concurrent", "before", "after", "equal"}
<1> DEFINE less == \E d \in Devices : v[d] < w[d]
           greater == \E d \in Devices : v[d] > w[d]
<1>1. less <=> \E d \in Devices : w[d] > v[d]
  BY DEF Vector
<1>2. greater <=> \E d \in Devices : w[d] < v[d]
  BY DEF Vector
<1> HIDE DEF less, greater
<1>3. CompareVectors(v, w) = CASE less /\ greater   -> "concurrent"
                               [] less /\ ~greater  -> "before"
                               [] ~less /\ greater  -> "after"
                               [] ~less /\ ~greater -> "equal"
  BY DEF CompareVectors, less, greater
<1>4. CompareVectors(w, v) = CASE greater /\ less   -> "concurrent"
                               [] greater /\ ~less  -> "before"
                               [] ~greater /\ less  -> "after"
                               [] ~greater /\ ~less -> "equal"
  BY <1>1, <1>2 DEF CompareVectors
<1> QED
  BY <1>3, <1>4

LEMMA CompareSelf ==
    ASSUME NEW v \in Vector PROVE CompareVectors(v, v) = "equal"
<1>1. \A d \in Devices : ~ (v[d] < v[d]) /\ ~ (v[d] > v[d])
  BY DEF Vector
<1> QED
  BY <1>1 DEF CompareVectors

(* What apply() does to each part of an engine. *)
LEMMA ApplyEffect ==
    ASSUME NEW d \in Devices, NEW s \in EngineState, NEW x \in Envelope
    PROVE  LET t == Apply(d, s, x) IN
           /\ t \in EngineState
           /\ t.up = s.up /\ t.cursor = s.cursor /\ t.paused = s.paused
           /\ t.journal = s.journal /\ t.sent = s.sent
           /\ t.todo = s.todo /\ t.replay = s.replay
           /\ Applied(t) = Applied(s) \cup {Id(x)}
           /\ Id(x) \notin Applied(s) =>
                /\ Members(t.records) = Members(s.records) \cup {x}
                /\ \A e \in AnyEntity \ {x.entity} :
                      /\ t.current[e] = s.current[e]
                      /\ t.conflicts[e] = s.conflicts[e]
                /\ t.current[x.entity] =
                      IF Replaces(x, s.current[x.entity])
                      THEN x ELSE s.current[x.entity]
                /\ t.conflicts[x.entity] =
                      s.conflicts[x.entity] \cup Losers(x, s.current[x.entity])
           /\ Id(x) \in Applied(s) => t = s
<1> DEFINE t == Apply(d, s, x)
           c == s.current[x.entity]
<1>1. CASE Id(x) \in Applied(s)
  <2>1. t = s
    BY <1>1 DEF Apply
  <2> QED
    BY <1>1, <2>1
<1>2. CASE Id(x) \notin Applied(s)
  <2> DEFINE nc == IF Replaces(x, c) THEN x ELSE c
  <2>1. t = [s EXCEPT !.records = Append(@, x),
                      !.counter = Larger(@, x.vector[d]),
                      !.current[x.entity] = nc,
                      !.conflicts[x.entity] = @ \cup Losers(x, c)]
    BY <1>2 DEF Apply
  <2>2. x.entity \in AnyEntity /\ x.vector[d] \in Nat
    BY DEF Envelope, Vector
  <2>3. c \in Envelope \cup {NoEnvelope}
    BY <2>2 DEF EngineState
  <2>4. Losers(x, c) \in SUBSET Envelope
    BY <2>3 DEF Losers
  <2>5. nc \in Envelope \cup {NoEnvelope}
    BY <2>3
  <2> HIDE DEF nc, c
  <2>6. /\ Append(s.records, x) \in Seq(Envelope)
        /\ Members(Append(s.records, x)) = Members(s.records) \cup {x}
    BY AppendMembers DEF EngineState
  <2>7. Larger(s.counter, x.vector[d]) \in Nat
    BY <2>2, LargerType DEF EngineState
  <2>8. /\ t.records = Append(s.records, x)
        /\ t.current = [s.current EXCEPT ![x.entity] = nc]
        /\ t.conflicts = [s.conflicts EXCEPT ![x.entity] = @ \cup Losers(x, c)]
        /\ t.counter = Larger(s.counter, x.vector[d])
        /\ t.up = s.up /\ t.cursor = s.cursor /\ t.paused = s.paused
        /\ t.journal = s.journal /\ t.sent = s.sent
        /\ t.todo = s.todo /\ t.replay = s.replay
    BY <2>1 DEF EngineState
  <2>9. t.current \in [AnyEntity -> Envelope \cup {NoEnvelope}]
    BY <2>5, <2>8, <2>2 DEF EngineState
  <2>10. t.conflicts \in [AnyEntity -> SUBSET Envelope]
    BY <2>4, <2>8, <2>2 DEF EngineState
  <2>11. t \in EngineState
    BY <2>1, <2>6, <2>7, <2>8, <2>9, <2>10 DEF EngineState
  <2>12. Applied(t) = Applied(s) \cup {Id(x)}
    BY <2>6, <2>8 DEF Applied, Ids
  <2>13. \A e \in AnyEntity \ {x.entity} :
            t.current[e] = s.current[e] /\ t.conflicts[e] = s.conflicts[e]
    BY <2>8 DEF EngineState
  <2>14. /\ t.current[x.entity] = nc
         /\ t.conflicts[x.entity] = s.conflicts[x.entity] \cup Losers(x, c)
    BY <2>8, <2>2 DEF EngineState
  <2> QED
    BY <1>2, <2>6, <2>8, <2>11, <2>12, <2>13, <2>14 DEF nc, c
<1> QED
  BY <1>1, <1>2

(* The counter of an engine never goes back in apply(). *)
LEMMA ApplyCounts ==
    ASSUME NEW d \in Devices, NEW s \in EngineState, NEW x \in Envelope
    PROVE  Apply(d, s, x).counter >= s.counter
<1>1. s.counter \in Nat /\ x.vector[d] \in Nat
  BY DEF EngineState, Envelope, Vector
<1>2. CASE Id(x) \in Applied(s)
  BY <1>1, <1>2 DEF Apply
<1>3. CASE Id(x) \notin Applied(s)
  <2>1. Apply(d, s, x).counter = Larger(s.counter, x.vector[d])
    BY <1>3 DEF Apply, EngineState
  <2> QED
    BY <1>1, <2>1, LargerType
<1> QED
  BY <1>2, <1>3

(* mutate() builds an envelope of the device, numbered by the next write. *)
LEMMA NewEnvelopeType ==
    ASSUME NEW d \in Devices, NEW s \in EngineState, NEW e \in AnyEntity,
           writes \in Nat
    PROVE  /\ NewEnvelope(d, s, e) \in Envelope
           /\ NewEnvelope(d, s, e).device = d
           /\ NewEnvelope(d, s, e).entity = e
           /\ NewEnvelope(d, s, e).nr = writes + 1
<1> DEFINE base == IF s.current[e] = NoEnvelope THEN ZeroVector ELSE s.current[e].vector
           n == Larger(s.counter, base[d]) + 1
<1>1. base \in Vector
  BY DEF EngineState, Envelope, ZeroVector, Vector
<1>2. n \in Nat
  <2>1. base[d] \in Nat
    BY <1>1 DEF Vector
  <2>2. s.counter \in Nat
    BY DEF EngineState
  <2>3. Larger(s.counter, base[d]) \in Nat
    BY ONLY <2>1, <2>2, LargerType
  <2> QED
    BY <2>3
<1> HIDE DEF base, n
<1>3. [base EXCEPT ![d] = n] \in Vector
  BY <1>1, <1>2 DEF Vector
<1>4. NewEnvelope(d, s, e) =
        [device |-> d, entity |-> e, counter |-> n,
         vector |-> [base EXCEPT ![d] = n], nr |-> writes + 1]
  BY DEF NewEnvelope, base, n
<1> QED
  BY <1>2, <1>3, <1>4 DEF Envelope

(* Its counter is above the engine's. *)
LEMMA NewEnvelopeCounts ==
    ASSUME NEW d \in Devices, NEW s \in EngineState, NEW e \in AnyEntity
    PROVE  NewEnvelope(d, s, e).counter > s.counter
<1> DEFINE base == IF s.current[e] = NoEnvelope THEN ZeroVector ELSE s.current[e].vector
<1>1. base \in Vector
  BY DEF EngineState, Envelope, ZeroVector, Vector
<1>2. NewEnvelope(d, s, e).counter = Larger(s.counter, base[d]) + 1
  BY DEF NewEnvelope
<1> HIDE DEF base
<1>3. base[d] \in Nat /\ s.counter \in Nat
  BY <1>1 DEF Vector, EngineState
<1>4. Larger(s.counter, base[d]) \in Nat /\ Larger(s.counter, base[d]) >= s.counter
  BY <1>3, LargerType
<1> QED
  BY <1>2, <1>3, <1>4

(* mutate() before it applies the envelope. *)
Journaled(s, x) == [s EXCEPT !.counter = x.counter, !.journal = @ \cup {x}]

(* mutate() journals the new envelope and applies it. *)
LEMMA MutateEffect ==
    ASSUME NEW d \in Devices, NEW s \in EngineState, NEW x \in Envelope
    PROVE  LET r == Journaled(s, x)
               t == Mutate(d, s, x)
           IN  /\ r \in EngineState
               /\ t = Apply(d, r, x)
               /\ t \in EngineState
               /\ t.up = s.up /\ t.cursor = s.cursor /\ t.paused = s.paused
               /\ t.journal = s.journal \cup {x} /\ t.sent = s.sent
               /\ t.todo = s.todo /\ t.replay = s.replay
               /\ Applied(t) = Applied(s) \cup {Id(x)}
               /\ r.records = s.records /\ r.current = s.current
               /\ r.conflicts = s.conflicts
<1> DEFINE r == Journaled(s, x)
<1>1. /\ r \in EngineState /\ r.up = s.up /\ r.cursor = s.cursor
      /\ r.paused = s.paused /\ r.journal = s.journal \cup {x}
      /\ r.sent = s.sent /\ r.todo = s.todo /\ r.replay = s.replay
      /\ r.records = s.records /\ r.current = s.current
      /\ r.conflicts = s.conflicts
  BY DEF EngineState, Envelope, Journaled
<1>2. Mutate(d, s, x) = Apply(d, r, x)
  BY DEF Mutate, Journaled
<1>3. Applied(r) = Applied(s)
  BY <1>1 DEF Applied
<1> HIDE DEF r
<1>4. LET t == Apply(d, r, x) IN
      /\ t \in EngineState
      /\ t.up = r.up /\ t.cursor = r.cursor /\ t.paused = r.paused
      /\ t.journal = r.journal /\ t.sent = r.sent
      /\ t.todo = r.todo /\ t.replay = r.replay
      /\ Applied(t) = Applied(r) \cup {Id(x)}
  BY <1>1, ApplyEffect
<1>5. /\ Mutate(d, s, x) \in EngineState
      /\ Mutate(d, s, x).up = s.up /\ Mutate(d, s, x).cursor = s.cursor
      /\ Mutate(d, s, x).paused = s.paused
      /\ Mutate(d, s, x).journal = s.journal \cup {x}
      /\ Mutate(d, s, x).sent = s.sent
      /\ Mutate(d, s, x).todo = s.todo /\ Mutate(d, s, x).replay = s.replay
      /\ Applied(Mutate(d, s, x)) = Applied(s) \cup {Id(x)}
  BY <1>1, <1>2, <1>3, <1>4
<1> QED
  BY <1>1, <1>2, <1>5 DEF r

LEMMA MutateCounts ==
    ASSUME NEW d \in Devices, NEW s \in EngineState, NEW x \in Envelope
    PROVE  Mutate(d, s, x).counter >= x.counter
<1> DEFINE r == Journaled(s, x)
<1>1. r \in EngineState /\ Mutate(d, s, x) = Apply(d, r, x)
  BY MutateEffect
<1>2. r.counter = x.counter
  BY DEF Journaled, EngineState
<1> HIDE DEF r
<1> QED
  BY <1>1, <1>2, ApplyCounts

(* The constructor and persistence() convert between the two kinds of state. *)
LEMMA ConversionTypes ==
    /\ FreshState \in State
    /\ \A p \in State : Constructed(p) \in EngineState
    /\ Down \in EngineState
    /\ \A s \in EngineState : Persistence(s) \in State
<1>1. FreshState \in State
  BY DEF FreshState, State, NoMaterial
<1>2. \A p \in State : Constructed(p) \in EngineState
  BY DEF State, Constructed, EngineState, NoMaterial
<1>3. Down \in EngineState
  BY <1>1, <1>2 DEF Down, EngineState
<1>4. \A s \in EngineState : Persistence(s) \in State
  BY DEF Persistence, EngineState, State
<1> QED
  BY <1>1, <1>2, <1>3, <1>4

-----------------------------------------------------------------------------
(* Type correctness                                                        *)

LEMMA IdleType == Idle \in Task
  BY ConversionTypes DEF Idle, Task

LEMMA SyncEntryType ==
    ASSUME NEW s PROVE SyncEntry(s) \in {"persist", "chunks"}
  BY DEF SyncEntry

LEMMA TypeInit == Init => TypeOK
<1> SUFFICES ASSUME Init PROVE TypeOK
  OBVIOUS
<1> QED
  BY ConversionTypes, IdleType, CloudSyncAssumption DEF Init, TypeOK

LEMMA TypeStep == TypeOK /\ [Next]_vars => TypeOK'
<1> SUFFICES ASSUME TypeOK, [Next]_vars PROVE TypeOK'
  OBVIOUS
<1> USE CloudSyncAssumption
<1>a. \A g \in Engines : engine[g] \in EngineState /\ DeviceOf[g] \in Devices
  BY DEF TypeOK
<1>b. \A h \in Handlers :
        /\ task[h] \in Task
        /\ EngineOf[h] \in Engines
        /\ engine[EngineOf[h]] \in EngineState
  BY DEF TypeOK
<1>1. ASSUME NEW g \in Engines, Load(g) PROVE TypeOK'
  <2>1. PICK p \in Readings(DeviceOf[g]) : engine' = [engine EXCEPT ![g] = Constructed(p)]
    BY <1>1 DEF Load
  <2>2. Constructed(p) \in EngineState
    BY ConversionTypes DEF TypeOK, Readings
  <2> QED
    BY <1>1, <2>1, <2>2 DEF Load, TypeOK, relayVars, ghostVars
<1>2. ASSUME NEW g \in Engines, ApplyNext(g) PROVE TypeOK'
  <2> DEFINE s == engine[g]
             t == Apply(DeviceOf[g], s, Head(s.todo))
  <2>1. s \in EngineState /\ s.todo # <<>> /\ s.todo \in Seq(Envelope)
    BY <1>a, <1>2 DEF ApplyNext, EngineState
  <2>2. Head(s.todo) \in Envelope /\ Tail(s.todo) \in Seq(Envelope)
    BY <2>1, TailMembers
  <2>3. t \in EngineState /\ t.todo = s.todo
    <3>1. s \in EngineState /\ DeviceOf[g] \in Devices
      BY <1>a
    <3> HIDE DEF s
    <3> QED
      BY ONLY <3>1, <2>2, ApplyEffect
  <2> HIDE DEF t
  <2>4. [t EXCEPT !.todo = Tail(@)] \in EngineState
    BY <2>2, <2>3 DEF EngineState
  <2> QED
    BY <1>2, <2>4 DEF ApplyNext, TypeOK, relayVars, ghostVars, t
<1>3. ASSUME NEW g \in Engines, ReplayNext(g) PROVE TypeOK'
  <2> DEFINE s == engine[g]
             x == Oldest(s.replay)
             t == Apply(DeviceOf[g], s, x)
  <2>1. s \in EngineState /\ s.replay # {} /\ s.replay \in SUBSET Envelope
    BY <1>3 DEF ReplayNext, TypeOK, EngineState
  <2>2. x \in Envelope
    BY <2>1, OldestIsMember
  <2>3. DeviceOf[g] \in Devices
    BY <1>a
  <2> HIDE DEF x, s
  <2>5. t \in EngineState /\ t.replay = s.replay
    <3>1. s \in EngineState
      BY <2>1
    <3> QED
      BY ONLY <3>1, <2>2, <2>3, ApplyEffect
  <2> HIDE DEF t
  <2>4. [t EXCEPT !.replay = @ \ {x}] \in EngineState
    BY <2>1, <2>5 DEF EngineState
  <2> QED
    BY <1>3, <2>4 DEF ReplayNext, TypeOK, relayVars, ghostVars, t, x, s
<1>4. ASSUME NEW h \in Handlers, NEW e \in Entities, Journal(h, e) PROVE TypeOK'
  <2> DEFINE g == EngineOf[h]
             x == NewEnvelope(DeviceOf[g], engine[g], e)
  <2>1. engine[g] \in EngineState /\ DeviceOf[g] \in Devices /\ e \in AnyEntity
    BY DEF TypeOK, AnyEntity
  <2>2. x \in Envelope
    BY <2>1, NewEnvelopeType DEF TypeOK
  <2> HIDE DEF x
  <2>3. Mutate(DeviceOf[g], engine[g], x) \in EngineState
    BY <2>1, <2>2, MutateEffect
  <2>4. [Idle EXCEPT !.stage = "persist", !.mine = {x}] \in Task
    BY <2>2, IdleType DEF Task
  <2> QED
    BY <1>4, <2>3, <2>4 DEF Journal, TypeOK, relayVars, x
<1>5. ASSUME NEW h \in Handlers, Backup(h) PROVE TypeOK'
  <2> DEFINE g == EngineOf[h]
             e == BackupEntity(writes + 1)
             x == NewEnvelope(DeviceOf[g], engine[g], e)
  <2>1. writes + 1 \in 1..MaxWrites
    BY <1>5 DEF Backup, TypeOK
  <2>2. engine[g] \in EngineState /\ DeviceOf[g] \in Devices /\ e \in AnyEntity
    BY <2>1 DEF TypeOK, AnyEntity
  <2> HIDE DEF e
  <2>3. x \in Envelope
    BY <2>2, NewEnvelopeType DEF TypeOK
  <2> HIDE DEF x
  <2>4. Mutate(DeviceOf[g], engine[g], x) \in EngineState
    BY <2>2, <2>3, MutateEffect
  <2>5. [Idle EXCEPT !.stage = SyncEntry(engine[g])] \in Task
    BY IdleType, SyncEntryType DEF Task
  <2> QED
    BY <1>5, <2>1, <2>4, <2>5 DEF Backup, TypeOK, relayVars, x, e
<1>6. ASSUME NEW h \in Handlers, NEW value \in BOOLEAN, Pause(h, value) PROVE TypeOK'
  <2>1. [Idle EXCEPT !.stage = "persist"] \in Task
    BY IdleType DEF Task
  <2>2. [engine[EngineOf[h]] EXCEPT !.paused = value] \in EngineState
    BY <1>b DEF EngineState
  <2> QED
    BY <1>6, <2>1, <2>2 DEF Pause, TypeOK, relayVars, ghostVars
<1>7. ASSUME NEW h \in Handlers, Sync(h) PROVE TypeOK'
  <2>1. [Idle EXCEPT !.stage = SyncEntry(engine[EngineOf[h]])] \in Task
    BY IdleType, SyncEntryType DEF Task
  <2> QED
    BY <1>7, <2>1 DEF Sync, TypeOK, relayVars, ghostVars
<1>8. ASSUME NEW h \in Handlers, Reset(h) PROVE TypeOK'
  <2>1. [Idle EXCEPT !.stage = "reset"] \in Task
    BY IdleType DEF Task
  <2> QED
    BY <1>8, <2>1 DEF Reset, TypeOK, relayVars, ghostVars
<1>9. ASSUME NEW h \in Handlers, ResetDone(h) PROVE TypeOK'
  <2>1. [Idle EXCEPT !.stage = "persist", !.then = "sync"] \in Task
    BY IdleType DEF Task
  <2>3. /\ NoMaterial.current \in [AnyEntity -> Envelope \cup {NoEnvelope}]
        /\ NoMaterial.conflicts \in [AnyEntity -> SUBSET Envelope]
    BY DEF NoMaterial
  <2>2. Forgotten(engine[EngineOf[h]]) \in EngineState
    <3> DEFINE s == engine[EngineOf[h]]
               c == NoMaterial.current
               k == NoMaterial.conflicts
    <3>1. s \in EngineState
      BY <1>b
    <3>2. c \in [AnyEntity -> Envelope \cup {NoEnvelope}] /\ k \in [AnyEntity -> SUBSET Envelope]
      BY <2>3
    <3> DEFINE r == <<>>
    <3>3. r \in Seq(Envelope)
      OBVIOUS
    <3> HIDE DEF s, c, k, r
    <3>4. [s EXCEPT !.cursor = 0, !.sent = {}, !.records = r,
                    !.current = c, !.conflicts = k] \in EngineState
      BY <3>1, <3>2, <3>3 DEF EngineState
    <3> QED
      BY <3>4 DEF s, c, k, r, Forgotten
  <2> QED
    BY <1>9, <2>1, <2>2 DEF ResetDone, TypeOK, relayVars, ghostVars
<1>10. ASSUME NEW h \in Handlers, ChunksUploaded(h) PROVE TypeOK'
  <2> DEFINE s == engine[EngineOf[h]]
             pending == {x \in s.journal : Id(x) \notin s.sent}
  <2>1. pending \in SUBSET Envelope /\ s.cursor \in Nat
    BY <1>b DEF EngineState
  <2>2. /\ [task[h] EXCEPT !.stage = "push", !.batch = pending] \in Task
        /\ [task[h] EXCEPT !.stage = "pull", !.after = s.cursor] \in Task
    BY <1>b, <2>1 DEF Task
  <2> HIDE DEF pending
  <2> QED
    BY <1>10, <2>2 DEF ChunksUploaded, TypeOK, relayVars, ghostVars, pending
<1>11. ASSUME NEW h \in Handlers, PushRefused(h) PROVE TypeOK'
  BY <1>11, IdleType DEF PushRefused, TypeOK, relayVars, ghostVars
<1>12. ASSUME NEW h \in Handlers, RelayPush(h) PROVE TypeOK'
  <2>1. task[h].batch \in SUBSET Envelope /\ [task[h] EXCEPT !.stage = "pushed"] \in Task
    BY <1>b DEF Task
  <2> QED
    BY <1>12, <2>1 DEF RelayPush, TypeOK, ghostVars
<1>13. ASSUME NEW h \in Handlers, PushAccepted(h) PROVE TypeOK'
  <2> DEFINE g == EngineOf[h]
  <2>1. Ids(task[h].batch) \in SUBSET (Devices \X Nat \X AnyEntity)
    BY <1>b DEF Task, Ids, Id, Envelope
  <2>2. [engine[g] EXCEPT !.sent = @ \cup Ids(task[h].batch)] \in EngineState
    BY <1>b, <2>1 DEF EngineState
  <2>3. [task[h] EXCEPT !.stage = "pull", !.batch = {}, !.after = engine[g].cursor] \in Task
    <3>1. engine[g].cursor \in Nat
      BY <1>b DEF EngineState
    <3> QED
      BY <1>b, <3>1 DEF Task
  <2> QED
    BY <1>13, <2>2, <2>3 DEF PushAccepted, TypeOK, relayVars, ghostVars
<1>14. ASSUME NEW h \in Handlers, RelayPull(h) PROVE TypeOK'
  <2> DEFINE after == task[h].after
             last == IF after + PageLimit <= Len(log) THEN after + PageLimit ELSE Len(log)
  <2>1. after \in Nat /\ Len(log) \in Nat /\ PageLimit \in Nat
    BY DEF TypeOK, Task
  <2>2. last \in Nat /\ last <= Len(log)
    BY <2>1
  <2> HIDE DEF last
  <2>3. SubSeq(log, after + 1, last) \in Seq(Envelope)
    BY <2>1, <2>2, PageMembers DEF TypeOK
  <2>4. [task[h] EXCEPT !.stage = "page", !.page = SubSeq(log, after + 1, last)] \in Task
    BY <1>b, <2>3 DEF Task
  <2> QED
    BY <1>14, <2>4 DEF RelayPull, TypeOK, relayVars, ghostVars, last
<1>15. ASSUME NEW h \in Handlers, PageReceived(h) PROVE TypeOK'
  <2> DEFINE g == EngineOf[h]
             page == task[h].page
             cursor == CursorAfter(task[h].after, page)
  <2>1. page \in Seq(Envelope) /\ cursor \in Nat
    BY <1>b DEF Task, CursorAfter
  <2>2. [engine[g] EXCEPT !.todo = page, !.cursor = cursor] \in EngineState
    BY <1>b, <2>1 DEF EngineState
  <2>3. [Idle EXCEPT !.stage = "persist"] \in Task
    BY IdleType DEF Task
  <2> HIDE DEF cursor
  <2>4. [task[h] EXCEPT !.stage = "pull", !.after = cursor, !.page = <<>>] \in Task
    <3>1. task[h] \in Task /\ cursor \in Nat /\ <<>> \in Seq(Envelope)
      BY <1>b, <2>1
    <3> DEFINE r == <<>>
    <3> HIDE DEF r
    <3>2. [task[h] EXCEPT !.stage = "pull", !.after = cursor, !.page = r] \in Task
      BY <3>1 DEF Task, r
    <3> QED
      BY <3>2 DEF r
  <2> QED
    BY <1>15, <2>2, <2>3, <2>4 DEF PageReceived, TypeOK, relayVars, ghostVars, cursor
<1>16. ASSUME NEW h \in Handlers, Serialize(h) PROVE TypeOK'
  <2>1. Persistence(engine[EngineOf[h]]) \in State
    BY ConversionTypes DEF TypeOK
  <2>2. [task[h] EXCEPT !.stage = "write", !.saved = Persistence(engine[EngineOf[h]])] \in Task
    BY <1>b, <2>1 DEF Task
  <2> QED
    BY <1>16, <2>2 DEF Serialize, TypeOK, relayVars, ghostVars
<1>17. ASSUME NEW h \in Handlers, Write(h) PROVE TypeOK'
  <2>1. task[h].saved \in State /\ task[h].mine \in SUBSET Envelope
    BY DEF TypeOK, Task
  <2>2. [Idle EXCEPT !.stage = SyncEntry(engine[EngineOf[h]])] \in Task
    BY IdleType, SyncEntryType DEF Task
  <2> QED
    BY <1>17, <2>1, <2>2, IdleType DEF Write, TypeOK, relayVars
<1>18. ASSUME NEW h \in Handlers, CallFails(h) PROVE TypeOK'
  <2>1. task[h].batch \in SUBSET Envelope
    BY DEF TypeOK, Task
  <2> QED
    BY <1>18, <2>1, IdleType DEF CallFails, TypeOK
<1>19. ASSUME NEW g \in Engines, Exit(g) PROVE TypeOK'
  <2>1. \A h \in Handlers : task[h].batch \in SUBSET Envelope
    BY DEF TypeOK, Task
  <2> QED
    BY <1>19, <2>1, IdleType, ConversionTypes DEF Exit, TypeOK
<1>20. ASSUME NEW b \in stray, RelayStray(b) PROVE TypeOK'
  BY <1>20 DEF RelayStray, TypeOK, ghostVars
<1>21. CASE RelayStore
  <2> DEFINE x == Oldest(storing)
  <2>1. x \in Envelope
    BY <1>21, OldestIsMember DEF RelayStore, TypeOK
  <2> HIDE DEF x
  <2>2. Append(log, x) \in Seq(Envelope)
    BY <2>1, AppendMembers DEF TypeOK
  <2>3. log' \in Seq(Envelope)
    BY <1>21, <2>2 DEF RelayStore, TypeOK, x
  <2> QED
    BY <1>21, <2>3 DEF RelayStore, TypeOK, ghostVars
<1>22. CASE UNCHANGED vars
  BY <1>22 DEF vars, TypeOK
<1> QED
  BY <1>1, <1>2, <1>3, <1>4, <1>5, <1>6, <1>7, <1>8, <1>9, <1>10, <1>11, <1>12,
     <1>13, <1>14, <1>15, <1>16, <1>17, <1>18, <1>19, <1>20, <1>21, <1>22
     DEF Next, EngineStep, CallBegins, CallGoesOn

(* Every variable keeps the kind of value it starts with, in every behaviour. *)
THEOREM TypeCorrect == Spec => []TypeOK
  BY TypeInit, TypeStep, PTL DEF Spec

-----------------------------------------------------------------------------
(* What the relay has, and what an engine has of it.  `seq' is the log, and *)
(* `rest' what the relay has still to store of a push.                      *)

(* The ids an engine has applied or is about to. *)
Reach(s) == Applied(s) \cup Ids(Members(s.todo))

Covers(seq, cursor, ids) ==
    cursor <= Len(seq) /\ \A i \in 1..cursor : Id(seq[i]) \in ids

(* A call that resets has its engine to itself. *)
ResetsAlone ==
    "reset" \in Ops =>
        \A h, k \in Handlers : EngineOf[h] = EngineOf[k] => h = k

EngineOK(s, seq) ==
    /\ s.sent \subseteq Ids(Members(seq))
    /\ s.replay \subseteq s.journal
    /\ Reach(s) \subseteq Ids(Members(seq)) \cup Ids(s.journal)
    /\ ResetsAlone => Covers(seq, s.cursor, Reach(s))

SavedOK(p, seq) ==
    /\ p.sent \subseteq Ids(Members(seq))
    /\ Applied(p) \subseteq Ids(Members(seq)) \cup Ids(p.journal)
    /\ ResetsAlone => Covers(seq, p.cursor, Applied(p))

(* A page is what the log has after the cursor of the request. *)
PageOK(t, seq) ==
    \A i \in 1..Len(t.page) : t.after + i <= Len(seq) /\ t.page[i] = seq[t.after + i]

CallOK(t, s, seq, rest) ==
    /\ SavedOK(t.saved, seq)
    /\ t.stage = "page" => PageOK(t, seq)
    /\ t.stage = "pushed" => Ids(t.batch) \subseteq Ids(Members(seq)) \cup Ids(rest)
    /\ t.stage = "reset" => "reset" \in Ops
    /\ t.stage # "idle" => s.up
    /\ ResetsAlone /\ t.stage \in {"pull", "page"} => Covers(seq, t.after, Reach(s))

ReplicaInv ==
    /\ \A g \in Engines : EngineOK(engine[g], log)
    /\ \A d \in Devices : SavedOK(disk[d], log)
    /\ \A h \in Handlers : CallOK(task[h], engine[EngineOf[h]], log, storing)

LEMMA IdsUnion == \A S, T : Ids(S \cup T) = Ids(S) \cup Ids(T)
  BY DEF Ids

LEMMA IdsMember == \A S : \A x \in S : Id(x) \in Ids(S)
  BY DEF Ids

(* A fresh engine or state file claims nothing. *)
LEMMA FreshOK ==
    ASSUME NEW seq \in Seq(Envelope), NEW rest
    PROVE  /\ EngineOK(Down, seq)
           /\ SavedOK(FreshState, seq)
           /\ \A s : CallOK(Idle, s, seq, rest)
<1>1. Applied(FreshState) = {} /\ Reach(Down) = {}
  BY EmptyMembers DEF Applied, Reach, Ids, FreshState, Down, Constructed, NoMaterial
<1>2. Covers(seq, 0, {})
  BY DEF Covers
<1>3. EngineOK(Down, seq)
  BY <1>1, <1>2 DEF EngineOK, Down, Constructed, FreshState
<1>4. SavedOK(FreshState, seq)
  BY <1>1, <1>2 DEF SavedOK, FreshState
<1>5. ASSUME NEW s PROVE CallOK(Idle, s, seq, rest)
  BY <1>4 DEF CallOK, Idle, PageOK
<1> QED
  BY <1>3, <1>4, <1>5

(* The constructor and persistence() keep what is known of the relay. *)
LEMMA ConversionsOK ==
    ASSUME NEW seq
    PROVE  /\ \A p \in State : SavedOK(p, seq) => EngineOK(Constructed(p), seq)
           /\ \A s \in EngineState :
                 EngineOK(s, seq) /\ s.todo = <<>> => SavedOK(Persistence(s), seq)
<1>1. ASSUME NEW p \in State, SavedOK(p, seq) PROVE EngineOK(Constructed(p), seq)
  <2>1. Reach(Constructed(p)) = Applied(p)
    BY EmptyMembers DEF Reach, Applied, Constructed, Ids
  <2>2. /\ Constructed(p).sent = p.sent /\ Constructed(p).journal = p.journal
        /\ Constructed(p).replay = p.journal /\ Constructed(p).cursor = p.cursor
    BY DEF Constructed
  <2> QED
    BY <1>1, <2>1, <2>2 DEF EngineOK, SavedOK
<1>2. ASSUME NEW s \in EngineState, EngineOK(s, seq), s.todo = <<>>
      PROVE  SavedOK(Persistence(s), seq)
  <2>1. Applied(Persistence(s)) = Applied(s)
    BY DEF Applied, Persistence
  <2>2. Reach(s) = Applied(s)
    BY <1>2, EmptyMembers DEF Reach, Ids
  <2>3. /\ Persistence(s).sent = s.sent /\ Persistence(s).journal = s.journal
        /\ Persistence(s).cursor = s.cursor
    BY DEF Persistence
  <2> QED
    BY <1>2, <2>1, <2>2, <2>3 DEF EngineOK, SavedOK
<1> QED
  BY <1>1, <1>2

(* What covers a cursor covers it when more is applied, or more is stored. *)
LEMMA CoversMore ==
    ASSUME NEW seq \in Seq(Envelope), NEW c \in Nat, NEW S, NEW T, S \subseteq T,
           Covers(seq, c, S)
    PROVE  Covers(seq, c, T) /\ \A x \in Envelope : Covers(Append(seq, x), c, S)
  BY DEF Covers

(* An engine that goes on applying keeps what its calls have asked for. *)
LEMMA CallOnMore ==
    ASSUME NEW seq \in Seq(Envelope), NEW rest, NEW t \in Task, NEW s, NEW r,
           CallOK(t, s, seq, rest), s.up = r.up, Reach(s) \subseteq Reach(r)
    PROVE  CallOK(t, r, seq, rest)
<1>1. t.after \in Nat
  BY DEF Task
<1>2. Covers(seq, t.after, Reach(s)) => Covers(seq, t.after, Reach(r))
  BY <1>1, CoversMore
<1> QED
  BY <1>2 DEF CallOK

(* Nothing that holds of the log is lost when the relay stores a record. *)
LEMMA StoringKeeps ==
    ASSUME NEW seq \in Seq(Envelope), NEW x \in Envelope
    PROVE  LET more == Append(seq, x) IN
           /\ \A s \in EngineState : EngineOK(s, seq) => EngineOK(s, more)
           /\ \A p \in State : SavedOK(p, seq) => SavedOK(p, more)
           /\ \A t \in Task, s \in EngineState : \A rest :
                 x \in rest /\ CallOK(t, s, seq, rest) => CallOK(t, s, more, rest \ {x})
<1> DEFINE more == Append(seq, x)
<1>1. /\ Ids(Members(more)) = Ids(Members(seq)) \cup {Id(x)}
      /\ \A S : \A c \in Nat : Covers(seq, c, S) => Covers(more, c, S)
  <2>1. Members(more) = Members(seq) \cup {x}
    BY AppendMembers
  <2>2. Ids(Members(more)) = Ids(Members(seq)) \cup {Id(x)}
    BY <2>1 DEF Ids
  <2> QED
    BY <2>2, CoversMore
<1>2. Len(more) = Len(seq) + 1 /\ \A i \in 1..Len(seq) : more[i] = seq[i]
  OBVIOUS
<1> HIDE DEF more
<1>3. ASSUME NEW s \in EngineState, EngineOK(s, seq) PROVE EngineOK(s, more)
  <2>1. s.cursor \in Nat
    BY DEF EngineState
  <2> QED
    BY <1>1, <1>3, <2>1 DEF EngineOK
<1>4. ASSUME NEW p \in State, SavedOK(p, seq) PROVE SavedOK(p, more)
  <2>1. p.cursor \in Nat
    BY DEF State
  <2> QED
    BY <1>1, <1>4, <2>1 DEF SavedOK
<1>5. ASSUME NEW t \in Task, NEW s \in EngineState, NEW rest,
             x \in rest, CallOK(t, s, seq, rest)
      PROVE  CallOK(t, s, more, rest \ {x})
  <2>1. t.saved \in State /\ t.after \in Nat /\ t.page \in Seq(Envelope)
    BY DEF Task
  <2>2. SavedOK(t.saved, more)
    BY <1>4, <1>5, <2>1 DEF CallOK
  <2>3. t.stage = "page" => PageOK(t, more)
    <3> SUFFICES ASSUME t.stage = "page", NEW i \in 1..Len(t.page)
                 PROVE  t.after + i <= Len(more) /\ t.page[i] = more[t.after + i]
      BY DEF PageOK
    <3>1. t.after + i <= Len(seq) /\ t.page[i] = seq[t.after + i]
      BY <1>5 DEF CallOK, PageOK
    <3>2. t.after + i \in 1..Len(seq)
      BY <2>1, <3>1
    <3> QED
      BY <1>2, <3>1, <3>2
  <2>4. Ids(rest) \subseteq Ids(rest \ {x}) \cup {Id(x)}
    BY DEF Ids
  <2>5. ResetsAlone /\ t.stage \in {"pull", "page"} => Covers(more, t.after, Reach(s))
    BY <1>1, <1>5, <2>1 DEF CallOK
  <2> QED
    BY <1>1, <1>5, <2>2, <2>3, <2>4, <2>5 DEF CallOK
<1> QED
  BY <1>3, <1>4, <1>5 DEF more

LEMMA ReplicaInit == Init => ReplicaInv
<1> SUFFICES ASSUME Init PROVE ReplicaInv
  OBVIOUS
<1>1. log \in Seq(Envelope)
  BY TypeInit DEF TypeOK
<1> QED
  BY <1>1, FreshOK, CloudSyncAssumption DEF Init, ReplicaInv

(* An engine that applies what its journal has, or what it was about to. *)
LEMMA EngineOnMore ==
    ASSUME NEW seq \in Seq(Envelope), NEW s \in EngineState, EngineOK(s, seq), NEW r,
           r.sent = s.sent, r.cursor = s.cursor,
           r.replay \subseteq s.replay \/ r.replay = s.journal,
           s.journal \subseteq r.journal,
           Reach(s) \subseteq Reach(r),
           Reach(r) \subseteq Reach(s) \cup Ids(r.journal)
    PROVE  EngineOK(r, seq)
<1>1. s.cursor \in Nat
  BY DEF EngineState
<1>2. Ids(s.journal) \subseteq Ids(r.journal)
  BY DEF Ids
<1>3. Covers(seq, s.cursor, Reach(s)) => Covers(seq, r.cursor, Reach(r))
  BY <1>1, CoversMore
<1> QED
  BY <1>2, <1>3 DEF EngineOK

(* A step of one engine and of calls on it. *)
LEMMA EngineMoves ==
    ASSUME TypeOK, ReplicaInv, UNCHANGED <<log, storing, disk>>,
           NEW g \in Engines, NEW r,
           engine' = [engine EXCEPT ![g] = r],
           EngineOK(r, log),
           \A h \in Handlers : IF EngineOf[h] = g THEN CallOK(task'[h], r, log, storing)
                               ELSE task'[h] = task[h]
    PROVE  ReplicaInv'
<1>1. \A k \in Engines : engine'[k] = IF k = g THEN r ELSE engine[k]
  BY DEF TypeOK
<1>2. \A k \in Engines : EngineOK(engine'[k], log')
  BY <1>1 DEF ReplicaInv
<1>3. \A d \in Devices : SavedOK(disk'[d], log')
  BY DEF ReplicaInv
<1>4. \A h \in Handlers : CallOK(task'[h], engine'[EngineOf[h]], log', storing')
  BY <1>1, CloudSyncAssumption DEF ReplicaInv
<1> QED
  BY <1>2, <1>3, <1>4 DEF ReplicaInv

(* A step of one call, which may apply more to its engine. *)
LEMMA CallMoves ==
    ASSUME TypeOK, ReplicaInv, UNCHANGED <<log, storing, disk>>,
           NEW h \in Handlers, NEW t, NEW r,
           task' = [task EXCEPT ![h] = t],
           engine' = [engine EXCEPT ![EngineOf[h]] = r],
           CallOK(t, r, log, storing), EngineOK(r, log),
           r.up = engine[EngineOf[h]].up,
           Reach(engine[EngineOf[h]]) \subseteq Reach(r)
    PROVE  ReplicaInv'
<1> DEFINE g == EngineOf[h]
<1>1. g \in Engines
  BY CloudSyncAssumption
<1>2. ASSUME NEW k \in Handlers, EngineOf[k] = g
      PROVE  CallOK(task'[k], r, log, storing)
  <2>1. CASE k = h
    BY <2>1 DEF TypeOK
  <2>2. CASE k # h
    <3>1. task'[k] = task[k] /\ task[k] \in Task /\ log \in Seq(Envelope)
      BY <2>2 DEF TypeOK
    <3>2. CallOK(task[k], engine[g], log, storing)
      BY <1>2 DEF ReplicaInv
    <3> QED
      BY <3>1, <3>2, CallOnMore
  <2> QED
    BY <2>1, <2>2
<1>3. \A k \in Handlers : EngineOf[k] # g => task'[k] = task[k]
  BY DEF TypeOK
<1> QED
  BY <1>1, <1>2, <1>3, EngineMoves, Zenon

(* A step of one call that leaves its engine as it is. *)
LEMMA CallAlone ==
    ASSUME TypeOK, ReplicaInv, UNCHANGED <<engine, log, storing, disk>>,
           NEW h \in Handlers, NEW t,
           task' = [task EXCEPT ![h] = t],
           CallOK(t, engine[EngineOf[h]], log, storing)
    PROVE  ReplicaInv'
<1> DEFINE r == engine[EngineOf[h]]
<1>1. EngineOf[h] \in Engines
  BY CloudSyncAssumption
<1>2. engine' = [engine EXCEPT ![EngineOf[h]] = r]
  BY <1>1 DEF TypeOK
<1>3. EngineOK(r, log)
  BY <1>1 DEF ReplicaInv
<1> QED
  BY <1>2, <1>3, CallMoves

LEMMA ReplicaStep == TypeOK /\ ReplicaInv /\ [Next]_vars => ReplicaInv'
<1> SUFFICES ASSUME TypeOK, ReplicaInv, [Next]_vars PROVE ReplicaInv'
  OBVIOUS
<1>a. \A g \in Engines :
        engine[g] \in EngineState /\ DeviceOf[g] \in Devices /\ EngineOK(engine[g], log)
  BY CloudSyncAssumption DEF TypeOK, ReplicaInv
<1>b. \A h \in Handlers :
        /\ task[h] \in Task
        /\ EngineOf[h] \in Engines
        /\ engine[EngineOf[h]] \in EngineState
        /\ EngineOK(engine[EngineOf[h]], log)
        /\ CallOK(task[h], engine[EngineOf[h]], log, storing)
  BY CloudSyncAssumption DEF TypeOK, ReplicaInv
<1>c. log \in Seq(Envelope)
  BY DEF TypeOK
<1>d. \A s : CallOK(Idle, s, log, storing)
  BY <1>c, FreshOK
<1>e. \A s, stage : s.up /\ stage \notin {"pushed", "pull", "page", "reset"} =>
         CallOK([Idle EXCEPT !.stage = stage], s, log, storing)
  BY <1>d DEF CallOK, Idle, PageOK, SavedOK
<1>1. ASSUME NEW g \in Engines, Load(g) PROVE ReplicaInv'
  <2>0. PICK p \in Readings(DeviceOf[g]) : engine' = [engine EXCEPT ![g] = Constructed(p)]
    BY <1>1 DEF Load
  <2>1. p \in State /\ SavedOK(p, log)
    BY <1>a, <2>0, FreshOK, ConversionTypes DEF TypeOK, ReplicaInv, Readings
  <2>2. EngineOK(Constructed(p), log)
    BY <2>1, ConversionsOK
  <2>3. \A h \in Handlers : EngineOf[h] = g => At(h, "idle")
    BY <1>1, <1>b DEF Load, CallOK, At
  <2>4. ASSUME NEW h \in Handlers, EngineOf[h] = g
        PROVE  CallOK(task'[h], Constructed(p), log, storing)
    BY <1>1, <1>b, <2>3, <2>4 DEF Load, CallOK, At
  <2> QED
    BY <1>1, <2>0, <2>2, <2>4, EngineMoves DEF Load, relayVars
<1>2. ASSUME NEW g \in Engines, ApplyNext(g) PROVE ReplicaInv'
  <2> DEFINE s == engine[g]
             t == Apply(DeviceOf[g], s, Head(s.todo))
             r == [t EXCEPT !.todo = Tail(@)]
  <2>1. s.todo # <<>> /\ s.todo \in Seq(Envelope)
    BY <1>2, <1>a DEF ApplyNext, EngineState
  <2>2. /\ Head(s.todo) \in Envelope
        /\ Members(s.todo) = {Head(s.todo)} \cup Members(Tail(s.todo))
    BY <2>1, TailMembers
  <2>3. /\ t \in EngineState /\ t.todo = s.todo /\ t.sent = s.sent /\ t.cursor = s.cursor
        /\ t.replay = s.replay /\ t.journal = s.journal /\ t.up = s.up
        /\ Applied(t) = Applied(s) \cup {Id(Head(s.todo))}
    BY <1>a, <2>2, ApplyEffect
  <2> HIDE DEF t
  <2>4. /\ r.todo = Tail(s.todo) /\ r.records = t.records /\ r.sent = s.sent
        /\ r.cursor = s.cursor /\ r.replay = s.replay /\ r.journal = s.journal
        /\ r.up = s.up
    BY <2>3 DEF EngineState
  <2>5. Reach(r) = Reach(s)
    BY <2>2, <2>3, <2>4 DEF Reach, Applied, Ids
  <2> HIDE DEF r
  <2>6. EngineOK(r, log)
    BY <1>a, <1>c, <2>4, <2>5, EngineOnMore
  <2>7. ASSUME NEW h \in Handlers, EngineOf[h] = g
        PROVE  CallOK(task'[h], r, log, storing)
    BY <1>2, <1>b, <1>c, <2>4, <2>5, <2>7, CallOnMore DEF ApplyNext
  <2>8. engine' = [engine EXCEPT ![g] = r]
    BY <1>2 DEF ApplyNext, r, t
  <2> QED
    BY <1>2, <2>6, <2>7, <2>8, EngineMoves DEF ApplyNext, relayVars
<1>3. ASSUME NEW g \in Engines, ReplayNext(g) PROVE ReplicaInv'
  <2> DEFINE s == engine[g]
             x == Oldest(s.replay)
             t == Apply(DeviceOf[g], s, x)
             r == [t EXCEPT !.replay = @ \ {x}]
  <2>1. s.replay # {} /\ s.replay \in SUBSET Envelope
    BY <1>3, <1>a DEF ReplayNext, EngineState
  <2>2. x \in Envelope /\ x \in s.replay /\ s.replay \subseteq s.journal
    BY <1>a, <2>1, OldestIsMember DEF EngineOK
  <2> HIDE DEF x
  <2>3. /\ t \in EngineState /\ t.todo = s.todo /\ t.sent = s.sent /\ t.cursor = s.cursor
        /\ t.replay = s.replay /\ t.journal = s.journal /\ t.up = s.up
        /\ Applied(t) = Applied(s) \cup {Id(x)}
    BY <1>a, <2>2, ApplyEffect
  <2> HIDE DEF t
  <2>4. /\ r.todo = s.todo /\ r.records = t.records /\ r.sent = s.sent
        /\ r.cursor = s.cursor /\ r.replay \subseteq s.replay /\ r.journal = s.journal
        /\ r.up = s.up
    BY <2>3 DEF EngineState
  <2>5. Reach(r) = Reach(s) \cup {Id(x)} /\ Id(x) \in Ids(r.journal)
    BY <2>2, <2>3, <2>4 DEF Reach, Applied, Ids
  <2> HIDE DEF r
  <2>6. EngineOK(r, log)
    BY <1>a, <1>c, <2>4, <2>5, EngineOnMore
  <2>7. ASSUME NEW h \in Handlers, EngineOf[h] = g
        PROVE  CallOK(task'[h], r, log, storing)
    BY <1>3, <1>b, <1>c, <2>4, <2>5, <2>7, CallOnMore DEF ReplayNext
  <2>8. engine' = [engine EXCEPT ![g] = r]
    BY <1>3 DEF ReplayNext, r, t, x
  <2> QED
    BY <1>3, <2>6, <2>7, <2>8, EngineMoves DEF ReplayNext, relayVars
<1>f. ASSUME NEW h \in Handlers, NEW x \in Envelope, NEW t,
             UNCHANGED <<log, storing, disk>>, Free(EngineOf[h]),
             task' = [task EXCEPT ![h] = t],
             engine' = [engine EXCEPT ![EngineOf[h]] = Mutate(DeviceOf[EngineOf[h]], @, x)],
             \A s : s.up => CallOK(t, s, log, storing)
      PROVE  ReplicaInv'
  <2> DEFINE s == engine[EngineOf[h]]
             r == Mutate(DeviceOf[EngineOf[h]], s, x)
  <2>1. /\ r.up = s.up /\ r.cursor = s.cursor /\ r.journal = s.journal \cup {x}
        /\ r.sent = s.sent /\ r.todo = s.todo /\ r.replay = s.replay
        /\ Applied(r) = Applied(s) \cup {Id(x)}
    <3>1. s \in EngineState /\ DeviceOf[EngineOf[h]] \in Devices
      BY <1>a, <1>b
    <3> HIDE DEF s
    <3> QED
      BY <3>1, MutateEffect
  <2>2. Reach(r) = Reach(s) \cup {Id(x)} /\ Id(x) \in Ids(r.journal)
    BY <2>1 DEF Reach, Ids
  <2>3. engine' = [engine EXCEPT ![EngineOf[h]] = r]
    BY <1>f
  <2> HIDE DEF r
  <2>4. EngineOK(r, log)
    BY <1>b, <1>c, <2>1, <2>2, EngineOnMore
  <2>5. CallOK(t, r, log, storing)
    BY <1>f, <2>1 DEF Free
  <2> QED
    BY <1>f, <2>1, <2>2, <2>3, <2>4, <2>5, CallMoves
<1>4. ASSUME NEW h \in Handlers, NEW e \in Entities, Journal(h, e) PROVE ReplicaInv'
  <2> DEFINE x == NewEnvelope(DeviceOf[EngineOf[h]], engine[EngineOf[h]], e)
             t == [Idle EXCEPT !.stage = "persist", !.mine = {x}]
  <2>1. x \in Envelope
    BY <1>a, <1>b, NewEnvelopeType DEF TypeOK, AnyEntity
  <2>2. \A s : s.up => CallOK(t, s, log, storing)
    BY <1>d DEF CallOK, Idle, PageOK, SavedOK
  <2> QED
    BY <1>4, <2>1, <2>2, <1>f DEF Journal, CanStart, relayVars
<1>5. ASSUME NEW h \in Handlers, Backup(h) PROVE ReplicaInv'
  <2> DEFINE x == NewEnvelope(DeviceOf[EngineOf[h]], engine[EngineOf[h]],
                              BackupEntity(writes + 1))
             t == [Idle EXCEPT !.stage = SyncEntry(engine[EngineOf[h]])]
  <2>1. BackupEntity(writes + 1) \in AnyEntity
    <3>1. writes + 1 \in 1..MaxWrites
      BY <1>5, CloudSyncAssumption DEF Backup, TypeOK
    <3> QED
      BY <3>1 DEF AnyEntity
  <2>2. x \in Envelope
    BY <1>a, <1>b, <2>1, NewEnvelopeType DEF TypeOK
  <2>3. \A s : s.up => CallOK(t, s, log, storing)
    BY <1>e, SyncEntryType
  <2> QED
    BY <1>5, <2>2, <2>3, <1>f DEF Backup, CanStart, relayVars
<1>6. ASSUME NEW h \in Handlers, NEW value \in BOOLEAN, Pause(h, value) PROVE ReplicaInv'
  <2> DEFINE s == engine[EngineOf[h]]
             r == [s EXCEPT !.paused = value]
  <2>1. /\ r.up = s.up /\ r.cursor = s.cursor /\ r.journal = s.journal
        /\ r.sent = s.sent /\ r.todo = s.todo /\ r.replay = s.replay
        /\ r.records = s.records
    BY <1>b DEF EngineState
  <2>2. Reach(r) = Reach(s)
    BY <2>1 DEF Reach, Applied
  <2>3. engine' = [engine EXCEPT ![EngineOf[h]] = r]
    BY <1>6, <1>b DEF Pause, TypeOK
  <2> HIDE DEF r
  <2>4. EngineOK(r, log)
    BY <1>b, <1>c, <2>1, <2>2, EngineOnMore
  <2>5. CallOK([Idle EXCEPT !.stage = "persist"], r, log, storing)
    BY <1>6, <1>e, <2>1 DEF Pause, CanStart, Free
  <2> QED
    BY <1>6, <2>1, <2>2, <2>3, <2>4, <2>5, CallMoves DEF Pause, relayVars
<1>7. ASSUME NEW h \in Handlers, Sync(h) PROVE ReplicaInv'
  <2>1. CallOK([Idle EXCEPT !.stage = SyncEntry(engine[EngineOf[h]])],
               engine[EngineOf[h]], log, storing)
    BY <1>7, <1>e, SyncEntryType DEF Sync, CanStart, Free
  <2> QED
    BY <1>7, <2>1, CallAlone DEF Sync, relayVars
<1>8. ASSUME NEW h \in Handlers, Reset(h) PROVE ReplicaInv'
  <2>1. "reset" \in Ops /\ engine[EngineOf[h]].up
    BY <1>8 DEF Reset, CanStart, Free
  <2>2. CallOK([Idle EXCEPT !.stage = "reset"], engine[EngineOf[h]], log, storing)
    BY <1>d, <2>1 DEF CallOK, Idle, PageOK, SavedOK
  <2> QED
    BY <1>8, <2>2, CallAlone DEF Reset, relayVars
<1>9. ASSUME NEW h \in Handlers, ResetDone(h) PROVE ReplicaInv'
  <2> DEFINE s == engine[EngineOf[h]]
             r == Forgotten(s)
             t == [Idle EXCEPT !.stage = "persist", !.then = "sync"]
  <2>1. s.up /\ s.todo = <<>> /\ s.replay = {} /\ "reset" \in Ops
    BY <1>9, <1>b DEF ResetDone, CanResume, Free, CallOK, At
  <2>2. /\ r.up = s.up /\ r.cursor = 0 /\ r.sent = {} /\ r.records = <<>>
        /\ r.todo = <<>> /\ r.replay = {} /\ r.journal = s.journal
    BY <1>b, <2>1 DEF Forgotten, EngineState
  <2>3. Reach(r) = {}
    BY <2>2, EmptyMembers DEF Reach, Applied, Ids
  <2> HIDE DEF r
  <2>4. EngineOK(r, log)
    BY <1>c, <2>2, <2>3 DEF EngineOK, Covers
  <2>5. CallOK(t, r, log, storing)
    BY <1>d, <2>1, <2>2 DEF CallOK, Idle, PageOK, SavedOK
  <2>6. ASSUME NEW k \in Handlers, EngineOf[k] = EngineOf[h]
        PROVE  CallOK(task'[k], r, log, storing)
    <3>1. CASE k = h
      BY <1>9, <2>5, <3>1 DEF ResetDone, TypeOK
    <3>2. CASE k # h
      <4>1. ~ResetsAlone
        BY <2>1, <2>6, <3>2 DEF ResetsAlone
      <4>2. task'[k] = task[k]
        BY <1>9, <3>2 DEF ResetDone, TypeOK
      <4> QED
        BY <1>b, <2>1, <2>2, <2>6, <4>1, <4>2 DEF CallOK
    <3> QED
      BY <3>1, <3>2
  <2>7. \A k \in Handlers : EngineOf[k] # EngineOf[h] => task'[k] = task[k]
    BY <1>9 DEF ResetDone, TypeOK
  <2>8. engine' = [engine EXCEPT ![EngineOf[h]] = r]
    BY <1>9 DEF ResetDone, r
  <2> QED
    BY <1>9, <1>b, <2>4, <2>6, <2>7, <2>8, EngineMoves DEF ResetDone, relayVars
<1>10. ASSUME NEW h \in Handlers, ChunksUploaded(h) PROVE ReplicaInv'
  <2> DEFINE s == engine[EngineOf[h]]
             pending == {x \in s.journal : Id(x) \notin s.sent}
             t == IF pending # {}
                  THEN [task[h] EXCEPT !.stage = "push", !.batch = pending]
                  ELSE [task[h] EXCEPT !.stage = "pull", !.after = s.cursor]
  <2>1. s.up
    BY <1>10 DEF ChunksUploaded, CanResume, Free
  <2>2. /\ t.saved = task[h].saved /\ t.page = task[h].page
        /\ t.stage \in {"push", "pull"}
        /\ t.stage = "pull" => t.after = s.cursor
        /\ t.stage = "push" => t.after = task[h].after
    BY <1>b DEF Task
  <2> HIDE DEF t
  <2>3. CallOK(t, s, log, storing)
    BY <1>b, <2>1, <2>2 DEF CallOK, EngineOK
  <2> QED
    BY <1>10, <2>3, CallAlone DEF ChunksUploaded, relayVars, t
<1>11. ASSUME NEW h \in Handlers, PushRefused(h) PROVE ReplicaInv'
  BY <1>11, <1>d, CallAlone DEF PushRefused, relayVars
<1>12. ASSUME NEW h \in Handlers, RelayPush(h) PROVE ReplicaInv'
  <2>1. /\ storing = {} /\ storing' = task[h].batch /\ At(h, "push")
        /\ UNCHANGED <<engine, disk, log>>
        /\ \A k \in Handlers : task'[k] = IF k = h THEN [task[h] EXCEPT !.stage = "pushed"]
                                          ELSE task[k]
    BY <1>12 DEF RelayPush, TypeOK
  <2>2. \A k \in Handlers : CallOK(task'[k], engine[EngineOf[k]], log, storing')
    <3> SUFFICES ASSUME NEW k \in Handlers
                 PROVE  CallOK(task'[k], engine[EngineOf[k]], log, storing')
      OBVIOUS
    <3>1. CASE k # h
      BY <1>b, <2>1, <3>1 DEF CallOK, Ids
    <3>2. CASE k = h
      <4> DEFINE t == [task[h] EXCEPT !.stage = "pushed"]
      <4>1. t.saved = task[h].saved /\ t.stage = "pushed" /\ t.batch = task[h].batch
        BY <1>b DEF Task
      <4> HIDE DEF t
      <4>2. CallOK(t, engine[EngineOf[h]], log, task[h].batch)
        BY <1>b, <2>1, <4>1 DEF CallOK, At
      <4> QED
        BY <2>1, <3>2, <4>2 DEF t
    <3> QED
      BY <3>1, <3>2
  <2> QED
    BY <2>1, <2>2 DEF ReplicaInv
<1>13. ASSUME NEW h \in Handlers, PushAccepted(h) PROVE ReplicaInv'
  <2> DEFINE s == engine[EngineOf[h]]
             ids == Ids(task[h].batch)
             r == [s EXCEPT !.sent = @ \cup ids]
             t == [task[h] EXCEPT !.stage = "pull", !.batch = {}, !.after = s.cursor]
  <2>1. s.up /\ storing = {} /\ At(h, "pushed")
    BY <1>13 DEF PushAccepted, CanResume, Free
  <2>2. ids \subseteq Ids(Members(log))
    BY <1>b, <2>1 DEF CallOK, At, Ids
  <2> HIDE DEF ids
  <2>3. /\ r.up = s.up /\ r.cursor = s.cursor /\ r.journal = s.journal
        /\ r.sent = s.sent \cup ids /\ r.todo = s.todo /\ r.replay = s.replay
        /\ r.records = s.records
    BY <1>b DEF EngineState
  <2>4. t.saved = task[h].saved /\ t.stage = "pull" /\ t.after = s.cursor
    BY <1>b DEF Task
  <2>5. engine' = [engine EXCEPT ![EngineOf[h]] = r]
    BY <1>13, <1>b DEF PushAccepted, TypeOK, ids
  <2>6. task' = [task EXCEPT ![h] = t]
    BY <1>13 DEF PushAccepted
  <2> HIDE DEF r, t
  <2>7. Reach(r) = Reach(s)
    BY <2>3 DEF Reach, Applied
  <2>8. EngineOK(r, log)
    BY <1>b, <2>2, <2>3, <2>7 DEF EngineOK
  <2>9. CallOK(t, r, log, storing)
    BY <1>b, <2>1, <2>3, <2>4, <2>8 DEF CallOK, EngineOK
  <2> QED
    BY <1>13, <2>3, <2>5, <2>6, <2>7, <2>8, <2>9, CallMoves DEF PushAccepted, relayVars
<1>14. ASSUME NEW h \in Handlers, RelayPull(h) PROVE ReplicaInv'
  <2> DEFINE after == task[h].after
             last == IF after + PageLimit <= Len(log) THEN after + PageLimit ELSE Len(log)
             page == SubSeq(log, after + 1, last)
             t == [task[h] EXCEPT !.stage = "page", !.page = page]
  <2>1. after \in Nat /\ Len(log) \in Nat /\ PageLimit \in Nat
    BY <1>b, <1>c, CloudSyncAssumption DEF Task
  <2>2. last \in Nat /\ last <= Len(log)
    BY <2>1
  <2>3. task' = [task EXCEPT ![h] = t]
    BY <1>14 DEF RelayPull
  <2>4. engine[EngineOf[h]].up /\ At(h, "pull")
    BY <1>14, <1>b DEF RelayPull, CallOK, At
  <2> HIDE DEF last
  <2>5. /\ Len(page) = IF after + 1 <= last THEN last - after ELSE 0
        /\ \A i \in 1..Len(page) : page[i] = log[after + i]
    <3> HIDE DEF after
    <3>1. log \in Seq(Envelope) /\ after \in Nat /\ last \in Nat /\ last <= Len(log)
      BY <1>c, <2>1, <2>2
    <3>2. /\ Len(SubSeq(log, after + 1, last)) = IF after + 1 <= last THEN last - after ELSE 0
          /\ \A i \in 1..Len(SubSeq(log, after + 1, last)) :
                SubSeq(log, after + 1, last)[i] = log[after + i]
      BY ONLY <3>1, PageMembers
    <3> QED
      BY <3>2
  <2> HIDE DEF page
  <2>6. /\ t.saved = task[h].saved /\ t.stage = "page" /\ t.after = after
        /\ t.page = page
    BY <1>b DEF Task
  <2> HIDE DEF t
  <2>7. PageOK(t, log)
    BY <2>1, <2>2, <2>5, <2>6 DEF PageOK
  <2>8. CallOK(t, engine[EngineOf[h]], log, storing)
    BY <1>b, <2>4, <2>6, <2>7 DEF CallOK, At
  <2> QED
    BY <1>14, <2>3, <2>8, CallAlone DEF RelayPull, relayVars
<1>15. ASSUME NEW h \in Handlers, PageReceived(h) PROVE ReplicaInv'
  <2> DEFINE s == engine[EngineOf[h]]
             after == task[h].after
             page == task[h].page
             cursor == CursorAfter(after, page)
             r == [s EXCEPT !.todo = page, !.cursor = cursor]
             t == IF Len(page) < PageLimit THEN [Idle EXCEPT !.stage = "persist"]
                  ELSE [task[h] EXCEPT !.stage = "pull", !.after = cursor, !.page = <<>>]
  <2>1. At(h, "page") /\ s.up /\ s.todo = <<>> /\ s.replay = {}
    BY <1>15 DEF PageReceived, CanResume, Free
  <2>2. after \in Nat /\ page \in Seq(Envelope) /\ cursor = after + Len(page)
    BY <1>b DEF Task, CursorAfter
  <2>3. engine' = [engine EXCEPT ![EngineOf[h]] = r] /\ task' = [task EXCEPT ![h] = t]
    BY <1>15, <1>b DEF PageReceived, TypeOK
  <2>4. \A i \in 1..Len(page) : after + i <= Len(log) /\ page[i] = log[after + i]
    BY <1>b, <2>1 DEF CallOK, PageOK, At
  <2> HIDE DEF cursor
  <2>5. /\ r.up = s.up /\ r.cursor = cursor /\ r.journal = s.journal
        /\ r.sent = s.sent /\ r.todo = page /\ r.replay = {}
        /\ r.records = s.records
    BY <1>b, <2>1 DEF EngineState
  <2>6. /\ t.stage \in {"persist", "pull"}
        /\ t.stage = "pull" => t.after = cursor
        /\ SavedOK(t.saved, log)
    <3>1. Idle.saved = FreshState /\ [Idle EXCEPT !.stage = "persist"].saved = Idle.saved
          /\ [Idle EXCEPT !.stage = "persist"].stage = "persist"
      BY DEF Idle
    <3>2. SavedOK(Idle.saved, log) /\ SavedOK(task[h].saved, log)
      BY <1>b, <1>d DEF CallOK
    <3>3. LET w == [task[h] EXCEPT !.stage = "pull", !.after = cursor, !.page = <<>>] IN
          w.saved = task[h].saved /\ w.stage = "pull" /\ w.after = cursor
      BY <1>b DEF Task
    <3> QED
      BY <3>1, <3>2, <3>3
  <2> HIDE DEF r, t
  <2>7. Reach(s) = Applied(s) /\ Reach(r) = Applied(s) \cup Ids(Members(page))
    BY <2>1, <2>5, EmptyMembers DEF Reach, Applied, Ids
  <2>8. Ids(Members(page)) \subseteq Ids(Members(log))
    <3>1. \A i \in 1..Len(page) : after + i \in 1..Len(log)
      BY <2>2, <2>4, <1>c
    <3> QED
      BY <2>4, <3>1 DEF Members, Ids
  <2>9. ResetsAlone => Covers(log, cursor, Reach(r))
    <3> SUFFICES ASSUME ResetsAlone PROVE Covers(log, cursor, Reach(r))
      OBVIOUS
    <3>1. after <= Len(log) /\ \A i \in 1..after : Id(log[i]) \in Reach(s)
      BY <1>b, <2>1 DEF CallOK, Covers, At
    <3>2. cursor <= Len(log)
      BY <1>c, <2>2, <2>4, <3>1
    <3>3. ASSUME NEW i \in 1..cursor PROVE Id(log[i]) \in Reach(r)
      <4>1. CASE i <= after
        BY <2>2, <2>7, <3>1, <4>1
      <4>2. CASE i > after
        <5>1. i - after \in 1..Len(page) /\ after + (i - after) = i
          BY <2>2, <4>2
        <5>2. log[i] \in Members(page)
          BY <2>4, <5>1 DEF Members
        <5> QED
          BY <2>7, <5>2 DEF Ids
      <4> QED
        BY <2>2, <4>1, <4>2
    <3> QED
      BY <3>2, <3>3 DEF Covers
  <2>10. EngineOK(r, log)
    BY <1>b, <2>5, <2>7, <2>8, <2>9 DEF EngineOK
  <2>11. CallOK(t, r, log, storing)
    BY <2>1, <2>5, <2>6, <2>9 DEF CallOK
  <2>12. UNCHANGED <<log, storing, disk>> /\ r.up = s.up /\ Reach(s) \subseteq Reach(r)
    BY <1>15, <2>5, <2>7 DEF PageReceived, relayVars
  <2> QED
    BY <2>3, <2>10, <2>11, <2>12, CallMoves
<1>16. ASSUME NEW h \in Handlers, Serialize(h) PROVE ReplicaInv'
  <2> DEFINE p == Persistence(engine[EngineOf[h]])
             t == [task[h] EXCEPT !.stage = "write", !.saved = p]
  <2>1. engine[EngineOf[h]].up /\ engine[EngineOf[h]].todo = <<>>
    BY <1>16 DEF Serialize, CanResume, Free
  <2>2. SavedOK(p, log)
    BY <1>b, <2>1, ConversionsOK
  <2>3. task' = [task EXCEPT ![h] = t]
    BY <1>16, <1>b DEF Serialize, TypeOK, Task
  <2> HIDE DEF p
  <2>4. t.saved = p /\ t.stage = "write"
    BY <1>b DEF Task
  <2>5. CallOK(t, engine[EngineOf[h]], log, storing)
    BY <2>1, <2>2, <2>4 DEF CallOK
  <2> QED
    BY <1>16, <2>3, <2>5, CallAlone DEF Serialize, relayVars
<1>17. ASSUME NEW h \in Handlers, Write(h) PROVE ReplicaInv'
  <2> DEFINE t == IF task[h].then = "sync"
                  THEN [Idle EXCEPT !.stage = SyncEntry(engine[EngineOf[h]])] ELSE Idle
  <2>1. /\ UNCHANGED <<engine, log, storing>> /\ engine[EngineOf[h]].up
        /\ disk' = [disk EXCEPT ![DeviceOf[EngineOf[h]]] = task[h].saved]
        /\ task' = [task EXCEPT ![h] = t]
    BY <1>17 DEF Write, relayVars, CanResume, Free
  <2>2. SavedOK(task[h].saved, log)
    BY <1>b DEF CallOK
  <2>3. CallOK(t, engine[EngineOf[h]], log, storing)
    BY <1>d, <1>e, <2>1, SyncEntryType
  <2> HIDE DEF t
  <2>4. \A d \in Devices : SavedOK(disk'[d], log)
    BY <2>1, <2>2 DEF ReplicaInv, TypeOK
  <2>5. \A k \in Handlers : CallOK(task'[k], engine[EngineOf[k]], log, storing)
    BY <1>b, <2>1, <2>3 DEF TypeOK
  <2> QED
    BY <2>1, <2>4, <2>5 DEF ReplicaInv
<1>18. ASSUME NEW h \in Handlers, CallFails(h) PROVE ReplicaInv'
  BY <1>18, <1>d, CallAlone DEF CallFails
<1>19. ASSUME NEW g \in Engines, Exit(g) PROVE ReplicaInv'
  <2>1. EngineOK(Down, log)
    BY <1>c, FreshOK
  <2>2. \A h \in Handlers : task'[h] = IF EngineOf[h] = g THEN Idle ELSE task[h]
    BY <1>19 DEF Exit
  <2> QED
    BY <1>19, <1>d, <2>1, <2>2, EngineMoves DEF Exit
<1>20. ASSUME NEW b \in stray, RelayStray(b) PROVE ReplicaInv'
  <2>1. \A h \in Handlers : CallOK(task[h], engine[EngineOf[h]], log, b)
    BY <1>20, <1>b DEF RelayStray, CallOK, Ids
  <2> QED
    BY <1>20, <2>1 DEF RelayStray, ReplicaInv
<1>21. CASE RelayStore
  <2> DEFINE x == Oldest(storing)
  <2>1. x \in storing /\ x \in Envelope
    BY <1>21, OldestIsMember DEF RelayStore, TypeOK
  <2>2. /\ storing' = storing \ {x} /\ UNCHANGED <<engine, task, disk>>
        /\ log' = IF Id(x) \in Ids(Members(log)) THEN log ELSE Append(log, x)
    BY <1>21 DEF RelayStore
  <2> HIDE DEF x
  <2>3. CASE Id(x) \in Ids(Members(log))
    <3>1. Ids(storing) \subseteq Ids(storing') \cup {Id(x)}
      BY <2>2 DEF Ids
    <3>2. \A h \in Handlers : CallOK(task[h], engine[EngineOf[h]], log, storing')
      BY <1>b, <2>3, <3>1 DEF CallOK
    <3> QED
      BY <2>2, <2>3, <3>2 DEF ReplicaInv
  <2>4. CASE Id(x) \notin Ids(Members(log))
    <3>1. \A d \in Devices : disk[d] \in State /\ SavedOK(disk[d], log)
      BY DEF TypeOK, ReplicaInv
    <3> QED
      BY <1>a, <1>b, <1>c, <2>1, <2>2, <2>4, <3>1, StoringKeeps DEF ReplicaInv
  <2> QED
    BY <2>3, <2>4
<1>22. CASE UNCHANGED vars
  BY <1>22 DEF vars, ReplicaInv
<1> QED
  BY <1>1, <1>2, <1>3, <1>4, <1>5, <1>6, <1>7, <1>8, <1>9, <1>10, <1>11, <1>12,
     <1>13, <1>14, <1>15, <1>16, <1>17, <1>18, <1>19, <1>20, <1>21, <1>22
     DEF Next, EngineStep, CallBegins, CallGoesOn

LEMMA ReplicaInvariant == Spec => []ReplicaInv
<1>1. TypeOK /\ ReplicaInv /\ [Next]_vars => ReplicaInv'
  BY ReplicaStep
<1> QED
  BY <1>1, ReplicaInit, TypeCorrect, PTL DEF Spec

(* What a device believes of the relay is so: an id it counts as sent is in *)
(* the log, whichever answers were lost and however often it crashed        *)
(* (engine.ts: sent grows on an acknowledgement and is saved with the rest). *)
THEOREM SentIsAlwaysStored == Spec => []SentIsStored
<1>1. ReplicaInv => SentIsStored
  BY DEF ReplicaInv, EngineOK, SavedOK, SentIsStored
<1> QED
  BY <1>1, ReplicaInvariant, PTL

(* No pull skips a record: where no reset runs beside another call of its    *)
(* engine, everything up to a cursor has been applied, in memory and in the  *)
(* state file (sync() and reset() of engine.ts).                             *)
THEOREM CursorNeverSkips == ASSUME ResetsAlone PROVE Spec => []CursorSound
<1>1. ReplicaInv => CursorSound
  <2> SUFFICES ASSUME ReplicaInv PROVE CursorSound
    OBVIOUS
  <2>1. ASSUME NEW g \in Engines, Free(g)
        PROVE  CoveredBy(engine[g].cursor, Applied(engine[g]))
    <3>1. Reach(engine[g]) = Applied(engine[g])
      BY <2>1, EmptyMembers DEF Free, Reach, Ids
    <3> QED
      BY <3>1 DEF ReplicaInv, EngineOK, Covers, CoveredBy
  <2>2. ASSUME NEW d \in Devices
        PROVE  CoveredBy(disk[d].cursor, Applied(disk[d]))
    BY DEF ReplicaInv, SavedOK, Covers, CoveredBy
  <2> QED
    BY <2>1, <2>2 DEF CursorSound
<1> QED
  BY <1>1, ReplicaInvariant, PTL

(* Under the same condition, an engine that has sent its journal and pulled  *)
(* to the end has applied exactly what the relay has.                        *)
THEOREM InSyncAgrees == ASSUME ResetsAlone PROVE Spec => []InSyncSameRecords
<1>1. TypeOK /\ ReplicaInv => InSyncSameRecords
  <2> SUFFICES ASSUME TypeOK, ReplicaInv, NEW g \in Engines, InSync(g)
               PROVE  Applied(engine[g]) = Ids(Members(log))
    BY DEF InSyncSameRecords
  <2>1. Reach(engine[g]) = Applied(engine[g])
    BY EmptyMembers DEF InSync, Free, Reach, Ids
  <2>2. Applied(engine[g]) \subseteq Ids(Members(log))
    BY <2>1 DEF ReplicaInv, EngineOK, InSync
  <2>3. \A i \in 1..Len(log) : Id(log[i]) \in Applied(engine[g])
    BY <2>1 DEF ReplicaInv, EngineOK, Covers, InSync
  <2> QED
    BY <2>2, <2>3 DEF Ids, Members
<1> QED
  BY <1>1, ReplicaInvariant, TypeCorrect, PTL

-----------------------------------------------------------------------------
(* What an engine shows of what it has applied                             *)

(* What apply() does to the materialization when the record is new. *)
Merges(s, t, x) ==
    /\ Id(x) \notin Applied(s)
    /\ Members(t.records) = Members(s.records) \cup {x}
    /\ t.current[x.entity] =
          IF Replaces(x, s.current[x.entity]) THEN x ELSE s.current[x.entity]
    /\ t.conflicts[x.entity] = s.conflicts[x.entity] \cup Losers(x, s.current[x.entity])
    /\ \A e \in AnyEntity \ {x.entity} :
          t.current[e] = s.current[e] /\ t.conflicts[e] = s.conflicts[e]

SameMaterial(s, t) ==
    /\ t.records = s.records
    /\ t.current = s.current
    /\ t.conflicts = s.conflicts

NothingShown(t) ==
    /\ t.records = <<>>
    /\ t.current = NoMaterial.current
    /\ t.conflicts = NoMaterial.conflicts

MaterialStep(s, t) ==
    \/ SameMaterial(s, t)
    \/ NothingShown(t)
    \/ \E x \in Envelope : Merges(s, t, x)

(* The lemmas on apply() and mutate(), as a step of the materialization. *)
LEMMA ApplyMaterial ==
    ASSUME NEW d \in Devices, NEW s \in EngineState, NEW x \in Envelope
    PROVE  /\ SameMaterial(s, Apply(d, s, x)) \/ Merges(s, Apply(d, s, x), x)
           /\ SameMaterial(s, Mutate(d, s, x)) \/ Merges(s, Mutate(d, s, x), x)
<1>1. SameMaterial(s, Apply(d, s, x)) \/ Merges(s, Apply(d, s, x), x)
  BY ApplyEffect DEF SameMaterial, Merges
<1>2. SameMaterial(s, Mutate(d, s, x)) \/ Merges(s, Mutate(d, s, x), x)
  <2> DEFINE r == Journaled(s, x)
  <2>1. /\ r \in EngineState /\ Mutate(d, s, x) = Apply(d, r, x)
        /\ r.records = s.records /\ r.current = s.current /\ r.conflicts = s.conflicts
    BY MutateEffect
  <2> HIDE DEF r
  <2>2. SameMaterial(r, Apply(d, r, x)) \/ Merges(r, Apply(d, r, x), x)
    BY <2>1, ApplyEffect DEF SameMaterial, Merges
  <2> QED
    BY <2>1, <2>2 DEF SameMaterial, Merges, Applied
<1> QED
  BY <1>1, <1>2

LEMMA MaterialMoves ==
    TypeOK /\ [Next]_vars => \A g \in Engines : MaterialStep(engine[g], engine'[g])
<1> SUFFICES ASSUME TypeOK, [Next]_vars, NEW g \in Engines
             PROVE  MaterialStep(engine[g], engine'[g])
  OBVIOUS
<1>a. engine[g] \in EngineState /\ DeviceOf[g] \in Devices
  BY CloudSyncAssumption DEF TypeOK
<1>b. engine' = engine => MaterialStep(engine[g], engine'[g])
  BY DEF MaterialStep, SameMaterial
<1>c. NothingShown(Down) /\ \A p : NothingShown(Constructed(p))
  BY DEF NothingShown, Down, Constructed, FreshState
<1>d. \A k, r : engine' = [engine EXCEPT ![k] = r] =>
         engine'[g] = (IF k = g THEN r ELSE engine[g])
  BY DEF TypeOK
<1>e. SameMaterial(engine[g], engine[g])
  BY DEF SameMaterial
<1>1. ASSUME NEW k \in Engines, Load(k) PROVE MaterialStep(engine[g], engine'[g])
  BY <1>1, <1>c, <1>d, <1>e DEF Load, MaterialStep
<1>2. ASSUME NEW k \in Engines, ApplyNext(k) PROVE MaterialStep(engine[g], engine'[g])
  <2> DEFINE s == engine[g]
             t == Apply(DeviceOf[g], s, Head(s.todo))
             r == [t EXCEPT !.todo = Tail(@)]
  <2>1. k # g => engine'[g] = s
    BY <1>2 DEF ApplyNext, TypeOK
  <2>2. CASE k = g
    <3>1. s.todo # <<>> /\ s.todo \in Seq(Envelope)
      BY <1>2, <1>a, <2>2 DEF ApplyNext, EngineState
    <3>2. Head(s.todo) \in Envelope
      BY <3>1, TailMembers
    <3>3. t \in EngineState
      BY <1>a, <3>2, ApplyEffect
    <3>4. SameMaterial(s, t) \/ Merges(s, t, Head(s.todo))
      BY <1>a, <3>2, ApplyMaterial
    <3> HIDE DEF t
    <3>5. r.records = t.records /\ r.current = t.current /\ r.conflicts = t.conflicts
      BY <3>3 DEF EngineState
    <3>6. engine'[g] = r
      BY <1>2, <2>2 DEF ApplyNext, TypeOK, t
    <3> HIDE DEF r, s
    <3>7. SameMaterial(s, r) \/ \E y \in Envelope : Merges(s, r, y)
      BY <3>2, <3>4, <3>5 DEF SameMaterial, Merges
    <3> QED
      BY <3>6, <3>7 DEF MaterialStep, s
  <2> QED
    BY <1>e, <2>1, <2>2 DEF MaterialStep
<1>3. ASSUME NEW k \in Engines, ReplayNext(k) PROVE MaterialStep(engine[g], engine'[g])
  <2> DEFINE s == engine[g]
             x == Oldest(s.replay)
             t == Apply(DeviceOf[g], s, x)
             r == [t EXCEPT !.replay = @ \ {x}]
  <2>1. k # g => engine'[g] = s
    BY <1>3 DEF ReplayNext, TypeOK
  <2>2. CASE k = g
    <3>1. s.replay # {} /\ s.replay \in SUBSET Envelope
      BY <1>3, <1>a, <2>2 DEF ReplayNext, EngineState
    <3>2. x \in Envelope
      BY <3>1, OldestIsMember
    <3> HIDE DEF x
    <3>3. t \in EngineState
      BY <1>a, <3>2, ApplyEffect
    <3>4. SameMaterial(s, t) \/ Merges(s, t, x)
      BY <1>a, <3>2, ApplyMaterial
    <3> HIDE DEF t
    <3>5. r.records = t.records /\ r.current = t.current /\ r.conflicts = t.conflicts
      BY <3>3 DEF EngineState
    <3>6. engine'[g] = r
      BY <1>3, <2>2 DEF ReplayNext, TypeOK, t, x
    <3> HIDE DEF r, s
    <3>7. SameMaterial(s, r) \/ \E y \in Envelope : Merges(s, r, y)
      BY <3>2, <3>4, <3>5 DEF SameMaterial, Merges
    <3> QED
      BY <3>6, <3>7 DEF MaterialStep, s
  <2> QED
    BY <1>e, <2>1, <2>2 DEF MaterialStep
<1>f. ASSUME NEW k \in Engines, NEW x \in Envelope,
             engine' = [engine EXCEPT ![k] = Mutate(DeviceOf[k], @, x)]
      PROVE  MaterialStep(engine[g], engine'[g])
  <2>1. engine'[g] = IF k = g THEN Mutate(DeviceOf[g], engine[g], x) ELSE engine[g]
    BY <1>f DEF TypeOK
  <2>2. \/ SameMaterial(engine[g], Mutate(DeviceOf[g], engine[g], x))
        \/ Merges(engine[g], Mutate(DeviceOf[g], engine[g], x), x)
    BY <1>a, ApplyMaterial
  <2> QED
    BY <1>e, <2>1, <2>2 DEF MaterialStep
<1>g. ASSUME NEW h \in Handlers
      PROVE  EngineOf[h] \in Engines /\ engine[EngineOf[h]] \in EngineState
             /\ DeviceOf[EngineOf[h]] \in Devices
  BY CloudSyncAssumption DEF TypeOK
<1>4. ASSUME NEW h \in Handlers, NEW e \in Entities, Journal(h, e)
      PROVE  MaterialStep(engine[g], engine'[g])
  <2>1. NewEnvelope(DeviceOf[EngineOf[h]], engine[EngineOf[h]], e) \in Envelope
    BY <1>g, NewEnvelopeType DEF TypeOK, AnyEntity
  <2> QED
    BY <1>4, <1>f, <1>g, <2>1 DEF Journal
<1>5. ASSUME NEW h \in Handlers, Backup(h) PROVE MaterialStep(engine[g], engine'[g])
  <2>1. BackupEntity(writes + 1) \in AnyEntity
    <3>1. writes + 1 \in 1..MaxWrites
      BY <1>5, CloudSyncAssumption DEF Backup, TypeOK
    <3> QED
      BY <3>1 DEF AnyEntity
  <2>2. NewEnvelope(DeviceOf[EngineOf[h]], engine[EngineOf[h]], BackupEntity(writes + 1))
          \in Envelope
    BY <1>g, <2>1, NewEnvelopeType DEF TypeOK
  <2> QED
    BY <1>5, <1>f, <1>g, <2>2 DEF Backup
<1>6. ASSUME NEW h \in Handlers, NEW value \in BOOLEAN, Pause(h, value)
      PROVE  MaterialStep(engine[g], engine'[g])
  <2>1. SameMaterial(engine[g], engine'[g])
    BY <1>6, <1>a, <1>e DEF Pause, TypeOK, EngineState, SameMaterial
  <2> QED
    BY <2>1 DEF MaterialStep
<1>7. ASSUME NEW h \in Handlers, ResetDone(h) PROVE MaterialStep(engine[g], engine'[g])
  <2>1. NothingShown(Forgotten(engine[g]))
    BY <1>a DEF NothingShown, Forgotten, EngineState
  <2>2. engine'[g] = IF EngineOf[h] = g THEN Forgotten(engine[g]) ELSE engine[g]
    BY <1>7 DEF ResetDone, TypeOK
  <2> QED
    BY <1>e, <2>1, <2>2 DEF MaterialStep
<1>8. ASSUME NEW h \in Handlers, PushAccepted(h) PROVE MaterialStep(engine[g], engine'[g])
  <2>1. SameMaterial(engine[g], engine'[g])
    BY <1>8, <1>a, <1>e DEF PushAccepted, TypeOK, EngineState, SameMaterial
  <2> QED
    BY <2>1 DEF MaterialStep
<1>9. ASSUME NEW h \in Handlers, PageReceived(h) PROVE MaterialStep(engine[g], engine'[g])
  <2>1. SameMaterial(engine[g], engine'[g])
    BY <1>9, <1>a, <1>e DEF PageReceived, TypeOK, EngineState, SameMaterial
  <2> QED
    BY <2>1 DEF MaterialStep
<1>10. ASSUME NEW k \in Engines, Exit(k) PROVE MaterialStep(engine[g], engine'[g])
  BY <1>10, <1>c, <1>d, <1>e DEF Exit, MaterialStep
<1>11. ASSUME NEW h \in Handlers,
              Sync(h) \/ Reset(h) \/ ChunksUploaded(h) \/ PushRefused(h) \/ RelayPush(h)
                \/ RelayPull(h) \/ Serialize(h) \/ Write(h) \/ CallFails(h)
       PROVE  MaterialStep(engine[g], engine'[g])
  BY <1>11, <1>b DEF Sync, Reset, ChunksUploaded, PushRefused, RelayPush, RelayPull,
     Serialize, Write, CallFails
<1>12. ASSUME (\E b \in stray : RelayStray(b)) \/ RelayStore \/ UNCHANGED vars
       PROVE  MaterialStep(engine[g], engine'[g])
  BY <1>12, <1>b DEF RelayStray, RelayStore, vars
<1> QED
  BY <1>1, <1>2, <1>3, <1>4, <1>5, <1>6, <1>7, <1>8, <1>9, <1>10, <1>11, <1>12
     DEF Next, EngineStep, CallBegins, CallGoesOn

(* What an engine shows of an entity is one of its records, and what it has *)
(* applied is shown, kept in the history, or superseded.                    *)
ShowsOwnRecords(s) ==
    \A e \in AnyEntity :
        \/ s.current[e] = NoEnvelope
        \/ s.current[e] \in Members(s.records) /\ s.current[e].entity = e

KeptOrSuperseded(s, x) ==
    \/ x = s.current[x.entity]
    \/ x \in s.conflicts[x.entity]
    \/ Superseded(x, Members(s.records))

MaterialOK(s) ==
    /\ ShowsOwnRecords(s)
    /\ \A x \in Members(s.records) : KeptOrSuperseded(s, x)

LEMMA MaterialKept ==
    ASSUME NEW s \in EngineState, NEW t \in EngineState, MaterialOK(s), MaterialStep(s, t)
    PROVE  MaterialOK(t)
<1>1. CASE SameMaterial(s, t)
  BY <1>1 DEF MaterialOK, ShowsOwnRecords, KeptOrSuperseded, SameMaterial
<1>2. CASE NothingShown(t)
  <2>1. \A e \in AnyEntity : t.current[e] = NoEnvelope
    BY <1>2 DEF NothingShown, NoMaterial
  <2>2. Members(t.records) = {}
    BY <1>2, EmptyMembers DEF NothingShown
  <2> QED
    BY <2>1, <2>2 DEF MaterialOK, ShowsOwnRecords
<1>3. ASSUME NEW x \in Envelope, Merges(s, t, x) PROVE MaterialOK(t)
  <2> DEFINE c == s.current[x.entity]
  <2>1. x.entity \in AnyEntity /\ Members(s.records) \subseteq Envelope
    <3>1. x.entity \in AnyEntity
      BY DEF Envelope
    <3>2. s.records \in Seq(Envelope)
      BY DEF EngineState
    <3> QED
      BY <3>1, <3>2 DEF Members
  <2>2. \A y \in Members(s.records) : y.entity \in AnyEntity
    BY <2>1 DEF Envelope
  <2>3. x \notin Members(s.records)
    BY <1>3 DEF Merges, Applied, Ids
  <2>4. ShowsOwnRecords(t)
    BY <1>3, <2>1 DEF MaterialOK, ShowsOwnRecords, Merges
  <2>5. ASSUME NEW y \in Members(s.records), y # c PROVE KeptOrSuperseded(t, y)
    <3>1. KeptOrSuperseded(s, y)
      BY DEF MaterialOK
    <3>2. Superseded(y, Members(s.records)) => Superseded(y, Members(t.records))
      BY <1>3 DEF Superseded, Merges
    <3>3. s.conflicts[y.entity] \subseteq t.conflicts[y.entity]
      BY <1>3, <2>2 DEF Merges
    <3>4. y = s.current[y.entity] => y = t.current[y.entity]
      BY <1>3, <2>2, <2>5 DEF Merges
    <3> QED
      BY <3>1, <3>2, <3>3, <3>4 DEF KeptOrSuperseded
  <2>6. c # NoEnvelope => /\ c \in Members(s.records) /\ c \in Envelope
                          /\ c.entity = x.entity /\ c # x
    BY <2>1, <2>3 DEF MaterialOK, ShowsOwnRecords
  <2>7. ASSUME c # NoEnvelope PROVE KeptOrSuperseded(t, c)
    <3>1. c.vector \in Vector /\ x.vector \in Vector
      BY <2>6, <2>7 DEF Envelope
    <3>2. CASE ~Replaces(x, c)
      BY <1>3, <2>6, <2>7, <3>2 DEF KeptOrSuperseded, Merges
    <3>3. CASE CompareVectors(x.vector, c.vector) = "after"
      <4>1. CompareVectors(c.vector, x.vector) = "before"
        BY <3>1, <3>3, CompareDual
      <4>2. Superseded(c, Members(t.records))
        BY <1>3, <2>6, <2>7, <4>1 DEF Superseded, Merges
      <4> QED
        BY <4>2 DEF KeptOrSuperseded
    <3>4. CASE CompareVectors(x.vector, c.vector) = "concurrent" /\ IdAbove(x, c)
      <4>1. c \in Losers(x, c)
        BY <2>7, <3>4 DEF Losers
      <4>2. c \in t.conflicts[c.entity]
        BY <1>3, <2>6, <2>7, <4>1 DEF Merges
      <4> QED
        BY <4>2 DEF KeptOrSuperseded
    <3> QED
      BY <2>7, <3>2, <3>3, <3>4 DEF Replaces
  <2>8. KeptOrSuperseded(t, x)
    <3>1. CASE Replaces(x, c)
      BY <1>3, <3>1 DEF KeptOrSuperseded, Merges
    <3>2. CASE ~Replaces(x, c)
      <4>1. c # NoEnvelope /\ c.vector \in Vector /\ x.vector \in Vector
        BY <2>6, <3>2 DEF Replaces, Envelope
      <4>2. CASE CompareVectors(x.vector, c.vector) = "concurrent"
        <5>1. x \in Losers(x, c)
          BY <3>2, <4>1, <4>2 DEF Replaces, Losers
        <5> QED
          BY <1>3, <5>1 DEF KeptOrSuperseded, Merges
      <4>3. CASE CompareVectors(x.vector, c.vector) \in {"before", "equal"}
        BY <1>3, <2>6, <4>1, <4>3 DEF KeptOrSuperseded, Superseded, Merges
      <4> QED
        BY <3>2, <4>1, <4>2, <4>3, CompareDual DEF Replaces
    <3> QED
      BY <3>1, <3>2
  <2>9. \A y \in Members(s.records) : KeptOrSuperseded(t, y)
    BY <2>1, <2>5, <2>7, NoEnvelopeAssumption
  <2> QED
    BY <1>3, <2>4, <2>8, <2>9 DEF MaterialOK, Merges
<1> QED
  BY <1>1, <1>2, <1>3 DEF MaterialStep

MaterialInv == \A g \in Engines : MaterialOK(engine[g])

LEMMA MaterialInvariant == Spec => []MaterialInv
<1>1. Init => MaterialInv
  <2> SUFFICES ASSUME Init, NEW g \in Engines PROVE MaterialOK(engine[g])
    BY DEF MaterialInv
  <2>1. engine[g] = Down
    BY DEF Init
  <2>2. \A e \in AnyEntity : Down.current[e] = NoEnvelope
    BY DEF Down, Constructed, NoMaterial
  <2>3. Members(Down.records) = {}
    BY EmptyMembers DEF Down, Constructed
  <2> QED
    BY <2>1, <2>2, <2>3 DEF MaterialOK, ShowsOwnRecords
<1>2. TypeOK /\ TypeOK' /\ MaterialInv /\ [Next]_vars => MaterialInv'
  <2> SUFFICES ASSUME TypeOK, TypeOK', MaterialInv, [Next]_vars, NEW g \in Engines
               PROVE  MaterialOK(engine'[g])
    BY DEF MaterialInv
  <2>1. engine[g] \in EngineState /\ engine'[g] \in EngineState
    BY DEF TypeOK
  <2>2. MaterialStep(engine[g], engine'[g])
    BY MaterialMoves
  <2> QED
    BY <2>1, <2>2, MaterialKept DEF MaterialInv
<1> QED
  BY <1>1, <1>2, TypeCorrect, PTL DEF Spec

(* No edit is lost to a merge: in every engine, whichever order records and  *)
(* replays come in, what was applied is the revision shown, is kept in the   *)
(* conflict history, or a later revision supersedes it (apply() of engine.ts). *)
THEOREM NothingIsDiscarded == Spec => []NothingDiscarded
<1>1. MaterialInv => NothingDiscarded
  BY DEF MaterialInv, MaterialOK, KeptOrSuperseded, NothingDiscarded
<1> QED
  BY <1>1, MaterialInvariant, PTL

(* While a process keeps its records, what it shows never goes back to a     *)
(* revision that the shown one has superseded (deterministicWinner).         *)
THEOREM ShownOnlyAdvances == Spec => ShownNeverRegresses
<1> DEFINE Advances ==
             \A g \in Engines : \A e \in AnyEntity :
                LET old == engine[g].current[e]
                    new == engine'[g].current[e]
                IN  old # NoEnvelope /\ new # NoEnvelope
                      => CompareVectors(new.vector, old.vector) # "before"
<1>1. TypeOK /\ [Next]_vars => Advances
  <2> SUFFICES ASSUME TypeOK, [Next]_vars, NEW g \in Engines, NEW e \in AnyEntity,
                      engine[g].current[e] # NoEnvelope, engine'[g].current[e] # NoEnvelope
               PROVE  CompareVectors(engine'[g].current[e].vector,
                                     engine[g].current[e].vector) # "before"
    OBVIOUS
  <2> DEFINE s == engine[g]
             t == engine'[g]
             old == s.current[e]
  <2>1. old \in Envelope /\ old.vector \in Vector
    BY DEF TypeOK, EngineState, Envelope
  <2>2. CompareVectors(old.vector, old.vector) = "equal"
    BY <2>1, CompareSelf
  <2>3. MaterialStep(s, t)
    BY MaterialMoves
  <2>4. CASE SameMaterial(s, t)
    BY <2>2, <2>4 DEF SameMaterial
  <2>5. CASE NothingShown(t)
    BY <2>5 DEF NothingShown, NoMaterial
  <2>6. ASSUME NEW x \in Envelope, Merges(s, t, x)
        PROVE  CompareVectors(t.current[e].vector, old.vector) # "before"
    <3>1. CASE e # x.entity \/ ~Replaces(x, old)
      BY <2>2, <2>6, <3>1 DEF Merges
    <3>2. CASE e = x.entity /\ Replaces(x, old)
      BY <2>6, <3>2 DEF Merges, Replaces
    <3> QED
      BY <3>1, <3>2
  <2> QED
    BY <2>3, <2>4, <2>5, <2>6 DEF MaterialStep
<1> QED
  BY <1>1, TypeCorrect, PTL DEF Spec, ShownNeverRegresses

-----------------------------------------------------------------------------
(* One process per device, one call at a time, and files that can be        *)
(* written and read.                                                        *)

Undisturbed ==
    /\ ~DiskFails
    /\ \A g, k \in Engines : DeviceOf[g] = DeviceOf[k] => g = k
    /\ \A h, k \in Handlers : EngineOf[h] = EngineOf[k] => h = k

(* `p' is the state file of device `d', `s' its engine, `t' its call.       *)
JournalOwn(p, d) ==
    \A y \in p.journal : y.device = d /\ y.counter <= p.counter

EngineSound(s, p, d) ==
    /\ JournalOwn(s, d)
    /\ s.up => p.journal \subseteq s.journal /\ p.counter <= s.counter

(* What the call has journaled is in memory, then in the state it writes;    *)
(* anything else that users journaled is in the state file, and only that is *)
(* pushed.                                                                   *)
CallSound(t, s, p) ==
    /\ t.mine # {} => t.stage \in {"persist", "write"}
    /\ \A y \in s.journal : y.entity \in Entities => y \in p.journal \cup t.mine
    /\ t.stage \in {"push", "pushed"} =>
          /\ t.batch \subseteq s.journal
          /\ \A y \in t.batch : y.entity \in Entities => y \in p.journal
    /\ t.stage = "persist" => t.mine \subseteq s.journal
    /\ t.stage = "write" =>
          /\ t.mine \cup p.journal \subseteq t.saved.journal
          /\ t.saved.journal \subseteq s.journal
          /\ p.counter <= t.saved.counter
          /\ t.saved.counter <= s.counter
          /\ \A y \in t.saved.journal : y.counter <= t.saved.counter

SoleInv ==
    /\ \A d \in Devices : JournalOwn(disk[d], d)
    /\ \A g \in Engines : EngineSound(engine[g], disk[DeviceOf[g]], DeviceOf[g])
    /\ \A h \in Handlers :
          /\ task[h].stage # "idle" => engine[EngineOf[h]].up
          /\ CallSound(task[h], engine[EngineOf[h]], disk[DeviceOf[EngineOf[h]]])

(* A step of one engine and of its call. *)
LEMMA SoleMoves ==
    ASSUME TypeOK, SoleInv, Undisturbed, disk' = disk,
           NEW g \in Engines, NEW r,
           engine' = [engine EXCEPT ![g] = r],
           EngineSound(r, disk[DeviceOf[g]], DeviceOf[g]),
           \A h \in Handlers :
              IF EngineOf[h] = g
              THEN /\ task'[h].stage # "idle" => r.up
                   /\ CallSound(task'[h], r, disk[DeviceOf[g]])
              ELSE task'[h] = task[h]
    PROVE  SoleInv'
<1>1. \A k \in Engines : engine'[k] = IF k = g THEN r ELSE engine[k]
  BY DEF TypeOK
<1>2. \A k \in Engines : EngineSound(engine'[k], disk'[DeviceOf[k]], DeviceOf[k])
  BY <1>1 DEF SoleInv
<1>3. \A h \in Handlers :
        /\ task'[h].stage # "idle" => engine'[EngineOf[h]].up
        /\ CallSound(task'[h], engine'[EngineOf[h]], disk'[DeviceOf[EngineOf[h]]])
  BY <1>1, CloudSyncAssumption DEF SoleInv
<1> QED
  BY <1>2, <1>3 DEF SoleInv

(* A call that goes on, on an engine whose journal and counter stay. *)
LEMMA SoleCallMoves ==
    ASSUME TypeOK, SoleInv, Undisturbed, disk' = disk,
           NEW h \in Handlers, NEW t, NEW r,
           task' = [task EXCEPT ![h] = t],
           engine' = [engine EXCEPT ![EngineOf[h]] = r],
           r.up = engine[EngineOf[h]].up, r.up,
           r.journal = engine[EngineOf[h]].journal,
           r.counter = engine[EngineOf[h]].counter,
           CallSound(t, r, disk[DeviceOf[EngineOf[h]]])
    PROVE  SoleInv'
<1> DEFINE g == EngineOf[h]
<1>1. g \in Engines
  BY CloudSyncAssumption
<1>2. EngineSound(r, disk[DeviceOf[g]], DeviceOf[g])
  BY <1>1 DEF SoleInv, EngineSound, JournalOwn
<1>3. \A k \in Handlers : task'[k] = IF EngineOf[k] = g THEN t ELSE task[k]
  BY DEF TypeOK, Undisturbed
<1>4. \A k \in Handlers :
        IF EngineOf[k] = g
        THEN (task'[k].stage # "idle" => r.up) /\ CallSound(task'[k], r, disk[DeviceOf[g]])
        ELSE task'[k] = task[k]
  BY <1>3
<1> QED
  BY <1>1, <1>2, <1>4, SoleMoves

LEMMA SoleCallAlone ==
    ASSUME TypeOK, SoleInv, Undisturbed, UNCHANGED <<engine, disk>>,
           NEW h \in Handlers, NEW t,
           task' = [task EXCEPT ![h] = t],
           engine[EngineOf[h]].up,
           CallSound(t, engine[EngineOf[h]], disk[DeviceOf[EngineOf[h]]])
    PROVE  SoleInv'
<1> DEFINE r == engine[EngineOf[h]]
<1>1. engine' = [engine EXCEPT ![EngineOf[h]] = r]
  BY CloudSyncAssumption DEF TypeOK
<1> QED
  BY <1>1, SoleCallMoves

LEMMA SoleInit == Init => SoleInv
<1> SUFFICES ASSUME Init PROVE SoleInv
  OBVIOUS
<1>1. FreshState.journal = {} /\ Down.journal = {} /\ ~Down.up
  BY DEF FreshState, Down, Constructed
<1>2. Idle.mine = {} /\ Idle.stage = "idle"
  BY DEF Idle
<1> QED
  BY <1>1, <1>2, CloudSyncAssumption DEF Init, SoleInv, JournalOwn, EngineSound, CallSound

LEMMA SoleStep == TypeOK /\ Undisturbed /\ SoleInv /\ [Next]_vars => SoleInv'
<1> SUFFICES ASSUME TypeOK, Undisturbed, SoleInv, [Next]_vars PROVE SoleInv'
  OBVIOUS
<1>a. \A g \in Engines :
        /\ engine[g] \in EngineState /\ DeviceOf[g] \in Devices
        /\ disk[DeviceOf[g]] \in State
        /\ JournalOwn(disk[DeviceOf[g]], DeviceOf[g])
        /\ EngineSound(engine[g], disk[DeviceOf[g]], DeviceOf[g])
  BY CloudSyncAssumption DEF TypeOK, SoleInv
<1>b. \A h \in Handlers :
        /\ task[h] \in Task
        /\ EngineOf[h] \in Engines
        /\ engine[EngineOf[h]] \in EngineState
        /\ task[h].stage # "idle" => engine[EngineOf[h]].up
        /\ CallSound(task[h], engine[EngineOf[h]], disk[DeviceOf[EngineOf[h]]])
  BY CloudSyncAssumption DEF TypeOK, SoleInv
<1>c. Idle.mine = {} /\ Idle.stage = "idle"
  BY DEF Idle
<1>d. \A stage : [Idle EXCEPT !.stage = stage].mine = {}
              /\ [Idle EXCEPT !.stage = stage].stage = stage
  BY DEF Idle
\* A call that holds nothing of its own, on an engine whose users' journal is saved.
<1>e. ASSUME NEW t, NEW s, NEW p, t.mine = {},
             t.stage \notin {"push", "pushed", "write"},
             \A y \in s.journal : y.entity \in Entities => y \in p.journal
      PROVE  CallSound(t, s, p)
  BY <1>e DEF CallSound
<1>f. ASSUME NEW h \in Handlers, task[h].stage \notin {"persist", "write"}
      PROVE  /\ task[h].mine = {}
             /\ \A y \in engine[EngineOf[h]].journal :
                   y.entity \in Entities => y \in disk[DeviceOf[EngineOf[h]]].journal
  BY <1>b, <1>f DEF CallSound
<1>1. ASSUME NEW g \in Engines, Load(g) PROVE SoleInv'
  <2> DEFINE p == disk[DeviceOf[g]]
             r == Constructed(p)
  <2>0. engine' = [engine EXCEPT ![g] = r]
    BY <1>1 DEF Load, Readings, Undisturbed
  <2>1. r.up /\ r.journal = p.journal /\ r.counter = p.counter /\ p.counter \in Nat
    BY <1>a DEF Constructed, State
  <2>2. EngineSound(r, p, DeviceOf[g])
    BY <1>a, <2>1 DEF EngineSound, JournalOwn
  <2>3. ASSUME NEW h \in Handlers, EngineOf[h] = g
        PROVE  (task'[h].stage # "idle" => r.up) /\ CallSound(task'[h], r, p)
    <3>1. task'[h] = task[h] /\ task[h].stage = "idle"
      BY <1>1, <1>b, <2>3 DEF Load
    <3> QED
      BY <1>b, <2>1, <3>1 DEF CallSound
  <2> QED
    BY <1>1, <2>0, <2>2, <2>3, SoleMoves DEF Load
<1>g. ASSUME NEW g \in Engines, NEW r, UNCHANGED <<task, disk>>,
             engine' = [engine EXCEPT ![g] = r],
             r.up = engine[g].up, r.journal = engine[g].journal,
             r.counter \in Nat, r.counter >= engine[g].counter
      PROVE  SoleInv'
  <2>1. engine[g].counter \in Nat /\ disk[DeviceOf[g]].counter \in Nat
        /\ engine[g].journal \in SUBSET Envelope
    BY <1>a DEF EngineState, State
  <2>2. EngineSound(r, disk[DeviceOf[g]], DeviceOf[g])
    BY <1>a, <1>g, <2>1 DEF EngineSound, JournalOwn, Envelope
  <2>3. ASSUME NEW h \in Handlers, EngineOf[h] = g
        PROVE  /\ task'[h].stage # "idle" => r.up
               /\ CallSound(task'[h], r, disk[DeviceOf[g]])
    <3>1. task[h].saved.counter \in Nat
      BY <1>b DEF Task, State
    <3> QED
      BY <1>b, <1>g, <2>1, <2>3, <3>1 DEF CallSound
  <2> QED
    BY <1>g, <2>2, <2>3, SoleMoves
<1>2. ASSUME NEW g \in Engines, ApplyNext(g) PROVE SoleInv'
  <2> DEFINE s == engine[g]
             t == Apply(DeviceOf[g], s, Head(s.todo))
             r == [t EXCEPT !.todo = Tail(@)]
  <2>1. s.todo # <<>> /\ s.todo \in Seq(Envelope)
    BY <1>2, <1>a DEF ApplyNext, EngineState
  <2>2. Head(s.todo) \in Envelope
    BY <2>1, TailMembers
  <2>3. /\ t \in EngineState /\ t.journal = s.journal /\ t.up = s.up
        /\ t.counter >= s.counter
    BY <1>a, <2>2, ApplyEffect, ApplyCounts
  <2> HIDE DEF t
  <2>4. /\ r.journal = s.journal /\ r.up = s.up /\ r.counter = t.counter
        /\ r.counter \in Nat
    BY <2>3 DEF EngineState
  <2>5. engine' = [engine EXCEPT ![g] = r]
    BY <1>2 DEF ApplyNext, t
  <2> HIDE DEF r
  <2> QED
    BY <1>2, <1>g, <2>3, <2>4, <2>5 DEF ApplyNext
<1>3. ASSUME NEW g \in Engines, ReplayNext(g) PROVE SoleInv'
  <2> DEFINE s == engine[g]
             x == Oldest(s.replay)
             t == Apply(DeviceOf[g], s, x)
             r == [t EXCEPT !.replay = @ \ {x}]
  <2>1. s.replay # {} /\ s.replay \in SUBSET Envelope
    BY <1>3, <1>a DEF ReplayNext, EngineState
  <2>2. x \in Envelope
    BY <2>1, OldestIsMember
  <2> HIDE DEF x
  <2>3. /\ t \in EngineState /\ t.journal = s.journal /\ t.up = s.up
        /\ t.counter >= s.counter
    BY <1>a, <2>2, ApplyEffect, ApplyCounts
  <2> HIDE DEF t
  <2>4. /\ r.journal = s.journal /\ r.up = s.up /\ r.counter = t.counter
        /\ r.counter \in Nat
    BY <2>3 DEF EngineState
  <2>5. engine' = [engine EXCEPT ![g] = r]
    BY <1>3 DEF ReplayNext, t, x
  <2> HIDE DEF r
  <2> QED
    BY <1>3, <1>g, <2>3, <2>4, <2>5 DEF ReplayNext
\* A mutation: `x' is in the journal afterwards, and the call's own if a user made it.
<1>h. ASSUME NEW h \in Handlers, NEW e \in AnyEntity, NEW t,
             disk' = disk, Free(EngineOf[h]), At(h, "idle"),
             task' = [task EXCEPT ![h] = t],
             engine' = [engine EXCEPT ![EngineOf[h]] =
                          Mutate(DeviceOf[EngineOf[h]], @,
                                 NewEnvelope(DeviceOf[EngineOf[h]], @, e))],
             \/ e \notin Entities /\ t.mine = {} /\ t.stage \notin {"push", "pushed", "write"}
             \/ /\ t.mine = {NewEnvelope(DeviceOf[EngineOf[h]], engine[EngineOf[h]], e)}
                /\ t.stage = "persist"
      PROVE  SoleInv'
  <2> DEFINE g == EngineOf[h]
             s == engine[g]
             d == DeviceOf[g]
             x == NewEnvelope(d, s, e)
             r == Mutate(d, s, x)
  <2>1. /\ s \in EngineState /\ d \in Devices /\ s.up /\ g \in Engines
        /\ EngineSound(s, disk[d], d)
    BY <1>a, <1>b, <1>h DEF Free
  <2>2. x \in Envelope /\ x.device = d /\ x.entity = e /\ x.counter > s.counter
    BY <2>1, NewEnvelopeType, NewEnvelopeCounts DEF TypeOK
  <2>3. engine' = [engine EXCEPT ![g] = r]
    BY <1>h
  <2> HIDE DEF x
  <2>4. /\ r.up = s.up /\ r.journal = s.journal \cup {x} /\ r \in EngineState
        /\ r.counter >= x.counter
    <3> HIDE DEF s, d
    <3>1. s \in EngineState /\ d \in Devices /\ x \in Envelope
      BY <2>1, <2>2
    <3>2. Mutate(d, s, x).counter >= x.counter
      BY ONLY <3>1, MutateCounts
    <3> QED
      BY <3>1, <3>2, MutateEffect
  <2> HIDE DEF r
  <2>5. /\ s.counter \in Nat /\ r.counter \in Nat /\ x.counter \in Nat
        /\ s.journal \in SUBSET Envelope /\ disk[d].counter \in Nat
    BY <1>a, <2>1, <2>2, <2>4 DEF EngineState, State, Envelope
  <2>6. EngineSound(r, disk[d], d)
    BY <2>1, <2>2, <2>4, <2>5 DEF EngineSound, JournalOwn, Envelope
  <2>7. CallSound(t, r, disk[d])
    <3>1. \A y \in s.journal : y.entity \in Entities => y \in disk[d].journal
      BY <1>f, <1>h DEF At
    <3>2. t.mine = {x} \/ (e \notin Entities /\ t.mine = {})
      BY <1>h DEF x
    <3> QED
      BY <1>h, <2>2, <2>4, <3>1, <3>2 DEF CallSound
  <2>8. \A k \in Handlers : task'[k] = IF EngineOf[k] = g THEN t ELSE task[k]
    BY <1>h DEF TypeOK, Undisturbed
  <2>9. \A k \in Handlers :
          IF EngineOf[k] = g
          THEN (task'[k].stage # "idle" => r.up) /\ CallSound(task'[k], r, disk[d])
          ELSE task'[k] = task[k]
    BY <2>1, <2>4, <2>7, <2>8
  <2> QED
    BY <1>h, <2>1, <2>3, <2>6, <2>9, SoleMoves
<1>4. ASSUME NEW h \in Handlers, NEW e \in Entities, Journal(h, e) PROVE SoleInv'
  <2> DEFINE x == NewEnvelope(DeviceOf[EngineOf[h]], engine[EngineOf[h]], e)
             t == [Idle EXCEPT !.stage = "persist", !.mine = {x}]
  <2>1. t.mine = {x} /\ t.stage = "persist" /\ e \in AnyEntity
    BY DEF Idle, AnyEntity
  <2>2. /\ disk' = disk /\ Free(EngineOf[h]) /\ At(h, "idle")
        /\ task' = [task EXCEPT ![h] = t]
        /\ engine' = [engine EXCEPT ![EngineOf[h]] =
                        Mutate(DeviceOf[EngineOf[h]], @, NewEnvelope(DeviceOf[EngineOf[h]], @, e))]
    BY <1>4 DEF Journal, CanStart
  <2> HIDE DEF t
  <2> QED
    BY <1>h, <2>1, <2>2
<1>5. ASSUME NEW h \in Handlers, Backup(h) PROVE SoleInv'
  <2> DEFINE e == BackupEntity(writes + 1)
             t == [Idle EXCEPT !.stage = SyncEntry(engine[EngineOf[h]])]
  <2>1. e \in AnyEntity /\ e \notin Entities
    <3>1. writes + 1 \in 1..MaxWrites
      BY <1>5, CloudSyncAssumption DEF Backup, TypeOK
    <3> QED
      BY <3>1, BackupAssumption DEF AnyEntity
  <2>2. t.mine = {} /\ t.stage \notin {"push", "pushed", "write"}
    BY <1>d, SyncEntryType
  <2>3. /\ disk' = disk /\ Free(EngineOf[h]) /\ At(h, "idle")
        /\ task' = [task EXCEPT ![h] = t]
        /\ engine' = [engine EXCEPT ![EngineOf[h]] =
                        Mutate(DeviceOf[EngineOf[h]], @, NewEnvelope(DeviceOf[EngineOf[h]], @, e))]
    BY <1>5 DEF Backup, CanStart
  <2> HIDE DEF t, e
  <2> QED
    BY <1>h, <2>1, <2>2, <2>3
<1>6. ASSUME NEW h \in Handlers, NEW value \in BOOLEAN, Pause(h, value) PROVE SoleInv'
  <2> DEFINE s == engine[EngineOf[h]]
             r == [s EXCEPT !.paused = value]
             t == [Idle EXCEPT !.stage = "persist"]
  <2>1. r.up = s.up /\ r.journal = s.journal /\ r.counter = s.counter
    BY <1>b DEF EngineState
  <2>2. /\ disk' = disk /\ s.up /\ task[h].stage = "idle"
        /\ task' = [task EXCEPT ![h] = t]
        /\ engine' = [engine EXCEPT ![EngineOf[h]] = r]
    BY <1>6, <1>b DEF Pause, CanStart, At, Free, TypeOK
  <2>3. CallSound(t, r, disk[DeviceOf[EngineOf[h]]])
    BY <1>d, <1>e, <1>f, <2>1, <2>2
  <2> HIDE DEF t, r
  <2> QED
    BY <2>1, <2>2, <2>3, SoleCallMoves
\* A call begins, ends or goes to another await and has nothing of its own.
<1>i. ASSUME NEW h \in Handlers, NEW t, UNCHANGED <<engine, disk>>,
             task' = [task EXCEPT ![h] = t], engine[EngineOf[h]].up,
             task[h].stage \notin {"persist", "write"},
             t.mine = {}, t.stage \notin {"push", "pushed", "write"}
      PROVE  SoleInv'
  <2>1. CallSound(t, engine[EngineOf[h]], disk[DeviceOf[EngineOf[h]]])
    BY <1>e, <1>f, <1>i
  <2> QED
    BY <1>i, <2>1, SoleCallAlone
<1>7. ASSUME NEW h \in Handlers, Sync(h) PROVE SoleInv'
  <2> DEFINE t == [Idle EXCEPT !.stage = SyncEntry(engine[EngineOf[h]])]
  <2>1. t.mine = {} /\ t.stage \notin {"push", "pushed", "write"}
    BY <1>d, SyncEntryType
  <2>2. /\ UNCHANGED <<engine, disk>> /\ task' = [task EXCEPT ![h] = t]
        /\ engine[EngineOf[h]].up /\ task[h].stage = "idle"
    BY <1>7 DEF Sync, CanStart, Free, At
  <2> HIDE DEF t
  <2> QED
    BY <1>i, <2>1, <2>2
<1>8. ASSUME NEW h \in Handlers, Reset(h) PROVE SoleInv'
  <2> DEFINE t == [Idle EXCEPT !.stage = "reset"]
  <2>1. t.mine = {} /\ t.stage = "reset"
    BY <1>d
  <2>2. /\ UNCHANGED <<engine, disk>> /\ task' = [task EXCEPT ![h] = t]
        /\ engine[EngineOf[h]].up /\ task[h].stage = "idle"
    BY <1>8 DEF Reset, CanStart, Free, At
  <2> HIDE DEF t
  <2> QED
    BY <1>i, <2>1, <2>2
<1>9. ASSUME NEW h \in Handlers, ResetDone(h) PROVE SoleInv'
  <2> DEFINE s == engine[EngineOf[h]]
             r == Forgotten(s)
             t == [Idle EXCEPT !.stage = "persist", !.then = "sync"]
  <2>1. r.up = s.up /\ r.journal = s.journal /\ r.counter = s.counter
    BY <1>b DEF EngineState, Forgotten
  <2>2. t.mine = {} /\ t.stage = "persist"
    BY DEF Idle
  <2>3. /\ disk' = disk /\ s.up /\ task[h].stage = "reset"
        /\ task' = [task EXCEPT ![h] = t]
        /\ engine' = [engine EXCEPT ![EngineOf[h]] = r]
    BY <1>9 DEF ResetDone, CanResume, At, Free
  <2> HIDE DEF t, r
  <2>4. CallSound(t, r, disk[DeviceOf[EngineOf[h]]])
    BY <1>e, <1>f, <2>1, <2>2, <2>3
  <2> QED
    BY <2>1, <2>3, <2>4, SoleCallMoves
<1>10. ASSUME NEW h \in Handlers, ChunksUploaded(h) PROVE SoleInv'
  <2> DEFINE s == engine[EngineOf[h]]
             pending == {x \in s.journal : Id(x) \notin s.sent}
             t == IF pending # {}
                  THEN [task[h] EXCEPT !.stage = "push", !.batch = pending]
                  ELSE [task[h] EXCEPT !.stage = "pull", !.after = s.cursor]
  <2>1. /\ UNCHANGED <<engine, disk>> /\ task' = [task EXCEPT ![h] = t]
        /\ s.up /\ task[h].stage = "chunks"
    BY <1>10 DEF ChunksUploaded, CanResume, Free, At
  <2>2. pending \subseteq s.journal
    OBVIOUS
  <2> HIDE DEF pending
  <2>3. /\ t.mine = task[h].mine
        /\ t.stage \in {"push", "pull"}
        /\ t.stage = "push" => t.batch = pending
    BY <1>b DEF Task
  <2> HIDE DEF t
  <2>4. CallSound(t, s, disk[DeviceOf[EngineOf[h]]])
    BY <1>f, <2>1, <2>2, <2>3 DEF CallSound
  <2> QED
    BY <2>1, <2>4, SoleCallAlone
<1>11. ASSUME NEW h \in Handlers, PushRefused(h) PROVE SoleInv'
  <2>1. /\ UNCHANGED <<engine, disk>> /\ task' = [task EXCEPT ![h] = Idle]
        /\ engine[EngineOf[h]].up /\ task[h].stage = "push"
    BY <1>11 DEF PushRefused, CanResume, Free, At
  <2> QED
    BY <1>c, <1>i, <2>1
<1>12. ASSUME NEW h \in Handlers, RelayPush(h) PROVE SoleInv'
  <2> DEFINE t == [task[h] EXCEPT !.stage = "pushed"]
  <2>1. /\ UNCHANGED <<engine, disk>> /\ task' = [task EXCEPT ![h] = t]
        /\ engine[EngineOf[h]].up /\ task[h].stage = "push"
    BY <1>12, <1>b DEF RelayPush, At
  <2>2. t.mine = task[h].mine /\ t.batch = task[h].batch /\ t.stage = "pushed"
    BY <1>b DEF Task
  <2> HIDE DEF t
  <2>3. CallSound(t, engine[EngineOf[h]], disk[DeviceOf[EngineOf[h]]])
    BY <1>b, <2>1, <2>2 DEF CallSound
  <2> QED
    BY <2>1, <2>3, SoleCallAlone
<1>13. ASSUME NEW h \in Handlers, PushAccepted(h) PROVE SoleInv'
  <2> DEFINE s == engine[EngineOf[h]]
             r == [s EXCEPT !.sent = @ \cup Ids(task[h].batch)]
             t == [task[h] EXCEPT !.stage = "pull", !.batch = {}, !.after = s.cursor]
  <2>1. r.up = s.up /\ r.journal = s.journal /\ r.counter = s.counter
    BY <1>b DEF EngineState
  <2>2. t.mine = task[h].mine /\ t.stage = "pull"
    BY <1>b DEF Task
  <2>3. /\ disk' = disk /\ s.up /\ task[h].stage = "pushed"
        /\ task' = [task EXCEPT ![h] = t]
        /\ engine' = [engine EXCEPT ![EngineOf[h]] = r]
    BY <1>13, <1>b DEF PushAccepted, CanResume, At, Free, TypeOK
  <2> HIDE DEF t, r
  <2>4. CallSound(t, r, disk[DeviceOf[EngineOf[h]]])
    BY <1>e, <1>f, <2>1, <2>2, <2>3
  <2> QED
    BY <2>1, <2>3, <2>4, SoleCallMoves
<1>14. ASSUME NEW h \in Handlers, RelayPull(h) PROVE SoleInv'
  <2> DEFINE last == IF task[h].after + PageLimit <= Len(log)
                     THEN task[h].after + PageLimit ELSE Len(log)
             page == SubSeq(log, task[h].after + 1, last)
             t == [task[h] EXCEPT !.stage = "page", !.page = page]
  <2>1. /\ UNCHANGED <<engine, disk>> /\ task' = [task EXCEPT ![h] = t]
        /\ engine[EngineOf[h]].up /\ task[h].stage = "pull"
    BY <1>14, <1>b DEF RelayPull, At
  <2> HIDE DEF page
  <2>2. t.mine = task[h].mine /\ t.stage = "page"
    BY <1>b DEF Task
  <2> HIDE DEF t
  <2> QED
    BY <1>f, <1>i, <2>1, <2>2
<1>15. ASSUME NEW h \in Handlers, PageReceived(h) PROVE SoleInv'
  <2> DEFINE s == engine[EngineOf[h]]
             page == task[h].page
             cursor == CursorAfter(task[h].after, page)
             r == [s EXCEPT !.todo = page, !.cursor = cursor]
             t == IF Len(page) < PageLimit THEN [Idle EXCEPT !.stage = "persist"]
                  ELSE [task[h] EXCEPT !.stage = "pull", !.after = cursor, !.page = <<>>]
  <2>1. r.up = s.up /\ r.journal = s.journal /\ r.counter = s.counter
    BY <1>b DEF EngineState
  <2>2. /\ disk' = disk /\ s.up /\ task[h].stage = "page"
        /\ task' = [task EXCEPT ![h] = t]
        /\ engine' = [engine EXCEPT ![EngineOf[h]] = r]
    BY <1>15, <1>b DEF PageReceived, CanResume, At, Free, TypeOK
  <2> HIDE DEF r
  <2>3. t.mine = {} /\ t.stage \in {"persist", "pull"}
    <3>1. task[h].mine = {}
      BY <1>f, <2>2
    <3>2. LET w == [task[h] EXCEPT !.stage = "pull", !.after = cursor, !.page = <<>>] IN
          w.mine = task[h].mine /\ w.stage = "pull"
      BY <1>b DEF Task
    <3> QED
      BY <1>d, <3>1, <3>2
  <2> HIDE DEF t
  <2>4. CallSound(t, r, disk[DeviceOf[EngineOf[h]]])
    BY <1>e, <1>f, <2>1, <2>2, <2>3
  <2> QED
    BY <2>1, <2>2, <2>4, SoleCallMoves
<1>16. ASSUME NEW h \in Handlers, Serialize(h) PROVE SoleInv'
  <2> DEFINE s == engine[EngineOf[h]]
             p == Persistence(s)
             t == [task[h] EXCEPT !.stage = "write", !.saved = p]
  <2>1. /\ UNCHANGED <<engine, disk>> /\ task' = [task EXCEPT ![h] = t]
        /\ s.up /\ task[h].stage = "persist"
    BY <1>16, <1>b DEF Serialize, CanResume, Free, At, TypeOK, Task
  <2>2. p.journal = s.journal /\ p.counter = s.counter /\ s.counter \in Nat
    BY <1>b DEF Persistence, EngineState
  <2> HIDE DEF p
  <2>3. t.mine = task[h].mine /\ t.stage = "write" /\ t.saved = p
    BY <1>b DEF Task
  <2> HIDE DEF t
  <2>4. EngineSound(s, disk[DeviceOf[EngineOf[h]]], DeviceOf[EngineOf[h]])
    BY <1>a, <1>b
  <2>5. CallSound(t, s, disk[DeviceOf[EngineOf[h]]])
    BY <1>b, <2>1, <2>2, <2>3, <2>4 DEF CallSound, EngineSound, JournalOwn
  <2> QED
    BY <2>1, <2>5, SoleCallAlone
<1>17. ASSUME NEW h \in Handlers, Write(h) PROVE SoleInv'
  <2> DEFINE g == EngineOf[h]
             s == engine[g]
             d == DeviceOf[g]
             p == task[h].saved
             t == IF task[h].then = "sync"
                  THEN [Idle EXCEPT !.stage = SyncEntry(s)] ELSE Idle
  <2>1. /\ engine' = engine /\ s.up /\ task[h].stage = "write"
        /\ disk' = [disk EXCEPT ![d] = p] /\ task' = [task EXCEPT ![h] = t]
    BY <1>17 DEF Write, CanResume, Free, At
  <2>2. t.mine = {} /\ t.stage \in {"idle", "persist", "chunks"}
    <3>1. SyncEntry(s) \in {"persist", "chunks"}
      BY SyncEntryType
    <3> QED
      BY <1>c, <1>d, <3>1
  <2>3. /\ task[h].mine \cup disk[d].journal \subseteq p.journal
        /\ p.journal \subseteq s.journal /\ p.counter <= s.counter
        /\ \A y \in p.journal : y.counter <= p.counter
    BY <1>b, <2>1 DEF CallSound
  <2>4. g \in Engines /\ d \in Devices /\ EngineSound(s, disk[d], d)
    BY <1>a, <1>b
  <2>5. JournalOwn(p, d)
    BY <2>3, <2>4 DEF JournalOwn, EngineSound
  <2>6. EngineSound(s, p, d)
    BY <2>3, <2>4 DEF EngineSound
  <2>7. CallSound(t, s, p)
    <3>1. \A y \in s.journal : y.entity \in Entities => y \in p.journal
      BY <1>b, <2>3 DEF CallSound
    <3> HIDE DEF t
    <3> QED
      BY <1>e, <2>2, <3>1
  <2> HIDE DEF t, p
  <2>8. \A k \in Engines : disk'[DeviceOf[k]] = IF k = g THEN p ELSE disk[DeviceOf[k]]
    BY <1>a, <2>1, <2>4 DEF Undisturbed, TypeOK
  <2>9. \A k \in Handlers : EngineOf[k] = g => task'[k] = t
    BY <2>1 DEF TypeOK, Undisturbed
  <2>10. \A k \in Handlers : EngineOf[k] # g => task'[k] = task[k]
    BY <2>1 DEF TypeOK
  <2>11. \A e \in Devices : JournalOwn(disk'[e], e)
    BY <2>1, <2>5 DEF SoleInv, TypeOK
  <2>12. \A k \in Engines : EngineSound(engine'[k], disk'[DeviceOf[k]], DeviceOf[k])
    BY <1>a, <2>1, <2>6, <2>8
  <2>13. \A k \in Handlers :
           /\ task'[k].stage # "idle" => engine'[EngineOf[k]].up
           /\ CallSound(task'[k], engine'[EngineOf[k]], disk'[DeviceOf[EngineOf[k]]])
    BY <1>b, <2>1, <2>7, <2>8, <2>9, <2>10
  <2> QED
    BY <2>11, <2>12, <2>13 DEF SoleInv
<1>18. ASSUME NEW h \in Handlers, CallFails(h) PROVE SoleInv'
  <2>1. /\ UNCHANGED <<engine, disk>> /\ task' = [task EXCEPT ![h] = Idle]
        /\ engine[EngineOf[h]].up /\ task[h].stage \notin {"persist", "write"}
    BY <1>18 DEF CallFails, CanResume, Free, At, Failing, Undisturbed
  <2> QED
    BY <1>c, <1>i, <2>1
<1>19. ASSUME NEW g \in Engines, Exit(g) PROVE SoleInv'
  <2>1. Down.journal = {} /\ ~Down.up
    BY DEF Down, Constructed, FreshState
  <2>2. EngineSound(Down, disk[DeviceOf[g]], DeviceOf[g])
    BY <2>1 DEF EngineSound, JournalOwn
  <2>3. /\ disk' = disk /\ engine' = [engine EXCEPT ![g] = Down]
        /\ \A h \in Handlers : task'[h] = IF EngineOf[h] = g THEN Idle ELSE task[h]
    BY <1>19 DEF Exit
  <2>4. CallSound(Idle, Down, disk[DeviceOf[g]])
    BY <1>c, <2>1 DEF CallSound
  <2> QED
    BY <1>c, <2>2, <2>3, <2>4, SoleMoves
<1>20. ASSUME (\E b \in stray : RelayStray(b)) \/ RelayStore \/ UNCHANGED vars
       PROVE  SoleInv'
  BY <1>20 DEF RelayStray, RelayStore, vars, SoleInv
<1> QED
  BY <1>1, <1>2, <1>3, <1>4, <1>5, <1>6, <1>7, <1>8, <1>9, <1>10, <1>11, <1>12,
     <1>13, <1>14, <1>15, <1>16, <1>17, <1>18, <1>19, <1>20
     DEF Next, EngineStep, CallBegins, CallGoesOn

(* What the relay has, is storing, or may still be sent. *)
Public == Members(log) \cup storing \cup UNION stray

SafeInv ==
    /\ \A y \in Public : y.entity \in Entities => y \in disk[y.device].journal
    /\ \A x \in acked : x \in disk[x.device].journal

LEMMA WriteKeepsJournals ==
    ASSUME TypeOK, SoleInv, [Next]_vars, NEW d \in Devices
    PROVE  disk[d].journal \subseteq disk'[d].journal
<1>1. ASSUME NEW h \in Handlers, Write(h) PROVE disk[d].journal \subseteq disk'[d].journal
  <2>1. /\ disk' = [disk EXCEPT ![DeviceOf[EngineOf[h]]] = task[h].saved]
        /\ task[h].stage = "write"
    BY <1>1 DEF Write, CanResume, At
  <2>2. disk[DeviceOf[EngineOf[h]]].journal \subseteq task[h].saved.journal
    BY <2>1 DEF SoleInv, CallSound
  <2> QED
    BY <2>1, <2>2 DEF TypeOK
<1>2. ASSUME disk' = disk PROVE disk[d].journal \subseteq disk'[d].journal
  BY <1>2
<1>3. (\E h \in Handlers : Write(h)) \/ disk' = disk
  BY DEF Next, EngineStep, CallBegins, CallGoesOn, vars, Load, ApplyNext, ReplayNext,
     Journal, Backup, Pause, Sync, Reset, ResetDone, ChunksUploaded, PushRefused,
     RelayPush, PushAccepted, RelayPull, PageReceived, Serialize, CallFails, Exit,
     RelayStray, RelayStore
<1> QED
  BY <1>1, <1>2, <1>3

(* Nothing becomes public that no push carries. *)
LEMMA PublicGrows ==
    ASSUME TypeOK, [Next]_vars
    PROVE  \A y \in Public' :
              y \in Public \/ \E h \in Handlers : At(h, "push") /\ y \in task[h].batch
<1> SUFFICES ASSUME NEW y \in Public', y \notin Public
             PROVE  \E h \in Handlers : At(h, "push") /\ y \in task[h].batch
  OBVIOUS
<1>1. CASE UNCHANGED relayVars
  BY <1>1 DEF relayVars, Public
<1>2. ASSUME NEW h \in Handlers, RelayPush(h)
      PROVE  \E k \in Handlers : At(k, "push") /\ y \in task[k].batch
  BY <1>2 DEF RelayPush, Public
<1>3. ASSUME NEW b \in stray, RelayStray(b) PROVE FALSE
  BY <1>3 DEF RelayStray, Public
<1>4. CASE RelayStore
  <2>1. Oldest(storing) \in storing /\ Oldest(storing) \in Envelope
    BY <1>4, OldestIsMember DEF RelayStore, TypeOK
  <2>2. Members(log') \subseteq Members(log) \cup storing
    BY <1>4, <2>1, AppendMembers DEF RelayStore, TypeOK
  <2> QED
    BY <1>4, <2>2 DEF RelayStore, Public
<1>5. ASSUME NEW h \in Handlers, CallFails(h)
      PROVE  \E k \in Handlers : At(k, "push") /\ y \in task[k].batch
  BY <1>5 DEF CallFails, Public
<1>6. ASSUME NEW g \in Engines, Exit(g)
      PROVE  \E k \in Handlers : At(k, "push") /\ y \in task[k].batch
  BY <1>6 DEF Exit, Public
<1>7. \/ UNCHANGED relayVars \/ RelayStore
      \/ \E h \in Handlers : RelayPush(h) \/ CallFails(h)
      \/ \E b \in stray : RelayStray(b)
      \/ \E g \in Engines : Exit(g)
  BY DEF Next, EngineStep, CallBegins, CallGoesOn, vars, relayVars, Load, ApplyNext,
     ReplayNext, Journal, Backup, Pause, Sync, Reset, ResetDone, ChunksUploaded,
     PushRefused, PushAccepted, RelayPull, PageReceived, Serialize, Write
<1> QED
  BY <1>1, <1>2, <1>3, <1>4, <1>5, <1>6, <1>7

LEMMA SafeStep ==
    TypeOK /\ Undisturbed /\ SoleInv /\ SafeInv /\ [Next]_vars => SafeInv'
<1> SUFFICES ASSUME TypeOK, Undisturbed, SoleInv, SafeInv, [Next]_vars PROVE SafeInv'
  OBVIOUS
<1>1. \A d \in Devices : disk[d].journal \subseteq disk'[d].journal
  BY WriteKeepsJournals
<1>2. /\ Members(log) \subseteq Envelope /\ storing \subseteq Envelope
      /\ UNION stray \subseteq Envelope /\ acked \subseteq Envelope
      /\ \A h \in Handlers : task[h].batch \subseteq Envelope
  BY DEF TypeOK, Members, Task
<1>3. ASSUME NEW y \in Public', y.entity \in Entities PROVE y \in disk'[y.device].journal
  <2>1. CASE y \in Public
    <3>1. y.device \in Devices
      BY <1>2, <2>1 DEF Public, Envelope
    <3> QED
      BY <1>1, <1>3, <2>1, <3>1 DEF SafeInv
  <2>2. ASSUME NEW h \in Handlers, At(h, "push"), y \in task[h].batch
        PROVE  y \in disk'[y.device].journal
    <3>1. /\ EngineOf[h] \in Engines /\ DeviceOf[EngineOf[h]] \in Devices
          /\ y \in engine[EngineOf[h]].journal /\ y \in disk[DeviceOf[EngineOf[h]]].journal
      BY <1>3, <2>2, CloudSyncAssumption DEF SoleInv, CallSound, At
    <3>2. y.device = DeviceOf[EngineOf[h]]
      BY <3>1 DEF SoleInv, EngineSound, JournalOwn
    <3> QED
      BY <1>1, <3>1, <3>2
  <2> QED
    BY <2>1, <2>2, PublicGrows
<1>4. ASSUME NEW x \in acked', x \notin acked PROVE x \in disk'[x.device].journal
  <2>1. PICK h \in Handlers : Write(h) /\ x \in task[h].mine
    BY <1>4 DEF Next, EngineStep, CallBegins, CallGoesOn, vars, ghostVars, Load,
       ApplyNext, ReplayNext, Journal, Backup, Pause, Sync, Reset, ResetDone,
       ChunksUploaded, PushRefused, RelayPush, PushAccepted, RelayPull, PageReceived,
       Serialize, Write, CallFails, Exit, RelayStray, RelayStore
  <2> DEFINE d == DeviceOf[EngineOf[h]]
  <2>2. EngineOf[h] \in Engines /\ d \in Devices
    BY CloudSyncAssumption
  <2>3. /\ disk' = [disk EXCEPT ![d] = task[h].saved] /\ task[h].stage = "write"
    BY <2>1 DEF Write, CanResume, At
  <2>4. x \in task[h].saved.journal /\ x \in engine[EngineOf[h]].journal
    BY <2>1, <2>3 DEF SoleInv, CallSound
  <2>5. x.device = d
    BY <2>2, <2>4 DEF SoleInv, EngineSound, JournalOwn
  <2> QED
    BY <2>2, <2>3, <2>4, <2>5 DEF TypeOK
<1>5. ASSUME NEW x \in acked PROVE x \in disk'[x.device].journal
  <2>1. x.device \in Devices
    BY <1>2 DEF Envelope
  <2> QED
    BY <1>1, <2>1 DEF SafeInv
<1> QED
  BY <1>3, <1>4, <1>5 DEF SafeInv

(* Two mutations differ in their number, and a user's from a backup's in its *)
(* entity.                                                                   *)
NumbersOK ==
    /\ \A x \in Known : x.nr <= writes
    /\ \A x \in Known : x.entity \notin Entities => x.entity = BackupEntity(x.nr)
    /\ \A x, y \in Known : x.nr = y.nr => x = y

UniqueInv == NumbersOK /\ RecordIdsAreUnique

LEMMA KnownTypes == TypeOK => Known \subseteq Envelope
<1> SUFFICES ASSUME TypeOK PROVE Known \subseteq Envelope
  OBVIOUS
<1>1. \A g \in Engines : engine[g].journal \subseteq Envelope
  BY DEF TypeOK, EngineState
<1>2. \A d \in Devices : disk[d].journal \subseteq Envelope
  BY DEF TypeOK, State
<1>3. Members(log) \subseteq Envelope
  BY DEF TypeOK, Members
<1> QED
  BY <1>1, <1>2, <1>3 DEF TypeOK, Known

(* A mutation at an engine that runs. *)
Mutation(g, e) ==
    /\ Free(g)
    /\ writes' = writes + 1
    /\ engine' = [engine EXCEPT ![g] = Mutate(DeviceOf[g], @, NewEnvelope(DeviceOf[g], @, e))]
    /\ e \in Entities \/ e = BackupEntity(writes + 1)
    /\ e \in AnyEntity

(* The journals, in memory and in the state files. *)
Journals ==
    (UNION {engine[g].journal : g \in Engines})
      \cup (UNION {disk[d].journal : d \in Devices})

LEMMA KnownParts == Known = Journals \cup Public
  BY DEF Known, Journals, Public

(* What is in a journal grows by mutations only, and so what is known. *)
LEMMA KnownGrows ==
    ASSUME TypeOK, SoleInv, [Next]_vars
    PROVE  /\ Public' \subseteq Known
           /\ \/ Journals' \subseteq Journals /\ writes' = writes
              \/ \E g \in Engines, e \in AnyEntity :
                    /\ Mutation(g, e)
                    /\ Journals' \subseteq Journals
                          \cup {NewEnvelope(DeviceOf[g], engine[g], e)}
<1>a. \A g \in Engines :
        engine[g] \in EngineState /\ DeviceOf[g] \in Devices /\ engine[g].journal \subseteq Journals
  BY CloudSyncAssumption DEF TypeOK, Journals
<1>b. \A h \in Handlers :
        /\ EngineOf[h] \in Engines /\ DeviceOf[EngineOf[h]] \in Devices
        /\ At(h, "push") => task[h].batch \subseteq Journals
        /\ At(h, "write") => task[h].saved.journal \subseteq Journals
  BY <1>a, CloudSyncAssumption DEF SoleInv, CallSound, At
<1>c. Public' \subseteq Known
  BY <1>b, KnownParts, PublicGrows
<1>d. \A d \in Devices : disk'[d].journal \subseteq Journals
  <2>1. ASSUME NEW h \in Handlers, Write(h), NEW d \in Devices
        PROVE  disk'[d].journal \subseteq Journals
    <3>1. disk[d].journal \subseteq Journals
      BY DEF Journals
    <3>2. /\ disk' = [disk EXCEPT ![DeviceOf[EngineOf[h]]] = task[h].saved]
          /\ task[h].saved.journal \subseteq Journals
      BY <1>b, <2>1 DEF Write, CanResume
    <3> QED
      BY <3>1, <3>2 DEF TypeOK
  <2>2. disk' = disk => \A d \in Devices : disk'[d].journal \subseteq Journals
    BY DEF Journals
  <2>3. (\E h \in Handlers : Write(h)) \/ disk' = disk
    BY DEF Next, EngineStep, CallBegins, CallGoesOn, vars, Load, ApplyNext, ReplayNext,
       Journal, Backup, Pause, Sync, Reset, ResetDone, ChunksUploaded, PushRefused,
       RelayPush, PushAccepted, RelayPull, PageReceived, Serialize, CallFails, Exit,
       RelayStray, RelayStore
  <2> QED
    BY <2>1, <2>2, <2>3
<1>e. ASSUME \A g \in Engines : engine'[g].journal \subseteq Journals
      PROVE  Journals' \subseteq Journals
  BY <1>d, <1>e DEF Journals
<1>f. ASSUME NEW g \in Engines, NEW e \in AnyEntity, Mutation(g, e)
      PROVE  Journals' \subseteq Journals \cup {NewEnvelope(DeviceOf[g], engine[g], e)}
  <2> DEFINE x == NewEnvelope(DeviceOf[g], engine[g], e)
             r == Mutate(DeviceOf[g], engine[g], x)
  <2>1. x \in Envelope
    BY <1>a, NewEnvelopeType DEF TypeOK
  <2>2. engine' = [engine EXCEPT ![g] = r]
    BY <1>f DEF Mutation
  <2> HIDE DEF x
  <2>3. r.journal = engine[g].journal \cup {x}
    BY <1>a, <2>1, MutateEffect
  <2> HIDE DEF r
  <2>4. \A k \in Engines : engine'[k].journal \subseteq Journals \cup {x}
    BY <1>a, <2>2, <2>3 DEF TypeOK
  <2>5. Journals' \subseteq Journals \cup {x}
    BY <1>d, <2>4 DEF Journals
  <2> QED
    BY <2>5 DEF x
<1>1. ASSUME NEW h \in Handlers, NEW e \in Entities, Journal(h, e)
      PROVE  Mutation(EngineOf[h], e) /\ e \in AnyEntity
  BY <1>1 DEF Journal, Mutation, CanStart, AnyEntity
<1>2. ASSUME NEW h \in Handlers, Backup(h)
      PROVE  /\ Mutation(EngineOf[h], BackupEntity(writes + 1))
             /\ BackupEntity(writes + 1) \in AnyEntity
  <2>1. writes + 1 \in 1..MaxWrites
    BY <1>2, CloudSyncAssumption DEF Backup, TypeOK
  <2>2. BackupEntity(writes + 1) \in AnyEntity
    BY <2>1 DEF AnyEntity
  <2> QED
    BY <1>2, <2>2 DEF Backup, Mutation, CanStart
<1>3. ASSUME NEW g \in Engines, Load(g) PROVE \A k \in Engines : engine'[k].journal \subseteq Journals
  <2>0. PICK p \in Readings(DeviceOf[g]) : engine' = [engine EXCEPT ![g] = Constructed(p)]
    BY <1>3 DEF Load
  <2>1. Constructed(p).journal = p.journal
    BY DEF Constructed
  <2>2. p.journal \subseteq Journals
    BY <1>a DEF Journals, Readings, FreshState
  <2> QED
    BY <1>a, <2>0, <2>1, <2>2 DEF TypeOK
<1>4. ASSUME NEW g \in Engines, NEW r, engine' = [engine EXCEPT ![g] = r],
             r.journal = engine[g].journal
      PROVE  \A k \in Engines : engine'[k].journal \subseteq Journals
  BY <1>4, <1>a DEF TypeOK
<1>5. ASSUME NEW g \in Engines, ApplyNext(g)
      PROVE  \A k \in Engines : engine'[k].journal \subseteq Journals
  <2> DEFINE s == engine[g]
             t == Apply(DeviceOf[g], s, Head(s.todo))
             r == [t EXCEPT !.todo = Tail(@)]
  <2>1. Head(s.todo) \in Envelope
    BY <1>5, <1>a, TailMembers DEF ApplyNext, EngineState
  <2>2. t \in EngineState /\ t.journal = s.journal
    BY <1>a, <2>1, ApplyEffect
  <2> HIDE DEF t
  <2>3. r.journal = s.journal
    BY <2>2 DEF EngineState
  <2>4. engine' = [engine EXCEPT ![g] = r]
    BY <1>5 DEF ApplyNext, t
  <2> HIDE DEF r
  <2> QED
    BY <1>4, <2>3, <2>4
<1>6. ASSUME NEW g \in Engines, ReplayNext(g)
      PROVE  \A k \in Engines : engine'[k].journal \subseteq Journals
  <2> DEFINE s == engine[g]
             x == Oldest(s.replay)
             t == Apply(DeviceOf[g], s, x)
             r == [t EXCEPT !.replay = @ \ {x}]
  <2>1. x \in Envelope
    BY <1>6, <1>a, OldestIsMember DEF ReplayNext, EngineState
  <2> HIDE DEF x
  <2>2. t \in EngineState /\ t.journal = s.journal
    BY <1>a, <2>1, ApplyEffect
  <2> HIDE DEF t
  <2>3. r.journal = s.journal
    BY <2>2 DEF EngineState
  <2>4. engine' = [engine EXCEPT ![g] = r]
    BY <1>6 DEF ReplayNext, t, x
  <2> HIDE DEF r
  <2> QED
    BY <1>4, <2>3, <2>4
<1>7. ASSUME NEW h \in Handlers,
             (\E value \in BOOLEAN : Pause(h, value)) \/ ResetDone(h)
               \/ PushAccepted(h) \/ PageReceived(h)
      PROVE  \A k \in Engines : engine'[k].journal \subseteq Journals
  <2> DEFINE g == EngineOf[h]
             s == engine[g]
  <2>1. g \in Engines /\ s \in EngineState
    BY <1>a, <1>b
  <2>2. \/ \E value \in BOOLEAN : engine' = [engine EXCEPT ![g] = [s EXCEPT !.paused = value]]
        \/ engine' = [engine EXCEPT ![g] = Forgotten(s)]
        \/ engine' = [engine EXCEPT ![g] = [s EXCEPT !.sent = @ \cup Ids(task[h].batch)]]
        \/ engine' = [engine EXCEPT ![g] =
              [s EXCEPT !.todo = task[h].page,
                        !.cursor = CursorAfter(task[h].after, task[h].page)]]
    BY <1>7, <2>1 DEF Pause, ResetDone, PushAccepted, PageReceived, TypeOK
  <2>3. ASSUME NEW value PROVE [s EXCEPT !.paused = value].journal = s.journal
    BY <2>1 DEF EngineState
  <2>4. Forgotten(s).journal = s.journal
    BY <2>1 DEF Forgotten, EngineState
  <2>5. ASSUME NEW S PROVE [s EXCEPT !.sent = @ \cup S].journal = s.journal
    BY <2>1 DEF EngineState
  <2>6. ASSUME NEW p, NEW c PROVE [s EXCEPT !.todo = p, !.cursor = c].journal = s.journal
    BY <2>1 DEF EngineState
  <2> HIDE DEF s
  <2>7. CASE \E value \in BOOLEAN : engine' = [engine EXCEPT ![g] = [s EXCEPT !.paused = value]]
    BY <1>4, <2>1, <2>3, <2>7 DEF s
  <2>8. CASE engine' = [engine EXCEPT ![g] = Forgotten(s)]
    BY <1>4, <2>1, <2>4, <2>8 DEF s
  <2>9. CASE engine' = [engine EXCEPT ![g] = [s EXCEPT !.sent = @ \cup Ids(task[h].batch)]]
    BY <1>4, <2>1, <2>5, <2>9 DEF s
  <2>10. CASE engine' = [engine EXCEPT ![g] =
              [s EXCEPT !.todo = task[h].page,
                        !.cursor = CursorAfter(task[h].after, task[h].page)]]
    BY <1>4, <2>1, <2>6, <2>10 DEF s
  <2> QED
    BY <2>2, <2>7, <2>8, <2>9, <2>10
<1>8. ASSUME NEW g \in Engines, Exit(g) PROVE \A k \in Engines : engine'[k].journal \subseteq Journals
  BY <1>8, <1>4, <1>a DEF Exit, Down, Constructed, FreshState, TypeOK
<1>9. engine' = engine => \A k \in Engines : engine'[k].journal \subseteq Journals
  BY <1>a
<1>10. \/ \E h \in Handlers, e \in Entities : Journal(h, e)
       \/ \E h \in Handlers : Backup(h)
       \/ writes' = writes
  BY DEF Next, EngineStep, CallBegins, CallGoesOn, vars, ghostVars, Load, ApplyNext,
     ReplayNext, Pause, Sync, Reset, ResetDone, ChunksUploaded, PushRefused, RelayPush,
     PushAccepted, RelayPull, PageReceived, Serialize, Write, CallFails, Exit,
     RelayStray, RelayStore
<1>11. \/ \E h \in Handlers, e \in Entities : Journal(h, e)
       \/ \E h \in Handlers : Backup(h)
       \/ \A k \in Engines : engine'[k].journal \subseteq Journals
  BY <1>3, <1>5, <1>6, <1>7, <1>8, <1>9 DEF Next, EngineStep, CallBegins, CallGoesOn,
     vars, Sync, Reset, ChunksUploaded, PushRefused, RelayPush, RelayPull, Serialize,
     Write, CallFails, RelayStray, RelayStore
<1> QED
  BY <1>b, <1>c, <1>e, <1>f, <1>1, <1>2, <1>10, <1>11

(* Whatever users journaled on a device, and is not lost, its engine has. *)
LEMMA KnownIsJournaled ==
    ASSUME TypeOK, Undisturbed, SoleInv, SafeInv, NEW g \in Engines, engine[g].up,
           NEW y \in Known, y.device = DeviceOf[g], y.entity \in Entities
    PROVE  y \in engine[g].journal /\ y.counter <= engine[g].counter
<1> DEFINE d == DeviceOf[g]
           s == engine[g]
<1>a. d \in Devices
  BY CloudSyncAssumption
<1>1. disk[d].journal \subseteq s.journal
  BY DEF SoleInv, EngineSound
<1>2. CASE \E k \in Engines : y \in engine[k].journal
  <2>1. PICK k \in Engines : y \in engine[k].journal
    BY <1>2
  <2>2. y.device = DeviceOf[k]
    BY <2>1 DEF SoleInv, EngineSound, JournalOwn
  <2>3. k = g
    BY <2>2 DEF Undisturbed
  <2> QED
    BY <2>1, <2>3 DEF SoleInv, EngineSound, JournalOwn
<1>3. CASE \E c \in Devices : y \in disk[c].journal
  <2>1. PICK c \in Devices : y \in disk[c].journal
    BY <1>3
  <2>2. y.device = c
    BY <2>1 DEF SoleInv, JournalOwn
  <2> QED
    BY <1>1, <2>1, <2>2 DEF SoleInv, EngineSound, JournalOwn
<1>4. CASE y \in Public
  <2>1. y \in disk[d].journal
    BY <1>4 DEF SafeInv
  <2> QED
    BY <1>1, <2>1 DEF SoleInv, EngineSound, JournalOwn
<1> QED
  BY <1>2, <1>3, <1>4 DEF Known, Public

(* A mutation gets a record id no other mutation has. *)
LEMMA NewIdIsFresh ==
    ASSUME TypeOK, Undisturbed, SoleInv, SafeInv, UniqueInv,
           NEW g \in Engines, NEW e \in AnyEntity, Mutation(g, e)
    PROVE  \A y \in Known : Id(y) # Id(NewEnvelope(DeviceOf[g], engine[g], e))
<1>a. Known \subseteq Envelope /\ writes \in Nat
  BY KnownTypes DEF TypeOK
<1> DEFINE d == DeviceOf[g]
           s == engine[g]
           x == NewEnvelope(d, s, e)
<1>1. d \in Devices /\ s \in EngineState /\ s.up
  BY CloudSyncAssumption DEF TypeOK, Mutation, Free
<1>2. x \in Envelope /\ x.device = d /\ x.entity = e /\ x.nr = writes + 1
  BY <1>a, <1>1, NewEnvelopeType
<1>3. x.counter > s.counter /\ s.counter \in Nat /\ x.counter \in Nat
  BY <1>1, <1>2, NewEnvelopeCounts DEF EngineState, Envelope
<1>4. e \in Entities \/ e = BackupEntity(x.nr)
  BY <1>2 DEF Mutation
<1>5. \A y \in Known : y.nr \in Nat /\ y.nr <= writes
  BY <1>a DEF UniqueInv, NumbersOK, Envelope
<1>6. \A y \in Known : y.device = d /\ y.entity \in Entities => y.counter <= s.counter
  BY <1>1, KnownIsJournaled
<1> HIDE DEF x
<1>7. ASSUME NEW y \in Known, Id(y) = Id(x) PROVE FALSE
  <2>1. y.device = d /\ y.counter = x.counter /\ y.entity = e
    BY <1>2, <1>7 DEF Id
  <2>2. CASE e \in Entities
    BY <1>a, <1>3, <1>6, <2>1, <2>2 DEF Envelope
  <2>3. CASE e \notin Entities
    <3>1. BackupEntity(y.nr) = BackupEntity(x.nr)
      BY <1>4, <2>1, <2>3 DEF UniqueInv, NumbersOK
    <3>2. y.nr = x.nr
      BY <3>1 DEF BackupEntity
    <3> QED
      BY <1>a, <1>2, <1>5, <3>2
  <2> QED
    BY <2>2, <2>3
<1> QED
  BY <1>7 DEF x

LEMMA UniqueStep ==
    ASSUME TypeOK, Undisturbed, SoleInv, SafeInv, UniqueInv, [Next]_vars
    PROVE  UniqueInv'
<1>a. Known \subseteq Envelope
  BY KnownTypes
<1>b. writes \in Nat
  BY DEF TypeOK
<1>c. Known' \subseteq Known \cup Journals'
  <2>1. Known' = Journals' \cup Public'
    BY DEF Known, Journals, Public
  <2> QED
    BY <2>1, KnownGrows
<1>1. CASE Journals' \subseteq Journals /\ writes' = writes
  BY <1>1, <1>c, KnownParts DEF UniqueInv, NumbersOK, RecordIdsAreUnique
<1>2. ASSUME NEW g \in Engines, NEW e \in AnyEntity, Mutation(g, e),
             Journals' \subseteq Journals \cup {NewEnvelope(DeviceOf[g], engine[g], e)}
      PROVE  UniqueInv'
  <2> DEFINE d == DeviceOf[g]
             s == engine[g]
             x == NewEnvelope(d, s, e)
  <2>1. d \in Devices /\ s \in EngineState /\ s.up /\ writes' = writes + 1
    BY <1>2, CloudSyncAssumption DEF TypeOK, Mutation, Free
  <2>2. x \in Envelope /\ x.device = d /\ x.entity = e /\ x.nr = writes + 1
    BY <1>b, <2>1, NewEnvelopeType
  <2>4. e \in Entities \/ e = BackupEntity(x.nr)
    BY <1>2, <2>2 DEF Mutation
  <2>5. \A y \in Known : y.nr \in Nat /\ y.nr <= writes
    BY <1>a DEF UniqueInv, NumbersOK, Envelope
  <2>7. \A y \in Known : Id(y) # Id(x)
    BY <1>2, NewIdIsFresh
  <2> HIDE DEF x
  <2>8. \A y \in Known' : y \in Known \/ y = x
    BY <1>2, <1>c, KnownParts DEF x
  <2>9. \A y \in Known' : y.nr <= writes'
    BY <1>b, <2>1, <2>2, <2>5, <2>8
  <2>10. \A y \in Known' : y.entity \notin Entities => y.entity = BackupEntity(y.nr)
    BY <2>2, <2>4, <2>8 DEF UniqueInv, NumbersOK
  <2>11. \A y, z \in Known' : y.nr = z.nr => y = z
    BY <1>b, <2>2, <2>5, <2>8 DEF UniqueInv, NumbersOK
  <2>12. \A y, z \in Known' : Id(y) = Id(z) => y = z
    BY <2>7, <2>8 DEF UniqueInv, RecordIdsAreUnique
  <2> QED
    BY <2>9, <2>10, <2>11, <2>12 DEF UniqueInv, NumbersOK, RecordIdsAreUnique
<1> QED
  BY <1>1, <1>2, KnownGrows

LEMMA UniqueInit == Init => SafeInv /\ UniqueInv
<1> SUFFICES ASSUME Init PROVE SafeInv /\ UniqueInv
  OBVIOUS
<1>1. Public = {} /\ acked = {}
  BY EmptyMembers DEF Init, Public
<1>2. /\ \A g \in Engines : engine[g].journal = {}
      /\ \A d \in Devices : disk[d].journal = {}
  BY DEF Init, Down, Constructed, FreshState
<1>3. Known = {}
  BY <1>1, <1>2 DEF Known, Public
<1> QED
  BY <1>1, <1>3 DEF SafeInv, UniqueInv, NumbersOK, RecordIdsAreUnique

LEMMA SoleInvariants ==
    ASSUME Undisturbed PROVE Spec => [](TypeOK /\ SoleInv /\ SafeInv /\ UniqueInv)
<1> DEFINE Inv == TypeOK /\ SoleInv /\ SafeInv /\ UniqueInv
<1>1. Init => Inv
  BY TypeInit, SoleInit, UniqueInit
<1>2. Inv /\ [Next]_vars => Inv'
  BY TypeStep, SoleStep, SafeStep, UniqueStep
<1> QED
  BY <1>1, <1>2, PTL DEF Spec

(* The journal of the Local Node is written to its state file before a call  *)
(* returns, and no later write takes an acknowledged mutation out again: no  *)
(* crash, restart or reset loses it.  The hypothesis is the sequential use   *)
(* the code relies on, one process per device and one call at a time on it,  *)
(* over a state file that can be written and read.                           *)
THEOREM AcknowledgedIsDurable == ASSUME Undisturbed PROVE Spec => []JournalIsDurable
<1>1. SafeInv => JournalIsDurable
  BY DEF SafeInv, JournalIsDurable
<1> QED
  BY <1>1, SoleInvariants, PTL

(* A device never gives two mutations one record id, whatever was restarted, *)
(* reset or pushed twice in between: the relay, which drops a record id it   *)
(* has, never drops a mutation.  The hypothesis is the same.                 *)
THEOREM IdsAreNeverReused == ASSUME Undisturbed PROVE Spec => []RecordIdsAreUnique
<1>1. UniqueInv => RecordIdsAreUnique
  BY DEF UniqueInv
<1> QED
  BY <1>1, SoleInvariants, PTL

-----------------------------------------------------------------------------
(* The order in which records reach the log and the engines                *)

(* What a step does to the records, the loops and the journal of an engine. *)
Kept(s, t) ==
    /\ t.records = s.records /\ t.todo = s.todo /\ t.replay = s.replay
    /\ t.journal = s.journal /\ t.cursor = s.cursor

Takes(s, t, x) ==
    /\ t.records = IF Id(x) \in Applied(s) THEN s.records ELSE Append(s.records, x)
    /\ t.cursor = s.cursor

LoopsDone(s) == s.todo = <<>> /\ s.replay = {}

TakesRecord(s, t) ==
    /\ s.todo # <<>>
    /\ Takes(s, t, Head(s.todo))
    /\ t.todo = Tail(s.todo) /\ t.replay = s.replay /\ t.journal = s.journal

ReplaysOne(s, t) ==
    /\ s.todo = <<>> /\ s.replay # {}
    /\ Takes(s, t, Oldest(s.replay))
    /\ t.todo = <<>> /\ t.journal = s.journal
    /\ t.replay = s.replay \ {Oldest(s.replay)}

Mutates(s, t, x) ==
    /\ LoopsDone(s) /\ LoopsDone(t)
    /\ Takes(s, t, x)
    /\ t.journal = s.journal \cup {x}

Forgets(s, t) ==
    /\ LoopsDone(s) /\ LoopsDone(t)
    /\ t.records = <<>> /\ t.cursor = 0 /\ t.journal = s.journal

TakesPage(s, t, c) ==
    /\ LoopsDone(s) /\ s.up
    /\ t.todo = c.page /\ t.replay = {} /\ t.cursor = c.after + Len(c.page)
    /\ t.records = s.records /\ t.journal = s.journal

EngineMove(g) ==
    \/ Kept(engine[g], engine'[g])
    \/ ~engine[g].up /\ \E p \in Readings(DeviceOf[g]) : engine'[g] = Constructed(p)
    \/ engine'[g] = Down
    \/ TakesRecord(engine[g], engine'[g])
    \/ ReplaysOne(engine[g], engine'[g])
    \/ \E e \in AnyEntity :
          /\ Mutation(g, e)
          /\ Mutates(engine[g], engine'[g], NewEnvelope(DeviceOf[g], engine[g], e))
    \/ \E h \in Handlers :
          /\ EngineOf[h] = g
          /\ \/ At(h, "reset") /\ Forgets(engine[g], engine'[g])
             \/ /\ At(h, "page") /\ TakesPage(engine[g], engine'[g], task[h])
                /\ At(h, "persist")' \/ (At(h, "pull")' /\ task'[h].after = engine'[g].cursor)

LEMMA ApplyTakes ==
    ASSUME NEW d \in Devices, NEW s \in EngineState, NEW x \in Envelope
    PROVE  /\ Takes(s, Apply(d, s, x), x)
           /\ Takes(s, Mutate(d, s, x), x)
<1>1. ASSUME NEW r \in EngineState PROVE Takes(r, Apply(d, r, x), x)
  BY <1>1 DEF Takes, Apply, EngineState
<1>2. LET r == Journaled(s, x) IN
      /\ r \in EngineState /\ Mutate(d, s, x) = Apply(d, r, x)
      /\ r.records = s.records
    BY MutateEffect
<1>3. Journaled(s, x).cursor = s.cursor
  BY DEF Journaled, EngineState
<1> QED
  BY <1>1, <1>2, <1>3 DEF Takes, Applied

(* Every step moves every engine in one of these ways. *)
LEMMA EngineMovesSo ==
    ASSUME TypeOK, [Next]_vars, NEW g \in Engines
    PROVE  EngineMove(g)
<1>a. engine[g] \in EngineState /\ DeviceOf[g] \in Devices
  BY CloudSyncAssumption DEF TypeOK
<1>b. engine' = engine => EngineMove(g)
  BY DEF EngineMove, Kept
<1>c. \A h \in Handlers : EngineOf[h] \in Engines
  BY CloudSyncAssumption
<1>1. ASSUME NEW k \in Engines, Load(k) PROVE EngineMove(g)
  <2>1. k = g => ~engine[g].up /\ \E p \in Readings(DeviceOf[g]) : engine'[g] = Constructed(p)
    BY <1>1 DEF Load, TypeOK
  <2>2. k # g => engine'[g] = engine[g]
    BY <1>1 DEF Load, TypeOK
  <2> QED
    BY <2>1, <2>2 DEF EngineMove, Kept
<1>2. ASSUME NEW k \in Engines, ApplyNext(k) PROVE EngineMove(g)
  <2> DEFINE s == engine[g]
             t == Apply(DeviceOf[g], s, Head(s.todo))
             r == [t EXCEPT !.todo = Tail(@)]
  <2>1. k # g => engine'[g] = s
    BY <1>2 DEF ApplyNext, TypeOK
  <2>2. CASE k = g
    <3>1. s.todo # <<>> /\ s.todo \in Seq(Envelope)
      BY <1>2, <1>a, <2>2 DEF ApplyNext, EngineState
    <3>2. Head(s.todo) \in Envelope
      BY <3>1, TailMembers
    <3>3. /\ t \in EngineState /\ Takes(s, t, Head(s.todo)) /\ t.todo = s.todo
          /\ t.replay = s.replay /\ t.journal = s.journal
      BY <1>a, <3>2, ApplyEffect, ApplyTakes
    <3> HIDE DEF t
    <3>4. /\ r.records = t.records /\ r.cursor = t.cursor /\ r.todo = Tail(t.todo)
          /\ r.replay = t.replay /\ r.journal = t.journal
      BY <3>3 DEF EngineState
    <3>5. engine'[g] = r
      BY <1>2, <2>2 DEF ApplyNext, TypeOK, t
    <3> HIDE DEF r, s
    <3>6. TakesRecord(s, r)
      BY <3>1, <3>3, <3>4 DEF TakesRecord, Takes
    <3> QED
      BY <3>5, <3>6 DEF EngineMove, s
  <2> QED
    BY <2>1, <2>2 DEF EngineMove, Kept
<1>3. ASSUME NEW k \in Engines, ReplayNext(k) PROVE EngineMove(g)
  <2> DEFINE s == engine[g]
             x == Oldest(s.replay)
             t == Apply(DeviceOf[g], s, x)
             r == [t EXCEPT !.replay = @ \ {x}]
  <2>1. k # g => engine'[g] = s
    BY <1>3 DEF ReplayNext, TypeOK
  <2>2. CASE k = g
    <3>1. s.todo = <<>> /\ s.replay # {} /\ s.replay \in SUBSET Envelope
      BY <1>3, <1>a, <2>2 DEF ReplayNext, EngineState
    <3>2. x \in Envelope
      BY <3>1, OldestIsMember
    <3> HIDE DEF x
    <3>3. /\ t \in EngineState /\ Takes(s, t, x) /\ t.todo = s.todo
          /\ t.replay = s.replay /\ t.journal = s.journal
      BY <1>a, <3>2, ApplyEffect, ApplyTakes
    <3> HIDE DEF t
    <3>4. /\ r.records = t.records /\ r.cursor = t.cursor /\ r.todo = t.todo
          /\ r.replay = t.replay \ {x} /\ r.journal = t.journal
      BY <3>3 DEF EngineState
    <3>5. engine'[g] = r
      BY <1>3, <2>2 DEF ReplayNext, TypeOK, t, x
    <3> HIDE DEF r, s
    <3>6. ReplaysOne(s, r)
      BY <3>1, <3>3, <3>4 DEF ReplaysOne, Takes, x
    <3> QED
      BY <3>5, <3>6 DEF EngineMove, s
  <2> QED
    BY <2>1, <2>2 DEF EngineMove, Kept
<1>4. ASSUME NEW k \in Engines, NEW e \in AnyEntity, Mutation(k, e)
      PROVE  EngineMove(g)
  <2> DEFINE s == engine[g]
             x == NewEnvelope(DeviceOf[g], s, e)
             t == Mutate(DeviceOf[g], s, x)
  <2>1. k # g => engine'[g] = s
    BY <1>4 DEF Mutation, TypeOK
  <2>2. CASE k = g
    <3>1. x \in Envelope
      BY <1>a, NewEnvelopeType DEF TypeOK
    <3>2. engine'[g] = t /\ LoopsDone(s)
      BY <1>4, <2>2 DEF Mutation, TypeOK, LoopsDone, Free
    <3> HIDE DEF x
    <3>3. /\ Takes(s, t, x) /\ t.todo = s.todo /\ t.replay = s.replay
          /\ t.journal = s.journal \cup {x}
      BY <1>a, <3>1, MutateEffect, ApplyTakes
    <3> HIDE DEF t, s
    <3>4. Mutates(s, t, x)
      BY <3>2, <3>3 DEF Mutates, LoopsDone
    <3> QED
      BY <1>4, <2>2, <3>2, <3>4 DEF EngineMove, x, s
  <2> QED
    BY <2>1, <2>2 DEF EngineMove, Kept
<1>5. ASSUME NEW h \in Handlers, NEW e \in Entities, Journal(h, e) PROVE EngineMove(g)
  BY <1>4, <1>5, <1>c DEF Journal, Mutation, CanStart, AnyEntity
<1>6. ASSUME NEW h \in Handlers, Backup(h) PROVE EngineMove(g)
  <2>1. writes + 1 \in 1..MaxWrites
    BY <1>6, CloudSyncAssumption DEF Backup, TypeOK
  <2>2. BackupEntity(writes + 1) \in AnyEntity
    BY <2>1 DEF AnyEntity
  <2>3. Mutation(EngineOf[h], BackupEntity(writes + 1))
    BY <1>6, <2>2 DEF Backup, Mutation, CanStart
  <2> QED
    BY <1>4, <1>c, <2>2, <2>3
<1>7. ASSUME NEW h \in Handlers, NEW value \in BOOLEAN, Pause(h, value) PROVE EngineMove(g)
  <2>1. Kept(engine[g], engine'[g])
    BY <1>7, <1>a DEF Pause, TypeOK, EngineState, Kept
  <2> QED
    BY <2>1 DEF EngineMove
<1>8. ASSUME NEW h \in Handlers, ResetDone(h) PROVE EngineMove(g)
  <2> DEFINE s == engine[g]
  <2>1. engine'[g] = IF EngineOf[h] = g THEN Forgotten(s) ELSE s
    BY <1>8 DEF ResetDone, TypeOK
  <2>2. /\ Forgotten(s).records = <<>> /\ Forgotten(s).cursor = 0
        /\ Forgotten(s).todo = s.todo /\ Forgotten(s).replay = s.replay
        /\ Forgotten(s).journal = s.journal
    BY <1>a DEF Forgotten, EngineState
  <2>3. At(h, "reset") /\ (EngineOf[h] = g => LoopsDone(s))
    BY <1>8 DEF ResetDone, CanResume, Free, LoopsDone
  <2>4. EngineOf[h] = g => Forgets(s, Forgotten(s))
    BY <2>2, <2>3 DEF Forgets, LoopsDone
  <2> QED
    BY <2>1, <2>3, <2>4 DEF EngineMove, Kept
<1>9. ASSUME NEW h \in Handlers, PushAccepted(h) PROVE EngineMove(g)
  <2>1. Kept(engine[g], engine'[g])
    BY <1>9, <1>a DEF PushAccepted, TypeOK, EngineState, Kept
  <2> QED
    BY <2>1 DEF EngineMove
<1>10. ASSUME NEW h \in Handlers, PageReceived(h) PROVE EngineMove(g)
  <2> DEFINE s == engine[g]
             page == task[h].page
             r == [s EXCEPT !.todo = page, !.cursor = CursorAfter(task[h].after, page)]
  <2>1. engine'[g] = IF EngineOf[h] = g THEN r ELSE s
    BY <1>10 DEF PageReceived, TypeOK
  <2>2. /\ r.records = s.records /\ r.cursor = CursorAfter(task[h].after, page)
        /\ r.todo = page /\ r.replay = s.replay /\ r.journal = s.journal
    BY <1>a DEF EngineState
  <2>3. At(h, "page") /\ (EngineOf[h] = g => LoopsDone(s) /\ s.up)
    BY <1>10 DEF PageReceived, CanResume, Free, LoopsDone
  <2>4. At(h, "persist")' \/ (At(h, "pull")' /\ task'[h].after = r.cursor)
    <3> DEFINE c == r.cursor
               t == [Idle EXCEPT !.stage = "persist"]
               u == [task[h] EXCEPT !.stage = "pull", !.after = c, !.page = <<>>]
    <3>1. task'[h] = t \/ task'[h] = u
      BY <1>10, <2>2 DEF PageReceived, TypeOK
    <3> HIDE DEF c
    <3>2. t.stage = "persist" /\ u.stage = "pull" /\ u.after = c
      BY DEF TypeOK, Task, Idle
    <3> HIDE DEF t, u
    <3>3. At(h, "persist")' \/ (At(h, "pull")' /\ task'[h].after = c)
      BY <3>1, <3>2 DEF At
    <3> QED
      BY <3>3 DEF c
  <2> HIDE DEF r
  <2>5. EngineOf[h] = g => TakesPage(s, r, task[h])
    BY <2>2, <2>3 DEF TakesPage, LoopsDone, CursorAfter
  <2> QED
    BY <2>1, <2>3, <2>4, <2>5 DEF EngineMove, Kept
<1>11. ASSUME NEW k \in Engines, Exit(k) PROVE EngineMove(g)
  <2>1. engine'[g] = IF k = g THEN Down ELSE engine[g]
    BY <1>11 DEF Exit, TypeOK
  <2> QED
    BY <2>1 DEF EngineMove, Kept
<1>12. ASSUME NEW h \in Handlers,
              Sync(h) \/ Reset(h) \/ ChunksUploaded(h) \/ PushRefused(h) \/ RelayPush(h)
                \/ RelayPull(h) \/ Serialize(h) \/ Write(h) \/ CallFails(h)
       PROVE  EngineMove(g)
  BY <1>12, <1>b DEF Sync, Reset, ChunksUploaded, PushRefused, RelayPush, RelayPull,
     Serialize, Write, CallFails
<1>13. ASSUME (\E b \in stray : RelayStray(b)) \/ RelayStore \/ UNCHANGED vars
       PROVE  EngineMove(g)
  BY <1>13, <1>b DEF RelayStray, RelayStore, vars
<1> QED
  BY <1>1, <1>2, <1>3, <1>5, <1>6, <1>7, <1>8, <1>9, <1>10, <1>11, <1>12, <1>13
     DEF Next, EngineStep, CallBegins, CallGoesOn

(* How the log, a state file and a call move. *)
LogMove ==
    \/ log' = log
    \/ LET x == Oldest(storing) IN
       /\ storing # {} /\ storing' = storing \ {x} /\ stray' = stray /\ task' = task
       /\ Id(x) \notin Ids(Members(log)) /\ log' = Append(log, x)

DiskMove(d) ==
    \/ disk'[d] = disk[d]
    \/ \E h \in Handlers :
          DeviceOf[EngineOf[h]] = d /\ At(h, "write") /\ disk'[d] = task[h].saved

TaskMove(h) ==
    /\ \/ task'[h].saved \in {task[h].saved, FreshState}
       \/ Free(EngineOf[h]) /\ task'[h].saved = Persistence(engine[EngineOf[h]])
    /\ \/ task'[h].page \in {task[h].page, <<>>}
       \/ \E last \in Nat :
             /\ last <= Len(log)
             /\ task'[h].page = SubSeq(log, task[h].after + 1, last)

LEMMA LogMovesSo == ASSUME [Next]_vars PROVE LogMove
<1>1. CASE RelayStore
  BY <1>1 DEF RelayStore, LogMove
<1>2. RelayStore \/ log' = log
  BY DEF Next, EngineStep, CallBegins, CallGoesOn, vars, relayVars, Load, ApplyNext,
     ReplayNext, Journal, Backup, Pause, Sync, Reset, ResetDone, ChunksUploaded,
     PushRefused, RelayPush, PushAccepted, RelayPull, PageReceived, Serialize, Write,
     CallFails, Exit, RelayStray
<1> QED
  BY <1>1, <1>2 DEF LogMove

LEMMA LogGrows ==
    ASSUME TypeOK, [Next]_vars
    PROVE  /\ Members(log) \subseteq Members(log')
           /\ log' \in Seq(Envelope)
<1>1. CASE log' = log
  BY <1>1 DEF TypeOK
<1>2. CASE log' # log
  <2>1. storing # {} /\ log' = Append(log, Oldest(storing))
    BY <1>2, LogMovesSo DEF LogMove
  <2>2. Oldest(storing) \in Envelope
    BY <2>1, OldestIsMember DEF TypeOK
  <2> QED
    BY <2>1, <2>2, AppendMembers DEF TypeOK
<1> QED
  BY <1>1, <1>2

LEMMA DiskMovesSo ==
    ASSUME TypeOK, [Next]_vars, NEW d \in Devices PROVE DiskMove(d)
<1>1. ASSUME NEW h \in Handlers, Write(h) PROVE DiskMove(d)
  BY <1>1 DEF Write, CanResume, TypeOK, DiskMove
<1>2. (\E h \in Handlers : Write(h)) \/ disk' = disk
  BY DEF Next, EngineStep, CallBegins, CallGoesOn, vars, Load, ApplyNext, ReplayNext,
     Journal, Backup, Pause, Sync, Reset, ResetDone, ChunksUploaded, PushRefused,
     RelayPush, PushAccepted, RelayPull, PageReceived, Serialize, CallFails, Exit,
     RelayStray, RelayStore
<1> QED
  BY <1>1, <1>2 DEF DiskMove

FreshCall(t) == t.saved = FreshState /\ t.page = <<>>

LEMMA FreshCalls ==
    /\ FreshCall(Idle)
    /\ \A st : FreshCall([Idle EXCEPT !.stage = st])
    /\ \A st, mn : FreshCall([Idle EXCEPT !.stage = st, !.mine = mn])
    /\ \A st, th : FreshCall([Idle EXCEPT !.stage = st, !.then = th])
  BY DEF FreshCall, Idle

LEMMA TaskMovesSo ==
    ASSUME TypeOK, [Next]_vars, NEW h \in Handlers PROVE TaskMove(h)
<1>a. task[h] \in Task /\ Idle.saved = FreshState /\ Idle.page = <<>>
  BY DEF TypeOK, Idle
<1>b. task'[h] = task[h] => TaskMove(h)
  BY DEF TaskMove
<1>c. \A k, t : task' = [task EXCEPT ![k] = t] => task'[h] = IF k = h THEN t ELSE task[h]
  BY DEF TypeOK
<1>d. FreshCall(task'[h]) => TaskMove(h)
  BY DEF TaskMove, FreshCall
<1>1. ASSUME NEW k \in Handlers, NEW e \in Entities, Journal(k, e) PROVE TaskMove(h)
  <2>1. \E st, mn : task' = [task EXCEPT ![k] = [Idle EXCEPT !.stage = st, !.mine = mn]]
    BY <1>1, Zenon DEF Journal
  <2>2. PICK st, mn : task' = [task EXCEPT ![k] = [Idle EXCEPT !.stage = st, !.mine = mn]]
    BY <2>1
  <2> DEFINE t == [Idle EXCEPT !.stage = st, !.mine = mn]
  <2>3. FreshCall(t)
    BY FreshCalls
  <2> HIDE DEF t
  <2>4. task'[h] = task[h] \/ FreshCall(task'[h])
    BY <2>2, <2>3, <1>c DEF t
  <2> QED
    BY <1>b, <1>d, <2>4
<1>2. ASSUME NEW k \in Handlers, Backup(k) \/ Sync(k) \/ Reset(k)
                                   \/ \E value \in BOOLEAN : Pause(k, value)
      PROVE  TaskMove(h)
  <2>1. \E st : task' = [task EXCEPT ![k] = [Idle EXCEPT !.stage = st]]
    BY <1>2 DEF Backup, Sync, Reset, Pause
  <2> QED
    BY <2>1, <1>b, <1>c, <1>d, FreshCalls
<1>3. ASSUME NEW k \in Handlers, ResetDone(k) PROVE TaskMove(h)
  <2>1. \E st, th : task' = [task EXCEPT ![k] = [Idle EXCEPT !.stage = st, !.then = th]]
    BY <1>3, Zenon DEF ResetDone
  <2>2. PICK st, th : task' = [task EXCEPT ![k] = [Idle EXCEPT !.stage = st, !.then = th]]
    BY <2>1
  <2> DEFINE t == [Idle EXCEPT !.stage = st, !.then = th]
  <2>3. FreshCall(t)
    BY FreshCalls
  <2> HIDE DEF t
  <2>4. task'[h] = task[h] \/ FreshCall(task'[h])
    BY <2>2, <2>3, <1>c DEF t
  <2> QED
    BY <1>b, <1>d, <2>4
<1>4. ASSUME NEW k \in Handlers, ChunksUploaded(k) PROVE TaskMove(h)
  BY <1>4, <1>a, <1>b DEF ChunksUploaded, TypeOK, Task, TaskMove
<1>5. ASSUME NEW k \in Handlers, PushRefused(k) \/ CallFails(k) PROVE TaskMove(h)
  <2>1. task' = [task EXCEPT ![k] = Idle]
    BY <1>5 DEF PushRefused, CallFails
  <2> QED
    BY <2>1, <1>b, <1>c, <1>d, FreshCalls
<1>6. ASSUME NEW k \in Handlers, RelayPush(k) PROVE TaskMove(h)
  BY <1>6, <1>a DEF RelayPush, TypeOK, Task, TaskMove
<1>7. ASSUME NEW k \in Handlers, PushAccepted(k) PROVE TaskMove(h)
  BY <1>7, <1>a DEF PushAccepted, TypeOK, Task, TaskMove
<1>8. ASSUME NEW k \in Handlers, RelayPull(k) PROVE TaskMove(h)
  <2> DEFINE last == IF task[k].after + PageLimit <= Len(log)
                     THEN task[k].after + PageLimit ELSE Len(log)
             page == SubSeq(log, task[k].after + 1, last)
             t == [task[k] EXCEPT !.stage = "page", !.page = page]
  <2>1. last \in Nat /\ last <= Len(log)
    BY <1>8, CloudSyncAssumption DEF TypeOK, Task
  <2>2. task'[h] = IF k = h THEN t ELSE task[h]
    BY <1>8 DEF RelayPull, TypeOK
  <2> HIDE DEF last
  <2>3. k = h => t.page = page /\ t.saved = task[h].saved
    BY <1>a DEF Task
  <2> HIDE DEF t
  <2> QED
    BY <2>1, <2>2, <2>3 DEF TaskMove
<1>9. ASSUME NEW k \in Handlers, PageReceived(k) PROVE TaskMove(h)
  <2>1. LET w == [task[h] EXCEPT !.stage = "pull",
                                 !.after = CursorAfter(task[h].after, task[h].page),
                                 !.page = <<>>] IN
        w.saved = task[h].saved /\ w.page = <<>>
    BY <1>a DEF Task
  <2>2. \/ task'[h] = task[h]
        \/ task'[h] = [Idle EXCEPT !.stage = "persist"]
        \/ task'[h] = [task[h] EXCEPT !.stage = "pull",
                                 !.after = CursorAfter(task[h].after, task[h].page),
                                 !.page = <<>>]
    BY <1>9 DEF PageReceived, TypeOK
  <2>3. CASE task'[h] = [Idle EXCEPT !.stage = "persist"]
    BY <1>d, <2>3, FreshCalls
  <2>4. CASE task'[h] = [task[h] EXCEPT !.stage = "pull",
                                 !.after = CursorAfter(task[h].after, task[h].page),
                                 !.page = <<>>]
    BY <2>1, <2>4 DEF TaskMove
  <2> QED
    BY <1>b, <2>2, <2>3, <2>4
<1>10. ASSUME NEW k \in Handlers, Serialize(k) PROVE TaskMove(h)
  <2> DEFINE p == Persistence(engine[EngineOf[k]])
             t == [task[k] EXCEPT !.stage = "write", !.saved = p]
  <2>1. task'[h] = (IF k = h THEN t ELSE task[h]) /\ Free(EngineOf[k])
    BY <1>10 DEF Serialize, CanResume, TypeOK
  <2> HIDE DEF p
  <2>2. k = h => t.page = task[h].page /\ t.saved = p
    BY <1>a DEF Task
  <2> HIDE DEF t
  <2> QED
    BY <2>1, <2>2 DEF TaskMove, p
<1>11. ASSUME NEW k \in Handlers, Write(k) PROVE TaskMove(h)
  <2>1. \/ task'[h] = task[h] \/ task'[h] = Idle
        \/ \E st : task'[h] = [Idle EXCEPT !.stage = st]
    BY <1>11 DEF Write, TypeOK
  <2> QED
    BY <1>b, <1>d, <2>1, FreshCalls
<1>12. ASSUME NEW g \in Engines, Exit(g) PROVE TaskMove(h)
  BY <1>12, <1>b, <1>d, FreshCalls DEF Exit
<1>13. task' = task => TaskMove(h)
  BY <1>b
<1> QED
  BY <1>1, <1>2, <1>3, <1>4, <1>5, <1>6, <1>7, <1>8, <1>9, <1>10, <1>11, <1>12, <1>13
     DEF Next, EngineStep, CallBegins, CallGoesOn, vars, Load, ApplyNext, ReplayNext,
     RelayStray, RelayStore

(* Everything an engine applied, or is going to, comes from the log or from  *)
(* its own journal; a page comes from the log.                               *)
EngineFrom(s, S) ==
    Members(s.records) \cup Members(s.todo) \cup s.replay \subseteq S \cup s.journal

SavedFrom(p, S) == Members(p.records) \subseteq S \cup p.journal

SourceInv ==
    /\ \A g \in Engines : EngineFrom(engine[g], Members(log))
    /\ \A d \in Devices : SavedFrom(disk[d], Members(log))
    /\ \A h \in Handlers :
          /\ SavedFrom(task[h].saved, Members(log))
          /\ Members(task[h].page) \subseteq Members(log)

LEMMA TakesMembers ==
    ASSUME NEW s \in EngineState, NEW t, NEW x \in Envelope, Takes(s, t, x)
    PROVE  /\ t.records \in Seq(Envelope)
           /\ Members(t.records) \subseteq Members(s.records) \cup {x}
           /\ Members(s.records) \subseteq Members(t.records)
<1>1. s.records \in Seq(Envelope)
  BY DEF EngineState
<1> QED
  BY <1>1, AppendMembers DEF Takes

LEMMA PageFromLog ==
    ASSUME NEW seq \in Seq(Envelope), NEW after \in Nat, NEW last \in Nat, last <= Len(seq)
    PROVE  Members(SubSeq(seq, after + 1, last)) \subseteq Members(seq)
<1> DEFINE page == SubSeq(seq, after + 1, last)
<1>1. /\ Len(page) = IF after + 1 <= last THEN last - after ELSE 0
      /\ \A i \in 1..Len(page) : page[i] = seq[after + i]
  BY PageMembers
<1>2. \A i \in 1..Len(page) : after + i \in 1..Len(seq)
  BY <1>1
<1> HIDE DEF page
<1> QED
  BY <1>1, <1>2 DEF Members

LEMMA SourceInit == Init => SourceInv
<1> SUFFICES ASSUME Init PROVE SourceInv
  OBVIOUS
<1>1. EngineFrom(Down, {}) /\ SavedFrom(FreshState, {})
  BY EmptyMembers DEF EngineFrom, SavedFrom, Down, Constructed, FreshState
<1>2. Idle.saved = FreshState /\ Idle.page = <<>>
  BY DEF Idle
<1> QED
  BY <1>1, <1>2, EmptyMembers DEF Init, SourceInv

LEMMA SourceStep == TypeOK /\ SourceInv /\ [Next]_vars => SourceInv'
<1> SUFFICES ASSUME TypeOK, SourceInv, [Next]_vars PROVE SourceInv'
  OBVIOUS
<1> DEFINE S == Members(log)
           T == Members(log')
<1>a. S \subseteq T
  BY LogGrows
<1>1. ASSUME NEW g \in Engines PROVE EngineFrom(engine'[g], T)
  <2> DEFINE s == engine[g]
             t == engine'[g]
  <2>a. s \in EngineState /\ EngineFrom(s, S)
    BY DEF TypeOK, SourceInv
  <2>b. EngineMove(g)
    BY EngineMovesSo
  <2>1. CASE Kept(s, t)
    BY <1>a, <2>a, <2>1 DEF Kept, EngineFrom
  <2>2. ASSUME NEW p \in Readings(DeviceOf[g]), t = Constructed(p) PROVE EngineFrom(t, T)
    <3>0. SavedFrom(FreshState, S)
      BY EmptyMembers DEF SavedFrom, FreshState
    <3>1. SavedFrom(p, S)
      BY <2>2, <3>0, CloudSyncAssumption DEF SourceInv, Readings
    <3>2. /\ t.records = <<>> /\ t.todo = p.records
          /\ t.journal = p.journal /\ t.replay = t.journal
      BY <2>2 DEF Constructed
    <3> QED
      BY <1>a, <3>1, <3>2, EmptyMembers DEF EngineFrom, SavedFrom
  <2>3. CASE t = Down
    <3>1. t.records = <<>> /\ t.todo = <<>> /\ t.replay = {}
      BY <2>3 DEF Down, Constructed, FreshState
    <3> QED
      BY <3>1, EmptyMembers DEF EngineFrom
  <2>4. CASE TakesRecord(s, t)
    <3>1. s.todo \in Seq(Envelope) /\ s.todo # <<>>
      BY <2>a, <2>4 DEF EngineState, TakesRecord
    <3>2. Head(s.todo) \in Envelope /\ Members(s.todo) = {Head(s.todo)} \cup Members(Tail(s.todo))
      BY <3>1, TailMembers
    <3>3. Members(t.records) \subseteq Members(s.records) \cup {Head(s.todo)}
      <4> DEFINE x == Head(s.todo)
      <4>1. s \in EngineState /\ x \in Envelope /\ Takes(s, t, x)
        BY <2>a, <2>4, <3>2 DEF TakesRecord
      <4> HIDE DEF x
      <4>2. Members(t.records) \subseteq Members(s.records) \cup {x}
        BY ONLY <4>1, TakesMembers
      <4> QED
        BY <4>2 DEF x
    <3> QED
      BY <1>a, <2>a, <2>4, <3>2, <3>3 DEF TakesRecord, EngineFrom
  <2>5. CASE ReplaysOne(s, t)
    <3>1. s.replay \in SUBSET Envelope /\ s.replay # {}
      BY <2>a, <2>5 DEF EngineState, ReplaysOne
    <3>2. Oldest(s.replay) \in s.replay /\ Oldest(s.replay) \in Envelope
      BY <3>1, OldestIsMember
    <3>3. Members(t.records) \subseteq Members(s.records) \cup {Oldest(s.replay)}
      <4> DEFINE x == Oldest(s.replay)
      <4>1. s \in EngineState /\ x \in Envelope /\ Takes(s, t, x)
        BY <2>a, <2>5, <3>2 DEF ReplaysOne
      <4> HIDE DEF x
      <4>2. Members(t.records) \subseteq Members(s.records) \cup {x}
        BY ONLY <4>1, TakesMembers
      <4> QED
        BY <4>2 DEF x
    <3> QED
      BY <1>a, <2>a, <2>5, <3>2, <3>3, EmptyMembers DEF ReplaysOne, EngineFrom
  <2>6. ASSUME NEW e \in AnyEntity, Mutates(s, t, NewEnvelope(DeviceOf[g], s, e))
        PROVE  EngineFrom(t, T)
    <3> DEFINE x == NewEnvelope(DeviceOf[g], s, e)
    <3>1. x \in Envelope
      BY <2>a, NewEnvelopeType, CloudSyncAssumption DEF TypeOK
    <3> HIDE DEF x
    <3>2. Members(t.records) \subseteq Members(s.records) \cup {x}
      <4>1. s \in EngineState /\ Takes(s, t, x)
        BY <2>a, <2>6 DEF Mutates, x
      <4> QED
        BY ONLY <3>1, <4>1, TakesMembers
    <3>3. t.todo = <<>> /\ t.replay = {} /\ t.journal = s.journal \cup {x}
      BY <2>6 DEF Mutates, LoopsDone, x
    <3> QED
      BY <1>a, <2>a, <3>2, <3>3, EmptyMembers DEF EngineFrom
  <2>7. CASE Forgets(s, t)
    BY <2>7, EmptyMembers DEF Forgets, LoopsDone, EngineFrom
  <2>8. ASSUME NEW h \in Handlers, TakesPage(s, t, task[h]) PROVE EngineFrom(t, T)
    BY <1>a, <2>a, <2>8 DEF TakesPage, EngineFrom, SourceInv
  <2> QED
    BY <2>b, <2>1, <2>2, <2>3, <2>4, <2>5, <2>6, <2>7, <2>8 DEF EngineMove
<1>2. ASSUME NEW d \in Devices PROVE SavedFrom(disk'[d], T)
  BY <1>a, DiskMovesSo DEF DiskMove, SavedFrom, SourceInv
<1>3. ASSUME NEW h \in Handlers
      PROVE  SavedFrom(task'[h].saved, T) /\ Members(task'[h].page) \subseteq T
  <2>a. TaskMove(h) /\ EngineOf[h] \in Engines
    BY TaskMovesSo, CloudSyncAssumption
  <2>1. SavedFrom(task[h].saved, T) /\ SavedFrom(FreshState, T)
    BY <1>a, EmptyMembers DEF SourceInv, SavedFrom, FreshState
  <2>2. SavedFrom(Persistence(engine[EngineOf[h]]), T)
    BY <1>a, <2>a DEF SourceInv, EngineFrom, SavedFrom, Persistence
  <2>3. ASSUME NEW last \in Nat, last <= Len(log)
        PROVE  Members(SubSeq(log, task[h].after + 1, last)) \subseteq T
    BY <1>a, <2>3, PageFromLog DEF TypeOK, Task
  <2>4. Members(task[h].page) \subseteq T /\ Members(<<>>) \subseteq T
    BY <1>a, EmptyMembers DEF SourceInv
  <2> QED
    BY <2>a, <2>1, <2>2, <2>3, <2>4 DEF TaskMove
<1> QED
  BY <1>1, <1>2, <1>3 DEF SourceInv

(* `z' is what the vector of `x' names last of device `p'; PastIn: what `x'  *)
(* has seen of the other devices is in S.                                    *)
Named(x, p, z) == z.device = p /\ z.entity = x.entity /\ z.counter = x.vector[p]

PastIn(x, S) ==
    \A p \in Devices \ {x.device} :
        x.vector[p] > 0 => \E z \in S : Named(x, p, z)

Siblings(x, y) == x.device = y.device /\ x.entity = y.entity

VectorInv ==
    /\ \A x \in Known : x.counter > 0 /\ x.vector[x.device] = x.counter
    /\ \A x, y \in Known : Siblings(x, y) /\ x.nr < y.nr => x.counter < y.counter
    /\ \A x \in Known : PastIn(x, Members(log))

(* The vector of a mutation is that of its base but for its own device. *)
LEMMA NewEnvelopeVector ==
    ASSUME NEW d \in Devices, NEW s \in EngineState, NEW e \in AnyEntity
    PROVE  LET x == NewEnvelope(d, s, e)
               c == s.current[e]
           IN  /\ x.counter > 0
               /\ x.vector[d] = x.counter
               /\ \A p \in Devices \ {d} :
                     x.vector[p] > 0 => c \in Envelope /\ x.vector[p] = c.vector[p]
<1> DEFINE c == s.current[e]
           base == IF c = NoEnvelope THEN ZeroVector ELSE c.vector
           n == Larger(s.counter, base[d]) + 1
           x == NewEnvelope(d, s, e)
<1>1. base \in Vector /\ c \in Envelope \cup {NoEnvelope}
  BY DEF EngineState, Envelope, ZeroVector, Vector
<1>2. n \in Nat /\ n > 0
  <2>1. base[d] \in Nat /\ s.counter \in Nat
    BY <1>1 DEF Vector, EngineState
  <2> HIDE DEF base
  <2>2. Larger(s.counter, base[d]) \in Nat
    BY <2>1, LargerType
  <2> QED
    BY <2>2
<1>3. \A p \in Devices : base[p] > 0 => c \in Envelope /\ base[p] = c.vector[p]
  BY <1>1 DEF ZeroVector
<1> HIDE DEF base, n
<1>4. x = [device |-> d, entity |-> e, counter |-> n,
           vector |-> [base EXCEPT ![d] = n], nr |-> writes + 1]
  BY DEF NewEnvelope, base, n
<1>5. /\ x.counter = n /\ x.vector[d] = n
      /\ \A p \in Devices \ {d} : x.vector[p] = base[p]
  BY <1>1, <1>4 DEF Vector
<1> QED
  BY <1>2, <1>3, <1>5

(* A mutation has seen what its base has, and the base. *)
LEMMA NewSeesBase ==
    ASSUME TypeOK, NEW d \in Devices, NEW s \in EngineState, NEW e \in AnyEntity, NEW S,
           s.current[e] \in Envelope =>
              LET c == s.current[e] IN
              /\ c.entity = e /\ c.vector[c.device] = c.counter
              /\ PastIn(c, S)
              /\ c.device # d => c \in S
    PROVE  PastIn(NewEnvelope(d, s, e), S)
<1> DEFINE x == NewEnvelope(d, s, e)
           c == s.current[e]
<1>1. x.device = d /\ x.entity = e
  BY NewEnvelopeType DEF TypeOK
<1>2. \A p \in Devices \ {d} : x.vector[p] > 0 => c \in Envelope /\ x.vector[p] = c.vector[p]
  BY NewEnvelopeVector
<1> SUFFICES PastIn(x, S)
  OBVIOUS
<1> HIDE DEF x
<1>3. SUFFICES ASSUME NEW p \in Devices \ {d}, x.vector[p] > 0
               PROVE  \E z \in S : Named(x, p, z)
  BY <1>1 DEF PastIn
<1>4. c \in Envelope /\ x.vector[p] = c.vector[p] /\ c.entity = e
  BY <1>2, <1>3
<1>5. CASE c.device = p
  <2>1. c \in S /\ c.counter = c.vector[p]
    BY <1>4, <1>5
  <2> QED
    BY <1>1, <1>4, <1>5, <2>1 DEF Named
<1>6. CASE c.device # p
  <2>1. PICK z \in S : Named(c, p, z)
    BY <1>3, <1>4, <1>6 DEF PastIn
  <2> QED
    BY <1>1, <1>4, <2>1 DEF Named
<1> QED
  BY <1>5, <1>6

(* What a mutation has seen of other devices came from the log. *)
LEMMA NewEnvelopePast ==
    ASSUME TypeOK, SoleInv, SourceInv, MaterialInv, VectorInv,
           NEW g \in Engines, NEW e \in AnyEntity
    PROVE  PastIn(NewEnvelope(DeviceOf[g], engine[g], e), Members(log))
<1> DEFINE d == DeviceOf[g]
           s == engine[g]
           c == s.current[e]
<1>1. d \in Devices /\ s \in EngineState
  BY CloudSyncAssumption DEF TypeOK
<1>2. ASSUME c \in Envelope
      PROVE  /\ c.entity = e /\ c.vector[c.device] = c.counter
             /\ PastIn(c, Members(log))
             /\ c.device # d => c \in Members(log)
  <2>1. c \in Members(s.records) /\ c.entity = e
    BY <1>2, NoEnvelopeAssumption DEF MaterialInv, MaterialOK, ShowsOwnRecords
  <2>2. c \in Members(log) \/ c \in s.journal
    BY <2>1 DEF SourceInv, EngineFrom
  <2>3. c \in Known
    BY <2>2 DEF Known
  <2>4. c \in s.journal => c.device = d
    BY DEF SoleInv, EngineSound, JournalOwn
  <2> QED
    BY <2>1, <2>2, <2>3, <2>4 DEF VectorInv
<1> QED
  BY <1>1, <1>2, NewSeesBase

LEMMA VectorStep ==
    ASSUME TypeOK, Undisturbed, SoleInv, SafeInv, UniqueInv, SourceInv, MaterialInv,
           VectorInv, [Next]_vars
    PROVE  VectorInv'
<1>a. Known \subseteq Envelope /\ writes \in Nat
  BY KnownTypes DEF TypeOK
<1>b. Members(log) \subseteq Members(log')
  BY LogGrows
<1>c. Known' \subseteq Known \cup Journals'
  <2>1. Known' = Journals' \cup Public'
    BY DEF Known, Journals, Public
  <2> QED
    BY <2>1, KnownGrows
<1>d. ASSUME NEW x, PastIn(x, Members(log)) PROVE PastIn(x, Members(log'))
  BY <1>b, <1>d DEF PastIn
<1>1. CASE Journals' \subseteq Journals
  <2>1. Known' \subseteq Known
    BY <1>1, <1>c, KnownParts
  <2> QED
    BY <1>d, <2>1 DEF VectorInv
<1>2. ASSUME NEW g \in Engines, NEW e \in AnyEntity, Mutation(g, e),
             Journals' \subseteq Journals \cup {NewEnvelope(DeviceOf[g], engine[g], e)}
      PROVE  VectorInv'
  <2> DEFINE d == DeviceOf[g]
             s == engine[g]
             x == NewEnvelope(d, s, e)
  <2>1. d \in Devices /\ s \in EngineState /\ s.up
    BY <1>2, CloudSyncAssumption DEF TypeOK, Mutation, Free
  <2>2. x \in Envelope /\ x.device = d /\ x.entity = e /\ x.nr = writes + 1
    BY <1>a, <2>1, NewEnvelopeType
  <2>3. x.counter > s.counter /\ x.counter > 0 /\ x.vector[d] = x.counter
    BY <2>1, NewEnvelopeCounts, NewEnvelopeVector
  <2>4. PastIn(x, Members(log))
    BY NewEnvelopePast
  <2>5. e \in Entities \/ e = BackupEntity(x.nr)
    BY <1>2, <2>2 DEF Mutation
  <2> HIDE DEF x
  <2>6. \A y \in Known' : y \in Known \/ y = x
    BY <1>2, <1>c, KnownParts DEF x
  <2>7. \A y \in Known : y.nr \in Nat /\ y.nr <= writes
    BY <1>a DEF UniqueInv, NumbersOK, Envelope
  <2>8. ASSUME NEW y \in Known, Siblings(y, x) PROVE y.counter < x.counter
    <3>1. CASE e \in Entities
      <4>1. y.counter <= s.counter
        BY <2>1, <2>2, <2>8, <3>1, KnownIsJournaled DEF Siblings
      <4>2. y.counter \in Nat /\ s.counter \in Nat /\ x.counter \in Nat
        BY <1>a, <2>1, <2>2 DEF Envelope, EngineState
      <4> QED
        BY <2>3, <4>1, <4>2
    <3>2. CASE e \notin Entities
      <4>1. BackupEntity(y.nr) = BackupEntity(x.nr)
        BY <2>2, <2>5, <2>8, <3>2 DEF UniqueInv, NumbersOK, Siblings
      <4>2. y.nr = x.nr
        BY <4>1 DEF BackupEntity
      <4> QED
        BY <1>a, <2>2, <2>7, <4>2
    <3> QED
      BY <3>1, <3>2
  <2>9. \A y \in Known' : y.counter > 0 /\ y.vector[y.device] = y.counter
    BY <2>2, <2>3, <2>6 DEF VectorInv
  <2>10. ASSUME NEW y \in Known', NEW z \in Known', Siblings(y, z), y.nr < z.nr
         PROVE  y.counter < z.counter
    <3>1. CASE z = x
      <4>1. y \in Known
        BY <1>a, <2>2, <2>6, <2>10, <3>1
      <4> QED
        BY <2>8, <2>10, <3>1, <4>1
    <3>2. CASE z # x
      <4>1. z \in Known
        BY <2>6, <3>2
      <4>2. y # x
        BY <1>a, <2>2, <2>7, <2>10, <4>1
      <4> QED
        BY <2>6, <2>10, <4>1, <4>2 DEF VectorInv
    <3> QED
      BY <3>1, <3>2
  <2>11. \A y \in Known' : PastIn(y, Members(log'))
    BY <1>d, <2>4, <2>6 DEF VectorInv
  <2> QED
    BY <2>9, <2>10, <2>11 DEF VectorInv
<1> QED
  BY <1>1, <1>2, KnownGrows

(* A device's mutations leave it in the order they were made: what is on its *)
(* way, or stored, never overtakes an older one of the same device.          *)
Turn(B) ==
    \A y \in B, x \in Journals :
        x.device = y.device /\ x.nr < y.nr => x \in B \cup Members(log)

TurnInv ==
    /\ Turn(Members(log))
    /\ Turn(storing)
    /\ \A b \in stray : Turn(b)
    /\ \A h \in Handlers : At(h, "push") => Turn(task[h].batch)

(* Such a set stays one while the journals grow by newer mutations. *)
LEMMA TurnStays ==
    ASSUME TypeOK, SoleInv, UniqueInv, [Next]_vars, NEW B, B \subseteq Known, Turn(B)
    PROVE  \A y \in B, x \in Journals' :
              x.device = y.device /\ x.nr < y.nr => x \in B \cup Members(log)
<1>1. Known \subseteq Envelope /\ writes \in Nat
  BY KnownTypes DEF TypeOK
<1>2. CASE Journals' \subseteq Journals
  BY <1>2 DEF Turn
<1>3. ASSUME NEW g \in Engines, NEW e \in AnyEntity,
             Journals' \subseteq Journals \cup {NewEnvelope(DeviceOf[g], engine[g], e)}
      PROVE  \A y \in B, x \in Journals' :
                x.device = y.device /\ x.nr < y.nr => x \in B \cup Members(log)
  <2> DEFINE n == NewEnvelope(DeviceOf[g], engine[g], e)
  <2>1. n.nr = writes + 1
    BY <1>1, NewEnvelopeType, CloudSyncAssumption DEF TypeOK
  <2> HIDE DEF n
  <2>2. \A y \in B : y.nr \in Nat /\ y.nr <= writes
    BY <1>1 DEF UniqueInv, NumbersOK, Envelope
  <2>3. \A x \in Journals' : x \in Journals \/ x = n
    BY <1>3 DEF n
  <2>4. \A y \in B : ~ (n.nr < y.nr)
    BY <1>1, <2>1, <2>2
  <2> QED
    BY <2>3, <2>4 DEF Turn
<1> QED
  BY <1>2, <1>3, KnownGrows

(* What the next push of an engine carries. *)
Pending(g) == {x \in engine[g].journal : Id(x) \notin engine[g].sent}

(* A push takes along everything that is not in the log. *)
LEMMA PendingTurn ==
    ASSUME TypeOK, Undisturbed, SoleInv, UniqueInv, ReplicaInv,
           NEW g \in Engines, engine[g].up
    PROVE  Turn(Pending(g))
<1> DEFINE s == engine[g]
           pending == {x \in s.journal : Id(x) \notin s.sent}
<1>a. DeviceOf[g] \in Devices
  BY CloudSyncAssumption
<1> SUFFICES ASSUME NEW y \in pending, NEW x \in Journals,
                    x.device = y.device, x \notin pending
             PROVE  x \in Members(log)
  BY DEF Turn, Pending
<1>1. y.device = DeviceOf[g]
  BY DEF SoleInv, EngineSound, JournalOwn
<1>2. x \in s.journal
  <2>1. CASE \E k \in Engines : x \in engine[k].journal
    <3>1. PICK k \in Engines : x \in engine[k].journal
      BY <2>1
    <3>2. x.device = DeviceOf[k]
      BY <3>1 DEF SoleInv, EngineSound, JournalOwn
    <3> QED
      BY <1>1, <3>1, <3>2 DEF Undisturbed
  <2>2. CASE \E c \in Devices : x \in disk[c].journal
    <3>1. PICK c \in Devices : x \in disk[c].journal
      BY <2>2
    <3>2. x.device = c
      BY <3>1 DEF SoleInv, JournalOwn
    <3> QED
      BY <1>a, <1>1, <3>1, <3>2 DEF SoleInv, EngineSound
  <2> QED
    BY <2>1, <2>2 DEF Journals
<1>3. Id(x) \in Ids(Members(log))
  BY <1>2 DEF ReplicaInv, EngineOK
<1>4. PICK z \in Members(log) : Id(z) = Id(x)
  BY <1>3 DEF Ids
<1>5. x \in Known /\ z \in Known
  BY KnownParts DEF Public
<1> QED
  BY <1>4, <1>5 DEF UniqueInv, RecordIdsAreUnique

LEMMA OldestIsFirst ==
    ASSUME NEW S \in SUBSET Envelope, S # {}
    PROVE  \A y \in S : Oldest(S).nr <= y.nr
<1> DEFINE T == {x.nr : x \in S}
<1>1. T \subseteq Nat /\ T # {}
  BY DEF Envelope
<1>2. PICK m \in T : \A n \in T : m <= n
  BY <1>1, LeastNatural
<1>3. \E x \in S : \A y \in S : x.nr <= y.nr
  BY <1>2
<1> QED
  BY <1>3 DEF Oldest

(* Where the batch of a push comes from, and where it goes. *)
LEMMA BatchMoves ==
    ASSUME TypeOK, [Next]_vars
    PROVE  /\ \/ storing' = storing \/ RelayStore
              \/ \E h \in Handlers : At(h, "push") /\ storing' = task[h].batch
              \/ storing' \in stray
           /\ \A b \in stray' :
                 b \in stray \/ \E h \in Handlers : At(h, "push") /\ b = task[h].batch
<1>1. ASSUME NEW h \in Handlers, RelayPush(h)
      PROVE  stray' = stray /\ \E k \in Handlers : At(k, "push") /\ storing' = task[k].batch
  BY <1>1 DEF RelayPush
<1>2. ASSUME NEW c \in stray, RelayStray(c) PROVE storing' \in stray /\ stray' \subseteq stray
  BY <1>2 DEF RelayStray
<1>3. ASSUME NEW h \in Handlers, CallFails(h)
      PROVE  /\ storing' = storing
             /\ \A b \in stray' :
                   b \in stray \/ \E k \in Handlers : At(k, "push") /\ b = task[k].batch
  BY <1>3 DEF CallFails
<1>4. ASSUME NEW g \in Engines, Exit(g)
      PROVE  /\ storing' = storing
             /\ \A b \in stray' :
                   b \in stray \/ \E k \in Handlers : At(k, "push") /\ b = task[k].batch
  BY <1>4 DEF Exit
<1>5. RelayStore => stray' = stray
  BY DEF RelayStore
<1>6. \/ UNCHANGED <<storing, stray>> \/ RelayStore
      \/ \E h \in Handlers : RelayPush(h) \/ CallFails(h)
      \/ \E b \in stray : RelayStray(b)
      \/ \E g \in Engines : Exit(g)
  BY DEF Next, EngineStep, CallBegins, CallGoesOn, vars, relayVars, Load, ApplyNext,
     ReplayNext, Journal, Backup, Pause, Sync, Reset, ResetDone, ChunksUploaded,
     PushRefused, PushAccepted, RelayPull, PageReceived, Serialize, Write
<1> QED
  BY <1>1, <1>2, <1>3, <1>4, <1>5, <1>6

LEMMA BatchBegins ==
    ASSUME TypeOK, [Next]_vars, NEW h \in Handlers, At(h, "push")'
    PROVE  \/ At(h, "push") /\ task'[h].batch = task[h].batch
           \/ Free(EngineOf[h]) /\ task'[h].batch = Pending(EngineOf[h])
<1> DEFINE same == task'[h] = task[h]
<1>a. task[h] \in Task /\ task'[h].stage = "push"
  BY DEF TypeOK, At
<1>b. \A st : [Idle EXCEPT !.stage = st].stage = st
  BY DEF Idle
<1>c. \A t : task'[h] = t => t.stage = "push"
  BY <1>a
<1>1. ASSUME NEW k \in Handlers, ChunksUploaded(k)
      PROVE  \/ same
             \/ Free(EngineOf[h]) /\ task'[h].batch = Pending(EngineOf[h])
  <2>1. CASE k # h
    BY <1>1, <2>1 DEF ChunksUploaded, TypeOK
  <2>2. CASE k = h
    <3> DEFINE t == [task[h] EXCEPT !.stage = "push", !.batch = Pending(EngineOf[h])]
               u == [task[h] EXCEPT !.stage = "pull", !.after = engine[EngineOf[h]].cursor]
    <3>1. Free(EngineOf[h]) /\ (task'[h] = t \/ task'[h] = u)
      BY <1>1, <2>2 DEF ChunksUploaded, CanResume, TypeOK, Pending
    <3>2. u.stage = "pull" /\ t.batch = Pending(EngineOf[h])
      BY <1>a DEF Task
    <3> HIDE DEF t, u
    <3> QED
      BY <1>c, <3>1, <3>2
  <2> QED
    BY <2>1, <2>2
<1>3. ASSUME NEW k \in Handlers, NEW t, task' = [task EXCEPT ![k] = t], t.stage # "push"
      PROVE  same
  BY <1>3, <1>a DEF TypeOK
<1>4. ASSUME NEW k \in Handlers, NEW e \in Entities, Journal(k, e) PROVE same
  <2>1. \A x : [Idle EXCEPT !.stage = "persist", !.mine = {x}].stage = "persist"
    BY DEF Idle
  <2> QED
    BY <1>4, <1>a, <2>1 DEF Journal, TypeOK
<1>5. ASSUME NEW k \in Handlers, Backup(k) \/ Sync(k) \/ Reset(k)
                                   \/ \E value \in BOOLEAN : Pause(k, value)
      PROVE  same
  <2>1. \A s : SyncEntry(s) # "push"
    BY DEF SyncEntry
  <2>2. \E st : st # "push" /\ task' = [task EXCEPT ![k] = [Idle EXCEPT !.stage = st]]
    BY <1>5, <2>1 DEF Backup, Sync, Reset, Pause
  <2> QED
    BY <1>a, <1>b, <2>2 DEF TypeOK
<1>6. ASSUME NEW k \in Handlers, ResetDone(k) PROVE same
  <2>1. [Idle EXCEPT !.stage = "persist", !.then = "sync"].stage = "persist"
    BY DEF Idle
  <2> QED
    BY <1>3, <1>6, <2>1 DEF ResetDone
<1>7. ASSUME NEW k \in Handlers, PushRefused(k) \/ CallFails(k) PROVE same
  <2>1. task' = [task EXCEPT ![k] = Idle] /\ Idle.stage # "push"
    BY <1>7 DEF PushRefused, CallFails, Idle
  <2> QED
    BY <1>3, <2>1
<1>8. ASSUME NEW k \in Handlers, RelayPush(k) PROVE same
  BY <1>8, <1>a DEF RelayPush, TypeOK, Task
<1>9. ASSUME NEW k \in Handlers, PushAccepted(k) PROVE same
  BY <1>9, <1>a DEF PushAccepted, TypeOK, Task
<1>10. ASSUME NEW k \in Handlers, RelayPull(k) PROVE same
  BY <1>10, <1>a DEF RelayPull, TypeOK, Task
<1>11. ASSUME NEW k \in Handlers, PageReceived(k) PROVE same
  BY <1>11, <1>a, <1>b DEF PageReceived, TypeOK, Task
<1>12. ASSUME NEW k \in Handlers, Serialize(k) PROVE same
  BY <1>12, <1>a DEF Serialize, TypeOK, Task
<1>13. ASSUME NEW k \in Handlers, Write(k) PROVE same
  <2>1. \A s : SyncEntry(s) # "push"
    BY DEF SyncEntry
  <2>2. Idle.stage # "push"
    BY DEF Idle
  <2> QED
    BY <1>13, <1>a, <1>b, <2>1, <2>2 DEF Write, TypeOK
<1>14. ASSUME NEW g \in Engines, Exit(g) PROVE same
  BY <1>14, <1>a DEF Exit, Idle
<1>15. task' = task => same
  OBVIOUS
<1>16. same => At(h, "push") /\ task'[h].batch = task[h].batch
  BY <1>a DEF At
<1> HIDE DEF same
<1> QED
  BY <1>1, <1>4, <1>5, <1>6, <1>7, <1>8, <1>9, <1>10, <1>11, <1>12, <1>13, <1>14,
     <1>15, <1>16
     DEF Next, EngineStep, CallBegins, CallGoesOn, vars, Load, ApplyNext, ReplayNext,
     RelayStray, RelayStore

LEMMA TurnStep ==
    ASSUME TypeOK, Undisturbed, SoleInv, UniqueInv, ReplicaInv, TurnInv, [Next]_vars
    PROVE  TurnInv'
<1> DEFINE L == Members(log)
           M == Members(log')
           Stays(B) == \A y \in B, x \in Journals' :
                          x.device = y.device /\ x.nr < y.nr => x \in B \cup M
<1>a. L \subseteq M
  BY LogGrows
<1>b. /\ L \subseteq Known /\ storing \subseteq Known
      /\ \A b \in stray : b \subseteq Known
      /\ \A h \in Handlers : At(h, "push") => task[h].batch \subseteq Known
  BY CloudSyncAssumption DEF Known, SoleInv, CallSound, At
<1>c. ASSUME NEW B, B \subseteq Known, Turn(B) PROVE Stays(B)
  BY <1>a, <1>c, TurnStays
<1>d. ASSUME NEW B, Stays(B) PROVE Turn(B)'
  BY <1>d DEF Turn
<1>e. \A h \in Handlers : At(h, "push") => Stays(task[h].batch)
  BY <1>b, <1>c DEF TurnInv
<1>f. \A b \in stray : Stays(b)
  BY <1>b, <1>c DEF TurnInv
<1>g. Stays(L) /\ Stays(storing)
  BY <1>b, <1>c DEF TurnInv
<1>1. CASE RelayStore
  <2> DEFINE o == Oldest(storing)
  <2>1. /\ o \in storing /\ o \in Envelope
        /\ \A y \in storing : o.nr <= y.nr /\ y.nr \in Nat /\ o.nr \in Nat
    BY <1>1, OldestIsMember, OldestIsFirst DEF RelayStore, TypeOK, Envelope
  <2>2. storing' = storing \ {o}
    BY <1>1 DEF RelayStore
  <2>3. M = L \cup {o}
    <3>1. CASE Id(o) \in Ids(L)
      <4>1. PICK z \in L : Id(z) = Id(o)
        BY <3>1 DEF Ids
      <4>2. o \in L
        BY <1>b, <2>1, <4>1 DEF UniqueInv, RecordIdsAreUnique
      <4> QED
        BY <1>1, <3>1, <4>2 DEF RelayStore
    <3>2. CASE Id(o) \notin Ids(L)
      BY <1>1, <2>1, <3>2, AppendMembers DEF RelayStore, TypeOK
    <3> QED
      BY <3>1, <3>2
  <2> HIDE DEF o, M
  <2>4. Stays(M)
    <3> SUFFICES ASSUME NEW y \in M, NEW x \in Journals', x.device = y.device, x.nr < y.nr
                 PROVE  x \in M
      OBVIOUS
    <3>1. CASE y \in L
      BY <1>a, <1>g, <3>1
    <3>2. CASE y = o
      <4>1. x \in storing \/ x \in M
        BY <1>g, <2>1, <3>2
      <4>2. x \notin storing
        BY <2>1, <3>2
      <4> QED
        BY <4>1, <4>2
    <3> QED
      BY <2>3, <3>1, <3>2
  <2>5. Stays(storing \ {o})
    BY <1>g, <2>3
  <2> QED
    <3>1. stray' = stray /\ task' = task
      BY <1>1 DEF RelayStore
    <3>2. Turn(Members(log))'
      BY <1>d, <2>4 DEF M
    <3>3. Turn(storing)'
      BY <1>d, <2>2, <2>5
    <3>4. \A b \in stray' : Turn(b)'
      BY <1>d, <1>f, <3>1
    <3>5. \A h \in Handlers : At(h, "push")' => Turn(task[h].batch)'
      BY <1>d, <1>e, <3>1 DEF At
    <3> QED
      BY <3>2, <3>3, <3>4, <3>5 DEF TurnInv
<1>2. CASE ~RelayStore
  <2>1. log' = log
    <3>1. RelayStore \/ log' = log
      BY DEF Next, EngineStep, CallBegins, CallGoesOn, vars, relayVars, Load, ApplyNext,
         ReplayNext, Journal, Backup, Pause, Sync, Reset, ResetDone, ChunksUploaded,
         PushRefused, RelayPush, PushAccepted, RelayPull, PageReceived, Serialize, Write,
         CallFails, Exit, RelayStray
    <3> QED
      BY <1>2, <3>1
  <2>2. Turn(Members(log))'
    BY <1>d, <1>g, <2>1
  <2>3. Turn(storing)'
    <3>1. \/ storing' = storing \/ storing' \in stray
          \/ \E h \in Handlers : At(h, "push") /\ storing' = task[h].batch
      BY <1>2, BatchMoves
    <3>2. Stays(storing')
      BY <1>e, <1>f, <1>g, <3>1
    <3> QED
      BY <1>d, <3>2
  <2>4. \A b \in stray' : Turn(b)'
    <3>1. \A b \in stray' : Stays(b)
      BY <1>e, <1>f, BatchMoves
    <3> QED
      BY <1>d, <3>1
  <2>5. ASSUME NEW h \in Handlers, At(h, "push")' PROVE Turn(task[h].batch)'
    <3> DEFINE g == EngineOf[h]
    <3>1. Free(g) => Pending(g) \subseteq Known /\ Turn(Pending(g))
      BY CloudSyncAssumption, PendingTurn DEF Pending, Known, Free
    <3>2. Stays(task'[h].batch)
      BY <1>c, <1>e, <2>5, <3>1, BatchBegins
    <3> QED
      BY <1>d, <3>2
  <2> QED
    BY <2>2, <2>3, <2>4, <2>5 DEF TurnInv
<1> QED
  BY <1>1, <1>2

Before(seq, i) == {seq[k] : k \in 1..(i - 1)}

(* A revision comes after what it has seen, and siblings in their order. *)
PastFirst(seq) == \A i \in 1..Len(seq) : PastIn(seq[i], Before(seq, i))

InTurn(seq) ==
    \A i, j \in 1..Len(seq) :
        i < j /\ Siblings(seq[i], seq[j]) => seq[i].nr < seq[j].nr

(* So no revision follows one that has seen it. *)
Causal(seq) ==
    \A i, j \in 1..Len(seq) :
        i < j /\ seq[i].entity = seq[j].entity =>
            CompareVectors(seq[j].vector, seq[i].vector) \notin {"before", "equal"}

LEMMA OrderIsCausal ==
    ASSUME VectorInv, NEW seq \in Seq(Envelope), Members(seq) \subseteq Known,
           PastFirst(seq), InTurn(seq)
    PROVE  Causal(seq)
<1> SUFFICES ASSUME NEW i \in 1..Len(seq), NEW j \in 1..Len(seq), i < j,
                    seq[i].entity = seq[j].entity,
                    CompareVectors(seq[j].vector, seq[i].vector) \in {"before", "equal"}
             PROVE  FALSE
  BY DEF Causal
<1> DEFINE x == seq[i]
           y == seq[j]
           p == y.device
<1>1. x \in Envelope /\ y \in Envelope /\ x \in Known /\ y \in Known
  BY DEF Members
<1>2. p \in Devices /\ x.vector \in Vector /\ y.vector \in Vector
  BY <1>1 DEF Envelope
<1>3. ~ (y.vector[p] > x.vector[p])
  BY <1>2 DEF CompareVectors
<1>4. y.vector[p] = y.counter /\ y.counter > 0
  BY <1>1 DEF VectorInv
<1>5. x.vector[p] \in Nat /\ y.counter \in Nat /\ x.counter \in Nat
  BY <1>1, <1>2 DEF Vector, Envelope
<1>6. x.vector[p] >= y.counter
  BY <1>3, <1>4, <1>5
<1>7. CASE x.device = p
  <2>1. x.vector[p] = x.counter
    BY <1>1, <1>7 DEF VectorInv
  <2>2. x.counter < y.counter
    BY <1>1, <1>7 DEF VectorInv, InTurn, Siblings
  <2> QED
    BY <1>5, <1>6, <2>1, <2>2
<1>8. CASE x.device # p
  <2>1. x.vector[p] > 0
    BY <1>4, <1>5, <1>6
  <2>2. PICK z \in Before(seq, i) : Named(x, p, z)
    BY <1>2, <1>8, <2>1 DEF PastFirst, PastIn
  <2>3. PICK k \in 1..(i - 1) : z = seq[k]
    BY <2>2 DEF Before
  <2>4. k \in 1..Len(seq) /\ k < j
    BY <2>3
  <2>5. z \in Known /\ z \in Envelope
    BY <2>3, <2>4 DEF Members
  <2>6. Siblings(z, y) /\ z.counter = x.vector[p]
    BY <2>2 DEF Named, Siblings
  <2>7. z.counter < y.counter
    BY <1>1, <2>3, <2>4, <2>5, <2>6 DEF InTurn, VectorInv
  <2> QED
    BY <1>5, <1>6, <2>6, <2>7
<1> QED
  BY <1>7, <1>8

LEMMA AppendInOrder ==
    ASSUME NEW seq \in Seq(Envelope), NEW x \in Envelope, PastFirst(seq), InTurn(seq),
           PastIn(x, Members(seq)),
           \A y \in Members(seq) : Siblings(y, x) => y.nr < x.nr
    PROVE  PastFirst(Append(seq, x)) /\ InTurn(Append(seq, x))
<1> DEFINE new == Append(seq, x)
           n == Len(seq)
<1>1. n \in Nat /\ Len(new) = n + 1 /\ new[n + 1] = x /\ \A i \in 1..n : new[i] = seq[i]
  OBVIOUS
<1> HIDE DEF new
<1>2. \A i \in 1..n : Before(new, i) = Before(seq, i)
  BY <1>1 DEF Before
<1>3. Before(new, n + 1) = Members(seq)
  BY <1>1 DEF Before, Members
<1>4. PastFirst(new)
  BY <1>1, <1>2, <1>3 DEF PastFirst
<1>5. ASSUME NEW i \in 1..(n + 1), NEW j \in 1..(n + 1), i < j, Siblings(new[i], new[j])
      PROVE  new[i].nr < new[j].nr
  <2>1. i \in 1..n /\ new[i] = seq[i] /\ seq[i] \in Members(seq)
    BY <1>1, <1>5 DEF Members
  <2>2. CASE j = n + 1
    BY <1>1, <1>5, <2>1, <2>2
  <2>3. CASE j # n + 1
    BY <1>1, <1>5, <2>1, <2>3 DEF InTurn
  <2> QED
    BY <2>2, <2>3
<1>6. InTurn(new)
  BY <1>1, <1>5 DEF InTurn
<1> QED
  BY <1>4, <1>6 DEF new

LEMMA LogOrderStep ==
    ASSUME TypeOK, SafeInv, UniqueInv, VectorInv, TurnInv, PastFirst(log), InTurn(log),
           [Next]_vars
    PROVE  PastFirst(log') /\ InTurn(log')
<1> DEFINE x == Oldest(storing)
<1>1. CASE log' = log
  BY <1>1
<1>2. CASE log' # log
  <2>1. storing # {} /\ Id(x) \notin Ids(Members(log)) /\ log' = Append(log, x)
    BY <1>2, LogMovesSo DEF LogMove
  <2>2. x \in storing /\ x \in Envelope /\ log \in Seq(Envelope)
    BY <2>1, OldestIsMember DEF TypeOK
  <2> HIDE DEF x
  <2>3. x \in Known /\ x \notin Members(log)
    BY <2>1, <2>2 DEF Known, Ids
  <2>4. ASSUME NEW y \in Members(log), Siblings(y, x) PROVE y.nr < x.nr
    <3>1. y \in Known /\ y \in Envelope
      BY KnownTypes DEF Known
    <3>2. y.nr # x.nr
      BY <2>3, <3>1 DEF UniqueInv, NumbersOK
    <3>3. CASE x.entity \in Entities
      <4>1. x \in disk[x.device].journal
        BY <2>2, <3>3 DEF SafeInv, Public
      <4>2. x \in Journals
        BY <2>2, <4>1 DEF Journals, Envelope
      <4>3. ~ (x.nr < y.nr)
        BY <2>3, <2>4, <4>2 DEF TurnInv, Turn, Siblings
      <4> QED
        BY <2>2, <3>1, <3>2, <4>3 DEF Envelope
    <3>4. CASE x.entity \notin Entities
      <4>1. BackupEntity(y.nr) = BackupEntity(x.nr)
        BY <2>3, <2>4, <3>1, <3>4 DEF UniqueInv, NumbersOK, Siblings
      <4> QED
        BY <3>2, <4>1 DEF BackupEntity
    <3> QED
      BY <3>3, <3>4
  <2>5. PastIn(x, Members(log))
    BY <2>3 DEF VectorInv
  <2> QED
    BY <2>1, <2>2, <2>4, <2>5, AppendInOrder
<1> QED
  BY <1>1, <1>2

CausalInv ==
    /\ TypeOK /\ ReplicaInv /\ MaterialInv /\ SourceInv
    /\ SoleInv /\ SafeInv /\ UniqueInv /\ VectorInv /\ TurnInv
    /\ PastFirst(log) /\ InTurn(log)

LEMMA CausalInvariant == ASSUME Undisturbed PROVE Spec => []CausalInv
<1> DEFINE Base == TypeOK /\ SoleInv /\ SafeInv /\ UniqueInv /\ ReplicaInv /\ MaterialInv
           Inv == SourceInv /\ VectorInv /\ TurnInv /\ PastFirst(log) /\ InTurn(log)
<1>1. Spec => []Base
  BY SoleInvariants, ReplicaInvariant, MaterialInvariant, PTL
<1>2. Init => Inv
  <2> SUFFICES ASSUME Init PROVE Inv
    OBVIOUS
  <2>1. SourceInv
    BY SourceInit
  <2>2. log = <<>> /\ storing = {} /\ stray = {}
    BY DEF Init
  <2>3. /\ \A g \in Engines : engine[g].journal = {}
        /\ \A d \in Devices : disk[d].journal = {}
        /\ \A h \in Handlers : ~At(h, "push")
    BY DEF Init, Down, Constructed, FreshState, At, Idle
  <2>4. Known = {}
    BY <2>2, <2>3, EmptyMembers DEF Known
  <2>5. VectorInv
    BY <2>4 DEF VectorInv
  <2>6. TurnInv
    BY <2>2, <2>3, EmptyMembers DEF TurnInv, Turn
  <2>7. PastFirst(log) /\ InTurn(log)
    BY <2>2 DEF PastFirst, InTurn
  <2> QED
    BY <2>1, <2>5, <2>6, <2>7
<1>3. Base /\ Inv /\ [Next]_vars => Inv'
  BY SourceStep, VectorStep, TurnStep, LogOrderStep
<1>4. Base /\ Inv => CausalInv
  BY DEF CausalInv
<1> QED
  BY <1>1, <1>2, <1>3, <1>4, PTL DEF Spec

(* The relay's order respects causality, for any devices, crashes, resets    *)
(* and stray or repeated pushes: no revision is stored behind one that has   *)
(* seen it.  It rests on every push carrying all that is unsent (sync() of   *)
(* engine.ts) and on the relay storing a batch in its order (relay.ts).      *)
THEOREM LogStaysCausal == ASSUME Undisturbed PROVE Spec => []LogIsCausal
<1>1. CausalInv => LogIsCausal
  <2> SUFFICES ASSUME CausalInv PROVE LogIsCausal
    OBVIOUS
  <2>1. log \in Seq(Envelope) /\ Members(log) \subseteq Known
    BY DEF CausalInv, TypeOK, Known
  <2>2. Causal(log)
    BY <2>1, OrderIsCausal DEF CausalInv
  <2> QED
    BY <2>2 DEF Causal, LogIsCausal
<1> QED
  BY <1>1, CausalInvariant, PTL

(* `T', still to be applied, continues the records `R' in that order. *)
Turned(S, x) == \A y \in S : Siblings(y, x) => y.nr < x.nr

Continues(T, R) ==
    /\ InTurn(T)
    /\ \A i \in 1..Len(T) :
          /\ PastIn(T[i], Members(R) \cup Before(T, i))
          /\ T[i] \in Members(R) \/ Turned(Members(R), T[i])

(* The records of other devices are those of the log up to the cursor. *)
Pulled(S, d, cursor, seq) ==
    \A y \in S : y.device # d => \E i \in 1..Len(seq) : i <= cursor /\ seq[i] = y

EngineOrdered(s, d, seq) ==
    /\ PastFirst(s.records) /\ InTurn(s.records)
    /\ Continues(s.todo, s.records)
    /\ s.journal \subseteq Members(s.records) \cup Members(s.todo)
    /\ Pulled(Members(s.records) \cup Members(s.todo), d, s.cursor, seq)

SavedOrdered(p, d, seq) ==
    /\ PastFirst(p.records) /\ InTurn(p.records)
    /\ p.journal \subseteq Members(p.records)
    /\ Pulled(Members(p.records), d, p.cursor, seq)

(* The pull of a call starts at the cursor of its engine. *)
AfterInv ==
    \A h \in Handlers :
        At(h, "pull") \/ At(h, "page") => task[h].after = engine[EngineOf[h]].cursor

OrderInv ==
    /\ \A g \in Engines : EngineOrdered(engine[g], DeviceOf[g], log)
    /\ \A d \in Devices : SavedOrdered(disk[d], d, log)
    /\ \A h \in Handlers : SavedOrdered(task[h].saved, DeviceOf[EngineOf[h]], log)

NoResets == "reset" \notin Ops

LEMMA PullBegins ==
    ASSUME TypeOK, [Next]_vars, NEW h \in Handlers, At(h, "pull")' \/ At(h, "page")'
    PROVE  \/ (At(h, "pull") \/ At(h, "page")) /\ task'[h].after = task[h].after
           \/ task'[h].after = engine'[EngineOf[h]].cursor
<1> DEFINE same == task'[h] = task[h]
           goal == \/ (At(h, "pull") \/ At(h, "page")) /\ task'[h].after = task[h].after
                   \/ task'[h].after = engine'[EngineOf[h]].cursor
           g == EngineOf[h]
<1>a. /\ task[h] \in Task /\ task'[h].stage \in {"pull", "page"}
      /\ g \in Engines /\ engine[g] \in EngineState
  BY CloudSyncAssumption DEF TypeOK, At
<1>b. same => goal
  BY <1>a DEF At
<1>c. \A st : [Idle EXCEPT !.stage = st].stage = st
  BY DEF Idle
<1>d. ASSUME NEW k \in Handlers, NEW t, task' = [task EXCEPT ![k] = t],
             t.stage \notin {"pull", "page"}
      PROVE  same
  BY <1>d, <1>a DEF TypeOK
<1> HIDE DEF same
<1>1. ASSUME NEW k \in Handlers, ChunksUploaded(k) PROVE goal
  <2>1. CASE k # h
    BY <1>1, <1>b, <2>1 DEF ChunksUploaded, TypeOK, same
  <2>2. CASE k = h
    <3> DEFINE t == [task[h] EXCEPT !.stage = "push", !.batch = Pending(g)]
               u == [task[h] EXCEPT !.stage = "pull", !.after = engine[g].cursor]
    <3>1. engine' = engine /\ (task'[h] = t \/ task'[h] = u)
      BY <1>1, <2>2 DEF ChunksUploaded, CanResume, TypeOK, Pending
    <3>2. t.stage = "push" /\ u.after = engine[g].cursor
      BY <1>a DEF Task
    <3> HIDE DEF t, u
    <3> QED
      BY <1>a, <3>1, <3>2
  <2> QED
    BY <2>1, <2>2
<1>2. ASSUME NEW k \in Handlers, NEW e \in Entities, Journal(k, e) PROVE same
  <2>1. \A x : [Idle EXCEPT !.stage = "persist", !.mine = {x}].stage = "persist"
    BY DEF Idle
  <2> QED
    BY <1>2, <1>a, <2>1 DEF Journal, TypeOK, same
<1>3. ASSUME NEW k \in Handlers, Backup(k) \/ Sync(k) \/ Reset(k)
                                   \/ \E value \in BOOLEAN : Pause(k, value)
      PROVE  same
  <2>1. \A s : SyncEntry(s) \notin {"pull", "page"}
    BY DEF SyncEntry
  <2>2. \E st : /\ st \notin {"pull", "page"}
                /\ task' = [task EXCEPT ![k] = [Idle EXCEPT !.stage = st]]
    BY <1>3, <2>1 DEF Backup, Sync, Reset, Pause
  <2> QED
    BY <1>a, <1>c, <2>2 DEF TypeOK, same
<1>4. ASSUME NEW k \in Handlers, ResetDone(k) PROVE same
  <2>1. [Idle EXCEPT !.stage = "persist", !.then = "sync"].stage = "persist"
    BY DEF Idle
  <2> QED
    BY <1>d, <1>4, <2>1 DEF ResetDone
<1>5. ASSUME NEW k \in Handlers, PushRefused(k) \/ CallFails(k) PROVE same
  <2>1. task' = [task EXCEPT ![k] = Idle] /\ Idle.stage \notin {"pull", "page"}
    BY <1>5 DEF PushRefused, CallFails, Idle
  <2> QED
    BY <1>d, <2>1
<1>6. ASSUME NEW k \in Handlers, RelayPush(k) PROVE same
  <2>1. task' = [task EXCEPT ![k].stage = "pushed"]
    BY <1>6 DEF RelayPush
  <2> QED
    BY <1>a, <2>1 DEF TypeOK, Task, same
<1>7. ASSUME NEW k \in Handlers, PushAccepted(k) PROVE goal
  <2>1. CASE k # h
    BY <1>7, <1>b, <2>1 DEF PushAccepted, TypeOK, same
  <2>2. CASE k = h
    <3> DEFINE t == [task[h] EXCEPT !.stage = "pull", !.batch = {}, !.after = engine[g].cursor]
               r == [engine[g] EXCEPT !.sent = @ \cup Ids(task[h].batch)]
    <3>1. task'[h] = t /\ engine'[g] = r
      BY <1>7, <1>a, <2>2 DEF PushAccepted, TypeOK
    <3>2. t.after = engine[g].cursor /\ r.cursor = engine[g].cursor
      BY <1>a DEF Task, EngineState
    <3> HIDE DEF t, r
    <3> QED
      BY <3>1, <3>2
  <2> QED
    BY <2>1, <2>2
<1>8. ASSUME NEW k \in Handlers, RelayPull(k) PROVE goal
  <2>1. CASE k # h
    BY <1>8, <1>b, <2>1 DEF RelayPull, TypeOK, same
  <2>2. CASE k = h
    BY <1>8, <1>a, <2>2 DEF RelayPull, TypeOK, Task, At
  <2> QED
    BY <2>1, <2>2
<1>9. ASSUME NEW k \in Handlers, PageReceived(k) PROVE goal
  <2>1. CASE k # h
    BY <1>9, <1>b, <2>1 DEF PageReceived, TypeOK, same
  <2>2. CASE k = h
    <3> DEFINE page == task[h].page
               c == CursorAfter(task[h].after, page)
               t == [Idle EXCEPT !.stage = "persist"]
               u == [task[h] EXCEPT !.stage = "pull", !.after = c, !.page = <<>>]
               r == [engine[g] EXCEPT !.todo = page, !.cursor = c]
    <3>1. engine'[g] = r /\ (task'[h] = t \/ task'[h] = u)
      BY <1>9, <1>a, <2>2 DEF PageReceived, TypeOK
    <3>2. t.stage = "persist" /\ u.after = c /\ r.cursor = c
      BY <1>a, <1>c DEF Task, EngineState
    <3> HIDE DEF t, u, r, c
    <3> QED
      BY <1>a, <3>1, <3>2
  <2> QED
    BY <2>1, <2>2
<1>10. ASSUME NEW k \in Handlers, Serialize(k) PROVE same
  <2> DEFINE p == Persistence(engine[EngineOf[k]])
             t == [task[k] EXCEPT !.stage = "write", !.saved = p]
  <2>1. task' = [task EXCEPT ![k] = t]
    BY <1>10 DEF Serialize, TypeOK
  <2> HIDE DEF p
  <2>2. t.stage = "write"
    BY DEF TypeOK, Task
  <2> HIDE DEF t
  <2> QED
    BY <1>d, <2>1, <2>2
<1>11. ASSUME NEW k \in Handlers, Write(k) PROVE same
  <2>1. \A s : SyncEntry(s) \notin {"pull", "page"}
    BY DEF SyncEntry
  <2>2. Idle.stage \notin {"pull", "page"}
    BY DEF Idle
  <2> QED
    BY <1>11, <1>a, <1>c, <2>1, <2>2 DEF Write, TypeOK, same
<1>12. ASSUME NEW k \in Engines, Exit(k) PROVE same
  BY <1>12, <1>a DEF Exit, Idle, same
<1>13. task' = task => same
  BY DEF same
<1> HIDE DEF goal
<1> QED
  BY <1>b, <1>1, <1>2, <1>3, <1>4, <1>5, <1>6, <1>7, <1>8, <1>9, <1>10, <1>11, <1>12,
     <1>13
     DEF Next, EngineStep, CallBegins, CallGoesOn, vars, Load, ApplyNext, ReplayNext,
     RelayStray, RelayStore, goal

LEMMA AfterStep ==
    ASSUME TypeOK, Undisturbed, SoleInv, SoleInv', AfterInv, [Next]_vars
    PROVE  AfterInv'
<1> SUFFICES ASSUME NEW h \in Handlers, At(h, "pull")' \/ At(h, "page")'
             PROVE  task'[h].after = engine'[EngineOf[h]].cursor
  BY DEF AfterInv, At
<1> DEFINE g == EngineOf[h]
<1>a. g \in Engines
  BY CloudSyncAssumption
<1>1. CASE task'[h].after = engine'[g].cursor
  BY <1>1
<1>2. CASE (At(h, "pull") \/ At(h, "page")) /\ task'[h].after = task[h].after
  <2>1. task'[h].after = engine[g].cursor /\ engine[g].up /\ engine'[g].up
    BY <1>2 DEF AfterInv, SoleInv, At
  <2>2. EngineMove(g)
    BY <1>a, EngineMovesSo
  <2>3. engine'[g] # Down
    BY <2>1 DEF Down, Constructed, FreshState
  <2>4. CASE Kept(engine[g], engine'[g]) \/ TakesRecord(engine[g], engine'[g])
               \/ ReplaysOne(engine[g], engine'[g])
    BY <2>1, <2>4 DEF Kept, TakesRecord, ReplaysOne, Takes
  <2>5. ASSUME NEW x, Mutates(engine[g], engine'[g], x)
        PROVE  task'[h].after = engine'[g].cursor
    BY <2>1, <2>5 DEF Mutates, Takes
  <2>6. \A k \in Handlers : EngineOf[k] = g => k = h
    BY DEF Undisturbed
  <2>7. ~At(h, "reset")
    BY <1>2 DEF At
  <2>8. CASE At(h, "page") /\ (At(h, "persist")' \/ (At(h, "pull")' /\ task'[h].after = engine'[g].cursor))
    BY <2>8 DEF At
  <2> QED
    BY <2>1, <2>2, <2>3, <2>4, <2>5, <2>6, <2>7, <2>8 DEF EngineMove
<1> QED
  BY <1>1, <1>2, PullBegins

LEMMA PulledOnMore ==
    ASSUME TypeOK, [Next]_vars, NEW S, NEW d, NEW c, Pulled(S, d, c, log)
    PROVE  Pulled(S, d, c, log')
<1>1. \A i \in 1..Len(log) : i \in 1..Len(log') /\ log'[i] = log[i]
  <2>1. CASE log' = log
    BY <2>1
  <2>2. CASE log' # log
    <3>1. storing # {} /\ log' = Append(log, Oldest(storing))
      BY <2>2, LogMovesSo DEF LogMove
    <3> QED
      BY <3>1 DEF TypeOK
  <2> QED
    BY <2>1, <2>2
<1> QED
  BY <1>1 DEF Pulled

LEMMA TailContinues ==
    ASSUME NEW R, NEW T \in Seq(Envelope), T # <<>>, Continues(T, R), NEW N,
           Members(N) = Members(R) \cup {Head(T)}
    PROVE  Continues(Tail(T), N)
<1> DEFINE U == Tail(T)
           x == Head(T)
<1>1. /\ Len(U) = Len(T) - 1 /\ x = T[1] /\ Len(T) \in Nat /\ Len(T) >= 1
      /\ \A i \in 1..Len(U) : i + 1 \in 1..Len(T) /\ U[i] = T[i + 1]
  OBVIOUS
<1> HIDE DEF U, x
<1>2. InTurn(U)
  BY <1>1 DEF InTurn, Continues
<1>3. ASSUME NEW i \in 1..Len(U)
      PROVE  Members(R) \cup Before(T, i + 1) \subseteq Members(N) \cup Before(U, i)
  <2>1. ASSUME NEW k \in 1..i PROVE T[k] = x \/ T[k] \in Before(U, i)
    <3>1. CASE k = 1
      BY <1>1, <3>1
    <3>2. CASE k # 1
      <4>1. k - 1 \in 1..(i - 1) /\ k - 1 \in 1..Len(U)
        BY <1>1, <3>2
      <4>2. U[k - 1] = T[k]
        BY <1>1, <4>1
      <4> QED
        BY <4>1, <4>2 DEF Before
    <3> QED
      BY <3>1, <3>2
  <2>2. Before(T, i + 1) \subseteq {x} \cup Before(U, i)
    BY <2>1 DEF Before
  <2> QED
    BY <2>2 DEF x
<1>4. ASSUME NEW i \in 1..Len(U)
      PROVE  /\ PastIn(U[i], Members(N) \cup Before(U, i))
             /\ U[i] \in Members(N) \/ Turned(Members(N), U[i])
  <2>1. /\ PastIn(T[i + 1], Members(R) \cup Before(T, i + 1))
        /\ T[i + 1] \in Members(R) \/ Turned(Members(R), T[i + 1])
    BY <1>1 DEF Continues
  <2>2. Siblings(x, T[i + 1]) => x.nr < T[i + 1].nr
    BY <1>1 DEF Continues, InTurn
  <2>3. PastIn(U[i], Members(N) \cup Before(U, i))
    BY <1>1, <1>3, <2>1 DEF PastIn
  <2>4. U[i] \in Members(N) \/ Turned(Members(N), U[i])
    BY <1>1, <2>1, <2>2 DEF Turned, x
  <2> QED
    BY <2>3, <2>4
<1> QED
  BY <1>2, <1>4 DEF Continues, U

(* Loading a state file: its records, in their order, are still to be applied. *)
LEMMA LoadOrdered ==
    ASSUME NEW p \in State, NEW d, NEW seq, SavedOrdered(p, d, seq)
    PROVE  EngineOrdered(Constructed(p), d, seq)
<1> DEFINE t == Constructed(p)
<1>1. /\ t.records = <<>> /\ t.todo = p.records /\ t.journal = p.journal
      /\ t.cursor = p.cursor
  BY DEF Constructed
<1> HIDE DEF t
<1>2. PastFirst(<<>>) /\ InTurn(<<>>)
  BY DEF PastFirst, InTurn
<1>3. Continues(p.records, <<>>)
  BY EmptyMembers DEF Continues, SavedOrdered, PastFirst, Turned
<1> QED
  BY <1>1, <1>2, <1>3, EmptyMembers DEF EngineOrdered, SavedOrdered, t

(* One record of the constructor's loop, or of a page. *)
LEMMA TakeOrdered ==
    ASSUME NEW s \in EngineState, NEW t \in EngineState, NEW d, NEW seq,
           EngineOrdered(s, d, seq), TakesRecord(s, t),
           Id(Head(s.todo)) \in Applied(s) => Head(s.todo) \in Members(s.records)
    PROVE  EngineOrdered(t, d, seq)
<1> DEFINE x == Head(s.todo)
<1>a. s.todo \in Seq(Envelope) /\ s.todo # <<>> /\ s.records \in Seq(Envelope)
  BY DEF EngineState, TakesRecord
<1>b. /\ x \in Envelope /\ Members(s.todo) = {x} \cup Members(Tail(s.todo))
      /\ x = s.todo[1] /\ Len(s.todo) >= 1 /\ Len(s.todo) \in Nat
  BY <1>a, TailMembers
<1>c. /\ t.records = IF Id(x) \in Applied(s) THEN s.records ELSE Append(s.records, x)
      /\ t.cursor = s.cursor /\ t.todo = Tail(s.todo) /\ t.journal = s.journal
  BY DEF TakesRecord, Takes
<1> HIDE DEF x
<1>1. Members(t.records) = Members(s.records) \cup {x}
  BY <1>a, <1>b, <1>c, AppendMembers DEF x
<1>2. Continues(t.todo, t.records)
  BY <1>a, <1>c, <1>1, TailContinues DEF EngineOrdered, x
<1>3. PastFirst(t.records) /\ InTurn(t.records)
  <2>1. CASE Id(x) \in Applied(s)
    BY <1>c, <2>1 DEF EngineOrdered
  <2>2. CASE Id(x) \notin Applied(s)
    <3>1. x \notin Members(s.records)
      BY <2>2 DEF Applied, Ids
    <3>2. Before(s.todo, 1) = {}
      BY DEF Before
    <3>3. PastIn(x, Members(s.records)) /\ Turned(Members(s.records), x)
      <4>1. 1 \in 1..Len(s.todo)
        BY <1>b
      <4>2. PastIn(x, Members(s.records) \cup Before(s.todo, 1)) /\ Turned(Members(s.records), x)
        BY <1>b, <3>1, <4>1 DEF EngineOrdered, Continues
      <4> QED
        BY <3>2, <4>2
    <3> QED
      BY <1>a, <1>b, <1>c, <2>2, <3>3, AppendInOrder DEF EngineOrdered, Turned
  <2> QED
    BY <2>1, <2>2
<1> QED
  BY <1>b, <1>c, <1>1, <1>2, <1>3 DEF EngineOrdered

(* A mutation comes after all that its device has applied. *)
LEMMA MutateOrdered ==
    ASSUME CausalInv, Undisturbed, NEW g \in Engines, NEW e \in AnyEntity, Mutation(g, e),
           NEW t, Mutates(engine[g], t, NewEnvelope(DeviceOf[g], engine[g], e)),
           EngineOrdered(engine[g], DeviceOf[g], log)
    PROVE  EngineOrdered(t, DeviceOf[g], log)
<1> DEFINE d == DeviceOf[g]
           s == engine[g]
           x == NewEnvelope(d, s, e)
           c == s.current[e]
<1>a. /\ TypeOK /\ SoleInv /\ SafeInv /\ UniqueInv /\ SourceInv /\ MaterialInv /\ VectorInv
      /\ d \in Devices /\ s \in EngineState /\ s.records \in Seq(Envelope) /\ writes \in Nat
  BY CloudSyncAssumption DEF CausalInv, TypeOK, EngineState
<1>1. x \in Envelope /\ x.device = d /\ x.nr = writes + 1
  BY <1>a, NewEnvelopeType
<1>2. Members(s.records) \subseteq Known
  BY <1>a DEF SourceInv, EngineFrom, Known
<1>3. Id(x) \notin Applied(s)
  BY <1>a, <1>2, NewIdIsFresh DEF Applied, Ids
<1>4. PastIn(x, Members(s.records))
  <2>1. ASSUME c \in Envelope
        PROVE  /\ c.entity = e /\ c.vector[c.device] = c.counter
               /\ PastIn(c, Members(s.records))
               /\ c.device # d => c \in Members(s.records)
    <3>1. c \in Members(s.records) /\ c.entity = e
      BY <1>a, <2>1, NoEnvelopeAssumption DEF MaterialInv, MaterialOK, ShowsOwnRecords
    <3>2. PICK i \in 1..Len(s.records) : c = s.records[i]
      BY <3>1 DEF Members
    <3>3. Before(s.records, i) \subseteq Members(s.records)
      BY <1>a, <3>2 DEF Before, Members
    <3>4. PastIn(c, Before(s.records, i))
      BY <3>2 DEF EngineOrdered, PastFirst
    <3>5. PastIn(c, Members(s.records))
      BY <3>3, <3>4 DEF PastIn
    <3> QED
      BY <1>a, <1>2, <3>1, <3>5 DEF VectorInv
  <2> QED
    BY <1>a, <2>1, NewSeesBase
<1> HIDE DEF x
<1>5. ASSUME NEW y \in Members(s.records) PROVE y.nr < x.nr
  <2>1. y \in Known /\ y.nr \in Nat
    BY <1>a, <1>2, KnownTypes DEF Envelope
  <2>2. y.nr <= writes
    BY <1>a, <2>1 DEF UniqueInv, NumbersOK
  <2> QED
    BY <1>a, <1>1, <2>1, <2>2
<1>6. /\ t.records = Append(s.records, x) /\ t.cursor = s.cursor
      /\ t.todo = <<>> /\ t.journal = s.journal \cup {x} /\ s.todo = <<>>
  BY <1>3 DEF Mutates, Takes, LoopsDone, x
<1>7. PastFirst(t.records) /\ InTurn(t.records)
  BY <1>a, <1>1, <1>4, <1>5, <1>6, AppendInOrder DEF EngineOrdered
<1>8. Members(t.records) = Members(s.records) \cup {x} /\ Members(t.todo) = {}
  BY <1>a, <1>1, <1>6, AppendMembers, EmptyMembers
<1>9. Continues(t.todo, t.records)
  BY <1>6 DEF Continues, InTurn
<1>10. t.journal \subseteq Members(t.records) \cup Members(t.todo)
  BY <1>6, <1>8, EmptyMembers DEF EngineOrdered
<1>11. Pulled(Members(s.records), d, s.cursor, log)
  BY DEF EngineOrdered, Pulled
<1>12. Pulled(Members(t.records) \cup Members(t.todo), d, t.cursor, log)
  BY <1>1, <1>6, <1>8, <1>11 DEF Pulled
<1> QED
  BY <1>7, <1>9, <1>10, <1>12 DEF EngineOrdered

(* A page continues the records of an engine that has applied all before it. *)
LEMMA PageOrdered ==
    ASSUME CausalInv, AfterInv, Undisturbed, ResetsAlone, NEW h \in Handlers, At(h, "page"),
           NEW t, TakesPage(engine[EngineOf[h]], t, task[h]),
           EngineOrdered(engine[EngineOf[h]], DeviceOf[EngineOf[h]], log)
    PROVE  EngineOrdered(t, DeviceOf[EngineOf[h]], log)
<1> DEFINE g == EngineOf[h]
           d == DeviceOf[g]
           s == engine[g]
           page == task[h].page
           after == task[h].after
           R == s.records
<1>a. /\ TypeOK /\ SoleInv /\ SafeInv /\ UniqueInv /\ SourceInv /\ ReplicaInv
      /\ g \in Engines /\ d \in Devices /\ s \in EngineState /\ R \in Seq(Envelope)
      /\ page \in Seq(Envelope) /\ after \in Nat /\ log \in Seq(Envelope)
      /\ PastFirst(log) /\ InTurn(log)
  BY CloudSyncAssumption DEF CausalInv, TypeOK, EngineState, Task
<1>1. /\ s.todo = <<>> /\ s.up /\ after = s.cursor
      /\ t.records = R /\ t.todo = page /\ t.journal = s.journal
      /\ t.cursor = after + Len(page)
  BY DEF TakesPage, LoopsDone, AfterInv
<1>2. \A i \in 1..Len(page) : after + i \in 1..Len(log) /\ page[i] = log[after + i]
  BY <1>a DEF ReplicaInv, CallOK, PageOK, At
<1>3. Members(R) \subseteq Known /\ Members(log) \subseteq Known
  BY <1>a DEF SourceInv, EngineFrom, Known
<1>4. ASSUME NEW k \in 1..Len(log), k <= after PROVE log[k] \in Members(R)
  <2>1. Id(log[k]) \in Applied(s)
    BY <1>a, <1>1, <1>4, EmptyMembers DEF ReplicaInv, EngineOK, Covers, Reach, Ids
  <2>2. PICK z \in Members(R) : Id(z) = Id(log[k])
    BY <2>1 DEF Applied, Ids
  <2>3. log[k] \in Known
    BY <1>3 DEF Members
  <2> QED
    BY <1>a, <1>3, <2>2, <2>3 DEF UniqueInv, RecordIdsAreUnique
<1>5. InTurn(page)
  <2> SUFFICES ASSUME NEW i \in 1..Len(page), NEW j \in 1..Len(page), i < j,
                      Siblings(page[i], page[j])
               PROVE  page[i].nr < page[j].nr
    BY DEF InTurn
  <2>1. /\ after + i \in 1..Len(log) /\ page[i] = log[after + i]
        /\ after + j \in 1..Len(log) /\ page[j] = log[after + j]
    BY <1>2
  <2>2. after + i < after + j
    BY <1>a
  <2> QED
    BY <1>a, <2>1, <2>2 DEF InTurn
<1>6. ASSUME NEW i \in 1..Len(page)
      PROVE  /\ PastIn(page[i], Members(R) \cup Before(page, i))
             /\ page[i] \in Members(R) \/ Turned(Members(R), page[i])
  <2> DEFINE x == page[i]
  <2>1. after + i \in 1..Len(log) /\ x = log[after + i] /\ i \in Nat
    BY <1>2
  <2>2. x \in Known /\ x \in Members(log) /\ x \in Envelope
    BY <1>a, <1>3, <2>1 DEF Members
  <2>3. ASSUME NEW k \in 1..(after + i - 1)
        PROVE  log[k] \in Members(R) \cup Before(page, i)
    <3>1. k \in 1..Len(log)
      BY <1>a, <2>1
    <3>2. CASE k <= after
      BY <1>4, <3>1, <3>2
    <3>3. CASE k > after
      <4>1. k - after \in 1..(i - 1) /\ k - after \in 1..Len(page)
        BY <1>a, <3>3
      <4> DEFINE m == k - after
      <4>2. after + m = k
        BY <1>a, <3>1
      <4>3. page[m] = log[after + m]
        BY <1>2, <4>1
      <4>4. m \in 1..(i - 1) /\ page[m] = log[k]
        BY <4>1, <4>2, <4>3
      <4> HIDE DEF m
      <4> QED
        BY <4>4 DEF Before
    <3> QED
      BY <1>a, <3>2, <3>3
  <2>4. PastIn(x, Before(log, after + i))
    BY <1>a, <2>1 DEF PastFirst
  <2>5. PastIn(x, Members(R) \cup Before(page, i))
    <3>1. Before(log, after + i) \subseteq Members(R) \cup Before(page, i)
      <4> DEFINE P == Members(R) \cup Before(page, i)
                 n == after + i
      <4>1. ASSUME NEW k \in 1..(n - 1) PROVE log[k] \in P
        <5>1. k \in 1..(after + i - 1)
          BY <1>a, <2>1
        <5> QED
          BY ONLY <2>3, <5>1
      <4>2. Before(log, n) = {log[k] : k \in 1..(n - 1)}
        BY DEF Before
      <4> HIDE DEF P, n
      <4>3. Before(log, n) \subseteq P
        BY <4>1, <4>2
      <4> QED
        BY <4>3 DEF P, n
    <3> QED
      BY <2>4, <3>1 DEF PastIn
  <2>6. ASSUME x \notin Members(R), NEW y \in Members(R), Siblings(y, x) PROVE y.nr < x.nr
    <3>0. y \in Known /\ y # x
      BY <1>3, <2>6
    <3>1. CASE y.device # d
      <4>1. PICK k \in 1..Len(log) : k <= s.cursor /\ log[k] = y
        BY <3>1 DEF EngineOrdered, Pulled
      <4>2. k < after + i
        BY <1>1, <1>a, <2>1, <4>1
      <4> QED
        BY <1>a, <2>1, <2>6, <4>1, <4>2 DEF InTurn
    <3>2. CASE y.device = d
      <4>1. x.device = d
        BY <2>6, <3>2 DEF Siblings
      <4>2. x.entity \notin Entities
        <5>1. x \in s.journal => x \in Members(R)
          BY <1>1, EmptyMembers DEF EngineOrdered
        <5> QED
          BY <1>a, <1>1, <2>2, <2>6, <4>1, <5>1, KnownIsJournaled
      <4>3. BackupEntity(x.nr) = BackupEntity(y.nr)
        BY <1>a, <2>2, <2>6, <3>0, <4>2 DEF UniqueInv, NumbersOK, Siblings
      <4>4. x.nr = y.nr
        BY <4>3 DEF BackupEntity
      <4> QED
        BY <1>a, <2>2, <3>0, <4>4 DEF UniqueInv, NumbersOK
    <3> QED
      BY <3>1, <3>2
  <2> QED
    BY <2>5, <2>6 DEF Turned
<1>7. Continues(t.todo, t.records)
  BY <1>1, <1>5, <1>6 DEF Continues
<1>8. Pulled(Members(R) \cup Members(page), d, t.cursor, log)
  <2>1. ASSUME NEW y \in Members(page) PROVE \E i \in 1..Len(log) : i <= t.cursor /\ log[i] = y
    <3>1. PICK i \in 1..Len(page) : y = page[i]
      BY DEF Members
    <3>2. after + i <= after + Len(page)
      BY <1>a, <3>1
    <3> QED
      BY <1>1, <1>2, <3>1, <3>2
  <2>2. ASSUME NEW y \in Members(R), y.device # d
        PROVE  \E i \in 1..Len(log) : i <= t.cursor /\ log[i] = y
    <3>1. PICK i \in 1..Len(log) : i <= s.cursor /\ log[i] = y
      BY <2>2 DEF EngineOrdered, Pulled
    <3>2. i <= t.cursor
      BY <1>a, <1>1, <3>1
    <3> QED
      BY <3>1, <3>2
  <2> QED
    BY <2>1, <2>2 DEF Pulled
<1>9. s.journal \subseteq Members(R) \cup Members(page)
  BY <1>1, EmptyMembers DEF EngineOrdered
<1> QED
  BY <1>1, <1>7, <1>8, <1>9 DEF EngineOrdered

(* Every step keeps the order of an engine's records, against the same log. *)
LEMMA EngineOrderStep ==
    ASSUME CausalInv, AfterInv, OrderInv, Undisturbed, NoResets, [Next]_vars, TypeOK',
           NEW g \in Engines
    PROVE  EngineOrdered(engine'[g], DeviceOf[g], log)
<1> DEFINE s == engine[g]
           t == engine'[g]
           d == DeviceOf[g]
<1>a. /\ TypeOK /\ ReplicaInv /\ SourceInv /\ UniqueInv
      /\ d \in Devices /\ s \in EngineState /\ t \in EngineState
      /\ EngineOrdered(s, d, log) /\ SavedOrdered(disk[d], d, log)
      /\ disk[d] \in State
  BY CloudSyncAssumption DEF CausalInv, TypeOK, OrderInv
<1>b. ResetsAlone
  BY DEF NoResets, ResetsAlone
<1>c. EngineMove(g)
  BY <1>a, EngineMovesSo
<1>1. CASE Kept(s, t)
  BY <1>a, <1>1 DEF Kept, EngineOrdered
<1>2. CASE ~s.up /\ \E p \in Readings(d) : t = Constructed(p)
  <2>1. t = Constructed(disk[d])
    BY <1>2 DEF Readings, Undisturbed
  <2> QED
    BY <1>a, <1>2, <2>1, LoadOrdered
<1>3. CASE t = Down
  <2>1. FreshState \in State
    BY ConversionTypes
  <2>2. SavedOrdered(FreshState, d, log)
    BY EmptyMembers DEF SavedOrdered, FreshState, PastFirst, InTurn, Pulled
  <2>3. EngineOrdered(Constructed(FreshState), d, log)
    BY <2>1, <2>2, LoadOrdered
  <2> QED
    BY <1>3, <2>3 DEF EngineOrdered, Down, Constructed
<1>4. CASE TakesRecord(s, t)
  <2> DEFINE x == Head(s.todo)
  <2>1. s.todo \in Seq(Envelope) /\ s.records \in Seq(Envelope) /\ s.todo # <<>>
    BY <1>a, <1>4 DEF EngineState, TakesRecord
  <2>2. x \in Members(s.todo)
    BY <2>1, TailMembers
  <2>3. Members(s.records) \cup Members(s.todo) \subseteq Known
    BY <1>a DEF SourceInv, EngineFrom, Known
  <2>4. ASSUME Id(x) \in Applied(s) PROVE x \in Members(s.records)
    <3>1. PICK z \in Members(s.records) : Id(z) = Id(x)
      BY <2>4 DEF Applied, Ids
    <3> HIDE DEF x
    <3> QED
      BY <1>a, <2>2, <2>3, <3>1 DEF UniqueInv, RecordIdsAreUnique
  <2>5. Id(Head(s.todo)) \in Applied(s) => Head(s.todo) \in Members(s.records)
    BY <2>4
  <2>6. s \in EngineState /\ t \in EngineState /\ EngineOrdered(s, d, log)
    BY <1>a
  <2>7. EngineOrdered(t, d, log)
    <3> HIDE DEF s, t, d
    <3> QED
      BY ONLY <1>4, <2>5, <2>6, TakeOrdered
  <2> QED
    BY <2>7
<1>5. CASE ReplaysOne(s, t)
  <2> DEFINE x == Oldest(s.replay)
  <2>1. s.replay \subseteq s.journal /\ s.todo = <<>>
    BY <1>a, <1>5 DEF ReplicaInv, EngineOK, ReplaysOne
  <2>2. x \in s.journal
    BY <1>a, <1>5, <2>1, OldestIsMember DEF EngineState, ReplaysOne
  <2>3. x \in Members(s.records)
    BY <1>a, <2>1, <2>2, EmptyMembers DEF EngineOrdered
  <2>4. Id(x) \in Applied(s)
    BY <2>3, IdsMember DEF Applied
  <2>5. /\ t.records = s.records /\ t.todo = s.todo /\ t.journal = s.journal
        /\ t.cursor = s.cursor
    BY <1>5, <2>4, <2>1 DEF ReplaysOne, Takes
  <2> QED
    BY <1>a, <2>5 DEF EngineOrdered
<1>6. ASSUME NEW e \in AnyEntity, Mutation(g, e),
             Mutates(s, t, NewEnvelope(d, s, e))
      PROVE  EngineOrdered(t, d, log)
  BY <1>a, <1>6, MutateOrdered
<1>7. ASSUME NEW h \in Handlers, EngineOf[h] = g, At(h, "reset")
      PROVE  FALSE
  BY <1>a, <1>7 DEF ReplicaInv, CallOK, NoResets, At
<1>8. ASSUME NEW h \in Handlers, EngineOf[h] = g, At(h, "page"), TakesPage(s, t, task[h])
      PROVE  EngineOrdered(t, d, log)
  BY <1>a, <1>b, <1>8, PageOrdered
<1> QED
  BY <1>c, <1>1, <1>2, <1>3, <1>4, <1>5, <1>6, <1>7, <1>8 DEF EngineMove

LEMMA OrderStep ==
    ASSUME CausalInv, AfterInv, OrderInv, Undisturbed, NoResets, [Next]_vars, TypeOK'
    PROVE  OrderInv'
<1>a. TypeOK
  BY DEF CausalInv
<1>1. ASSUME NEW g \in Engines PROVE EngineOrdered(engine'[g], DeviceOf[g], log')
  <2> DEFINE t == engine'[g]
             d == DeviceOf[g]
  <2>1. EngineOrdered(t, d, log)
    BY EngineOrderStep
  <2>2. Pulled(Members(t.records) \cup Members(t.todo), d, t.cursor, log')
    BY <1>a, <2>1, PulledOnMore DEF EngineOrdered
  <2> QED
    BY <2>1, <2>2 DEF EngineOrdered
<1>2. ASSUME NEW p, NEW d, SavedOrdered(p, d, log) PROVE SavedOrdered(p, d, log')
  <2>1. Pulled(Members(p.records), d, p.cursor, log')
    BY <1>a, <1>2, PulledOnMore DEF SavedOrdered
  <2> QED
    BY <1>2, <2>1 DEF SavedOrdered
<1>3. ASSUME NEW d \in Devices PROVE SavedOrdered(disk'[d], d, log')
  <2>1. DiskMove(d)
    BY <1>a, DiskMovesSo
  <2>2. SavedOrdered(disk'[d], d, log)
    BY <2>1 DEF DiskMove, OrderInv
  <2> QED
    BY <1>2, <2>2
<1>4. ASSUME NEW h \in Handlers PROVE SavedOrdered(task'[h].saved, DeviceOf[EngineOf[h]], log')
  <2> DEFINE g == EngineOf[h]
             d == DeviceOf[g]
             s == engine[g]
  <2>a. g \in Engines
    BY CloudSyncAssumption
  <2>1. TaskMove(h)
    BY <1>a, TaskMovesSo
  <2>2. SavedOrdered(FreshState, d, log)
    BY EmptyMembers DEF SavedOrdered, FreshState, PastFirst, InTurn, Pulled
  <2>3. ASSUME Free(g) PROVE SavedOrdered(Persistence(s), d, log)
    <3>1. s.todo = <<>> /\ EngineOrdered(s, d, log)
      BY <2>a, <2>3 DEF Free, OrderInv
    <3>2. /\ Persistence(s).records = s.records /\ Persistence(s).journal = s.journal
          /\ Persistence(s).cursor = s.cursor
      BY DEF Persistence
    <3>3. Members(s.records) \cup Members(s.todo) = Members(s.records)
      BY <3>1, EmptyMembers
    <3> QED
      BY <3>1, <3>2, <3>3 DEF EngineOrdered, SavedOrdered
  <2>4. SavedOrdered(task'[h].saved, d, log)
    BY <2>1, <2>2, <2>3 DEF TaskMove, OrderInv
  <2> QED
    BY <1>2, <2>4
<1> QED
  BY <1>1, <1>3, <1>4 DEF OrderInv

LEMMA OrderInit == Init => AfterInv /\ OrderInv
<1> SUFFICES ASSUME Init PROVE AfterInv /\ OrderInv
  OBVIOUS
<1>1. \A d : SavedOrdered(FreshState, d, log)
  BY EmptyMembers DEF SavedOrdered, FreshState, PastFirst, InTurn, Pulled
<1>2. \A d : EngineOrdered(Down, d, log)
  <2>1. \A d : EngineOrdered(Constructed(FreshState), d, log)
    BY <1>1, LoadOrdered, ConversionTypes
  <2> QED
    BY <2>1 DEF EngineOrdered, Down, Constructed
<1>3. /\ \A g \in Engines : engine[g] = Down
      /\ \A d \in Devices : disk[d] = FreshState
      /\ \A h \in Handlers : task[h] = Idle
  BY DEF Init
<1>4. Idle.saved = FreshState /\ Idle.stage = "idle"
  BY DEF Idle
<1>5. AfterInv
  BY <1>3, <1>4 DEF AfterInv, At
<1>6. OrderInv
  BY <1>1, <1>2, <1>3, <1>4 DEF OrderInv
<1> QED
  BY <1>5, <1>6

(* So what an engine applies never follows a revision that has seen it, and  *)
(* what it shows is never older than what it has applied.                    *)
CurrentOK(s) ==
    \A x \in Members(s.records) :
        /\ s.current[x.entity] \in Envelope
        /\ CompareVectors(x.vector, s.current[x.entity].vector) # "after"

CurrentInv == \A g \in Engines : CurrentOK(engine[g])

LEMMA MergeKeepsMaximal ==
    ASSUME NEW s \in EngineState, NEW t \in EngineState, NEW x \in Envelope,
           CurrentOK(s), Merges(s, t, x), t.records = Append(s.records, x),
           Causal(t.records)
    PROVE  CurrentOK(t)
<1> DEFINE e == x.entity
           c == s.current[e]
<1>a. /\ s.records \in Seq(Envelope) /\ e \in AnyEntity /\ x.vector \in Vector
      /\ c \in Envelope \cup {NoEnvelope}
  BY DEF EngineState, Envelope
<1>1. Members(t.records) = Members(s.records) \cup {x}
  BY DEF Merges
<1>2. ASSUME NEW y \in Members(s.records), y.entity = e
      PROVE  CompareVectors(y.vector, x.vector) # "after"
  <2>1. PICK i \in 1..Len(s.records) : y = s.records[i]
    BY DEF Members
  <2> DEFINE n == Len(s.records) + 1
             r == t.records
  <2>2. /\ r[i] = y /\ r[n] = x /\ i \in 1..Len(r) /\ n \in 1..Len(r) /\ i < n
    BY <1>a, <2>1
  <2> HIDE DEF n, r
  <2>3. CompareVectors(r[n].vector, r[i].vector) \notin {"before", "equal"}
    BY <1>2, <2>2 DEF Causal, r
  <2>4. y \in Envelope /\ y.vector \in Vector
    <3>1. y \in Envelope
      BY <1>a, <2>1
    <3> HIDE DEF c, e
    <3> QED
      BY ONLY <3>1 DEF Envelope
  <2> QED
    BY <1>a, <2>2, <2>3, <2>4, CompareDual
<1>3. ASSUME NEW y \in Members(t.records), y.entity # e
      PROVE  /\ t.current[y.entity] \in Envelope
             /\ CompareVectors(y.vector, t.current[y.entity].vector) # "after"
  <2>1. y \in Members(s.records)
    BY <1>1, <1>3
  <2>2. y.entity \in AnyEntity \ {x.entity}
    <3>1. y \in Envelope
      BY <1>a, <2>1 DEF Members
    <3>2. y.entity \in AnyEntity
      BY ONLY <3>1 DEF Envelope
    <3> QED
      BY <1>3, <3>2
  <2>3. t.current[y.entity] = s.current[y.entity]
    BY <2>2 DEF Merges
  <2> QED
    BY <2>1, <2>3 DEF CurrentOK
<1>4. CASE Replaces(x, c)
  <2>1. t.current[e] = x
    BY <1>4 DEF Merges
  <2>2. ASSUME NEW y \in Members(t.records), y.entity = e
        PROVE  CompareVectors(y.vector, x.vector) # "after"
    <3>1. CompareVectors(x.vector, x.vector) # "after"
      BY <1>a, CompareSelf
    <3> QED
      BY <1>1, <1>2, <2>2, <3>1
  <2> QED
    BY <1>3, <2>1, <2>2 DEF CurrentOK
<1>5. CASE ~Replaces(x, c)
  <2>1. t.current[e] = c
    BY <1>5 DEF Merges
  <2>2. c \in Envelope /\ CompareVectors(x.vector, c.vector) # "after"
    BY <1>a, <1>5 DEF Replaces
  <2>3. ASSUME NEW y \in Members(t.records), y.entity = e
        PROVE  CompareVectors(y.vector, c.vector) # "after"
    BY <1>1, <2>2, <2>3 DEF CurrentOK
  <2> QED
    BY <1>3, <2>1, <2>2, <2>3 DEF CurrentOK
<1> QED
  BY <1>4, <1>5

(* The records of an engine grow by one, stay, or are dropped. *)
LEMMA RecordsMove ==
    ASSUME TypeOK, [Next]_vars, NEW g \in Engines
    PROVE  \/ engine'[g].records \in {engine[g].records, <<>>}
           \/ \E x \in Envelope : engine'[g].records = Append(engine[g].records, x)
<1> DEFINE s == engine[g]
           t == engine'[g]
           d == DeviceOf[g]
           Moved == \/ t.records \in {s.records, <<>>}
                    \/ \E x \in Envelope : t.records = Append(s.records, x)
<1>a. d \in Devices /\ s \in EngineState /\ writes \in Nat
  BY CloudSyncAssumption DEF TypeOK
<1>b. EngineMove(g)
  BY EngineMovesSo
<1>c. ASSUME NEW x \in Envelope, Takes(s, t, x) PROVE Moved
  BY <1>c DEF Takes
<1>1. CASE Kept(s, t)
  BY <1>1 DEF Kept
<1>2. ASSUME NEW p, t = Constructed(p) PROVE Moved
  BY <1>2 DEF Constructed
<1>3. CASE t = Down
  BY <1>3 DEF Down, Constructed
<1>4. CASE TakesRecord(s, t)
  <2>1. Head(s.todo) \in Envelope /\ Takes(s, t, Head(s.todo))
    BY <1>a, <1>4, TailMembers DEF EngineState, TakesRecord
  <2> QED
    BY <1>c, <2>1
<1>5. CASE ReplaysOne(s, t)
  <2>1. Oldest(s.replay) \in Envelope /\ Takes(s, t, Oldest(s.replay))
    BY <1>a, <1>5, OldestIsMember DEF EngineState, ReplaysOne
  <2> QED
    BY <1>c, <2>1
<1>6. ASSUME NEW e \in AnyEntity, Mutates(s, t, NewEnvelope(d, s, e)) PROVE Moved
  <2>1. NewEnvelope(d, s, e) \in Envelope /\ Takes(s, t, NewEnvelope(d, s, e))
    BY <1>a, <1>6, NewEnvelopeType DEF Mutates
  <2> QED
    BY <1>c, <2>1
<1>7. ASSUME Forgets(s, t) PROVE Moved
  BY <1>7 DEF Forgets
<1>8. ASSUME NEW h \in Handlers, TakesPage(s, t, task[h]) PROVE Moved
  BY <1>8 DEF TakesPage
<1> QED
  BY <1>b, <1>1, <1>2, <1>3, <1>4, <1>5, <1>6, <1>7, <1>8 DEF EngineMove

EngineCausal == \A g \in Engines : Causal(engine[g].records)

LEMMA OrderedIsCausal == CausalInv /\ OrderInv => EngineCausal
<1> SUFFICES ASSUME CausalInv, OrderInv, NEW g \in Engines PROVE Causal(engine[g].records)
  BY DEF EngineCausal
<1> DEFINE r == engine[g].records
<1>1. r \in Seq(Envelope) /\ PastFirst(r) /\ InTurn(r) /\ VectorInv
  BY DEF CausalInv, TypeOK, OrderInv, EngineOrdered, EngineState
<1>2. Members(r) \subseteq Known
  BY DEF CausalInv, SourceInv, EngineFrom, Known
<1> HIDE DEF r
<1>3. Causal(r)
  BY ONLY <1>1, <1>2, OrderIsCausal
<1> QED
  BY <1>3 DEF r

LEMMA CurrentStep ==
    ASSUME TypeOK, TypeOK', EngineCausal', CurrentInv, [Next]_vars
    PROVE  CurrentInv'
<1> SUFFICES ASSUME NEW g \in Engines PROVE CurrentOK(engine'[g])
  BY DEF CurrentInv
<1> DEFINE s == engine[g]
           t == engine'[g]
<1>a. s \in EngineState /\ t \in EngineState /\ CurrentOK(s)
  BY DEF TypeOK, CurrentInv
<1>1. Causal(t.records)
  BY DEF EngineCausal
<1>2. MaterialStep(s, t)
  BY <1>a, MaterialMoves
<1>3. CASE SameMaterial(s, t)
  BY <1>a, <1>3 DEF SameMaterial, CurrentOK
<1>4. CASE NothingShown(t)
  BY <1>4, EmptyMembers DEF NothingShown, CurrentOK
<1>5. ASSUME NEW x \in Envelope, Merges(s, t, x) PROVE CurrentOK(t)
  <2>1. x \notin Members(s.records) /\ x \in Members(t.records)
    BY <1>5, IdsMember DEF Merges, Applied
  <2>2. t.records # s.records /\ t.records # <<>>
    BY <2>1, EmptyMembers
  <2>3. PICK y \in Envelope : t.records = Append(s.records, y)
    BY <1>a, <2>2, RecordsMove
  <2>4. Members(t.records) = Members(s.records) \cup {y}
    BY <1>a, <2>3, AppendMembers DEF EngineState
  <2>5. y = x
    BY <2>1, <2>4
  <2> HIDE DEF s, t
  <2> QED
    BY <1>1, <1>5, <1>a, <2>3, <2>5, MergeKeepsMaximal
<1> QED
  BY <1>2, <1>3, <1>4, <1>5 DEF MaterialStep

LEMMA OrderInvariant ==
    ASSUME Undisturbed, NoResets PROVE Spec => [](CausalInv /\ AfterInv /\ OrderInv)
<1>1. Init => AfterInv /\ OrderInv
  BY OrderInit
<1>2. CausalInv /\ CausalInv' /\ [Next]_vars /\ AfterInv /\ OrderInv
        => AfterInv' /\ OrderInv'
  <2> SUFFICES ASSUME CausalInv, CausalInv', [Next]_vars, AfterInv, OrderInv
               PROVE  AfterInv' /\ OrderInv'
    OBVIOUS
  <2>1. TypeOK /\ TypeOK' /\ SoleInv /\ SoleInv'
    BY DEF CausalInv
  <2>2. AfterInv'
    BY <2>1, AfterStep
  <2>3. OrderInv'
    BY <2>1, OrderStep
  <2> QED
    BY <2>2, <2>3
<1>3. Spec => []CausalInv
  BY CausalInvariant
<1> QED
  BY <1>1, <1>2, <1>3, PTL DEF Spec

LEMMA CurrentInvariant == ASSUME Undisturbed, NoResets PROVE Spec => []CurrentInv
<1>1. Init => CurrentInv
  <2>1. Down.records = <<>>
    BY DEF Down, Constructed
  <2> QED
    BY <2>1, EmptyMembers DEF Init, CurrentInv, CurrentOK
<1>2. TypeOK /\ TypeOK' /\ EngineCausal' /\ [Next]_vars /\ CurrentInv => CurrentInv'
  BY CurrentStep
<1>3. CausalInv /\ OrderInv => TypeOK /\ EngineCausal
  BY OrderedIsCausal DEF CausalInv
<1>4. Spec => [](CausalInv /\ AfterInv /\ OrderInv)
  BY OrderInvariant
<1> QED
  BY <1>1, <1>2, <1>3, <1>4, PTL DEF Spec

(* What an engine shows is never older than another revision it has applied, *)
(* whatever page, replay or restart brought them in (apply() and the         *)
(* constructor of engine.ts).  Without resets: one makes an engine forget    *)
(* its own revisions too, so that a mutation is applied before those it      *)
(* follows are pulled again.                                                 *)
THEOREM ShownIsMaximal ==
    ASSUME Undisturbed, NoResets PROVE Spec => []CurrentIsMaximal
<1>1. CurrentInv => CurrentIsMaximal
  BY DEF CurrentInv, CurrentOK, CurrentIsMaximal
<1>2. Spec => []CurrentInv
  BY CurrentInvariant
<1> QED
  BY <1>1, <1>2, PTL

-----------------------------------------------------------------------------
(* What a restart rebuilds                                                 *)

Shown(s) == [current |-> s.current, conflicts |-> s.conflicts]

Material == [current: [AnyEntity -> Envelope \cup {NoEnvelope}],
             conflicts: [AnyEntity -> SUBSET Envelope]]

(* What apply() makes of a materialization when the record is new. *)
Merged(m, x) ==
    LET c == m.current[x.entity] IN
    [current   |-> [m.current EXCEPT ![x.entity] = IF Replaces(x, c) THEN x ELSE c],
     conflicts |-> [m.conflicts EXCEPT ![x.entity] = @ \cup Losers(x, c)]]

(* The materializations on the way through a sequence of records, ... *)
Trace(way, seq) ==
    /\ way[0] = NoMaterial
    /\ \A i \in 1..Len(seq) : way[i] = Merged(way[i - 1], seq[i])

(* ... which ends in this one. *)
ShownBy(m, seq) == \E way : Trace(way, seq) /\ way[Len(seq)] = m

NoIdTwice(seq) == \A i, j \in 1..Len(seq) : Id(seq[i]) = Id(seq[j]) => i = j

Rebuilt(m, seq) == ShownBy(m, seq) /\ NoIdTwice(seq)

(* Whoever holds records and a materialization has this one of them. *)
RebuiltInv ==
    /\ \A g \in Engines : Rebuilt(Shown(engine[g]), engine[g].records)
    /\ \A d \in Devices : Rebuilt(disk[d].shown, disk[d].records)
    /\ \A h \in Handlers : Rebuilt(task[h].saved.shown, task[h].saved.records)

(* A sequence of records has one materialization. *)
LEMMA OneMaterial ==
    ASSUME NEW S, NEW seq \in Seq(S), NEW m, ShownBy(m, seq), NEW n, ShownBy(n, seq)
    PROVE  m = n
<1>1. PICK a : Trace(a, seq) /\ a[Len(seq)] = m
  BY DEF ShownBy
<1>2. PICK b : Trace(b, seq) /\ b[Len(seq)] = n
  BY DEF ShownBy
<1> DEFINE Apart == {i \in 0..Len(seq) : a[i] # b[i]}
<1>3. Len(seq) \in Nat
  OBVIOUS
<1>4. ASSUME Apart # {} PROVE FALSE
  <2>1. Apart \subseteq Nat
    OBVIOUS
  <2>2. PICK k \in Apart : \A i \in Apart : k <= i
    <3> HIDE DEF Apart
    <3> QED
      BY <1>4, <2>1, LeastNatural
  <2>3. k \in 0..Len(seq) /\ a[k] # b[k]
    OBVIOUS
  <2>4. k # 0
    BY <1>1, <1>2, <2>3 DEF Trace
  <2>5. k - 1 \in 0..Len(seq) /\ k \in 1..Len(seq) /\ ~ (k <= k - 1)
    BY <1>3, <2>3, <2>4
  <2>6. a[k - 1] = b[k - 1]
    BY <2>2, <2>5
  <2>7. a[k] = Merged(a[k - 1], seq[k]) /\ b[k] = Merged(b[k - 1], seq[k])
    BY <1>1, <1>2, <2>5 DEF Trace
  <2> QED
    BY <2>3, <2>6, <2>7
<1>5. Len(seq) \in 0..Len(seq)
  BY <1>3
<1>6. a[Len(seq)] = b[Len(seq)]
  BY <1>4, <1>5
<1> QED
  BY <1>1, <1>2, <1>6

(* One more record is merged into it. *)
LEMMA OneMoreMerged ==
    ASSUME NEW S, NEW seq \in Seq(S), NEW x \in S, NEW m, Rebuilt(m, seq),
           Id(x) \notin Ids(Members(seq))
    PROVE  Rebuilt(Merged(m, x), Append(seq, x))
<1>1. PICK a : Trace(a, seq) /\ a[Len(seq)] = m
  BY DEF Rebuilt, ShownBy
<1> DEFINE n == Len(seq)
           more == Append(seq, x)
           b == [i \in 0..(n + 1) |-> IF i <= n THEN a[i] ELSE Merged(m, x)]
<1>2. n \in Nat /\ Len(more) = n + 1 /\ more[n + 1] = x /\ \A i \in 1..n : more[i] = seq[i]
  OBVIOUS
<1>3. ShownBy(Merged(m, x), more)
  <2>1. b[0] = NoMaterial /\ b[n + 1] = Merged(m, x) /\ \A i \in 0..n : b[i] = a[i]
    <3> HIDE DEF more, n
    <3>1. 0 \in 0..(n + 1) /\ n + 1 \in 0..(n + 1) /\ ~ (n + 1 <= n) /\ 0 <= n
          /\ \A i \in 0..n : i \in 0..(n + 1) /\ i <= n
      BY <1>2
    <3> QED
      BY <1>1, <3>1 DEF Trace
  <2> HIDE DEF b, more
  <2>2. ASSUME NEW i \in 1..(n + 1) PROVE b[i] = Merged(b[i - 1], more[i])
    <3>1. CASE i = n + 1
      <4>1. i - 1 = n /\ n \in 0..n
        BY <1>2, <3>1
      <4>2. b[i - 1] = m
        BY <1>1, <2>1, <4>1
      <4> QED
        BY <1>2, <2>1, <3>1, <4>2
    <3>2. CASE i # n + 1
      <4>1. i \in 1..n /\ i \in 0..n /\ i - 1 \in 0..n
        BY <1>2, <3>2
      <4>2. a[i] = Merged(a[i - 1], seq[i])
        BY <1>1, <4>1 DEF Trace
      <4> QED
        BY <1>2, <2>1, <4>1, <4>2
    <3> QED
      BY <3>1, <3>2
  <2>3. Trace(b, more)
    BY <1>2, <2>1, <2>2 DEF Trace
  <2> QED
    BY <1>2, <2>1, <2>3 DEF ShownBy
<1>4. NoIdTwice(more)
  <2>1. \A i \in 1..n : Id(seq[i]) # Id(x)
    BY DEF Ids, Members
  <2>2. NoIdTwice(seq)
    BY DEF Rebuilt
  <2> HIDE DEF more
  <2>3. ASSUME NEW i \in 1..(n + 1), NEW j \in 1..(n + 1), Id(more[i]) = Id(more[j])
        PROVE  i = j
    <3>1. i = n + 1 \/ i \in 1..n
      BY <1>2
    <3>2. j = n + 1 \/ j \in 1..n
      BY <1>2
    <3> QED
      BY <1>2, <2>1, <2>2, <2>3, <3>1, <3>2 DEF NoIdTwice
  <2> QED
    BY <1>2, <2>3 DEF NoIdTwice
<1> QED
  BY <1>3, <1>4 DEF Rebuilt

LEMMA NothingMerged == Rebuilt(NoMaterial, <<>>)
<1> DEFINE a == [i \in {0} |-> NoMaterial]
<1>1. Len(<<>>) = 0 /\ a[0] = NoMaterial
  OBVIOUS
<1>2. 1..0 = {}
  OBVIOUS
<1> HIDE DEF a
<1>3. Trace(a, <<>>)
  BY <1>1, <1>2 DEF Trace
<1> QED
  BY <1>1, <1>2, <1>3 DEF Rebuilt, ShownBy, NoIdTwice

(* An engine that merges a record shows what Merged says. *)
LEMMA MergesSo ==
    ASSUME NEW s \in EngineState, NEW t \in EngineState, NEW x \in Envelope, Merges(s, t, x)
    PROVE  Shown(t) = Merged(Shown(s), x)
<1> DEFINE e == x.entity
           c == s.current[e]
<1>1. e \in AnyEntity
  BY DEF Envelope
<1>2. s.current \in [AnyEntity -> Envelope \cup {NoEnvelope}] /\ s.conflicts \in [AnyEntity -> SUBSET Envelope]
      /\ t.current \in [AnyEntity -> Envelope \cup {NoEnvelope}] /\ t.conflicts \in [AnyEntity -> SUBSET Envelope]
  BY DEF EngineState
<1> DEFINE nc == IF Replaces(x, c) THEN x ELSE c
           more == s.conflicts[e] \cup Losers(x, c)
<1>3. t.current[e] = nc /\ t.conflicts[e] = more
      /\ \A k \in AnyEntity \ {e} : t.current[k] = s.current[k] /\ t.conflicts[k] = s.conflicts[k]
  BY DEF Merges
<1>4. Merged(Shown(s), x) = [current |-> [s.current EXCEPT ![e] = nc],
                             conflicts |-> [s.conflicts EXCEPT ![e] = more]]
  BY DEF Merged, Shown
<1> HIDE DEF nc, more, c, e
<1>5. t.current = [s.current EXCEPT ![e] = nc]
  BY <1>1, <1>2, <1>3
<1>6. t.conflicts = [s.conflicts EXCEPT ![e] = more]
  BY <1>1, <1>2, <1>3
<1> QED
  BY <1>4, <1>5, <1>6 DEF Shown

LEMMA RebuiltInit == Init => RebuiltInv
<1> SUFFICES ASSUME Init PROVE RebuiltInv
  OBVIOUS
<1>1. Shown(Down) = NoMaterial /\ Down.records = <<>>
  BY DEF Shown, Down, Constructed, NoMaterial
<1>2. FreshState.shown = NoMaterial /\ FreshState.records = <<>>
  BY DEF FreshState
<1>3. Idle.saved = FreshState
  BY DEF Idle
<1>4. /\ \A g \in Engines : engine[g] = Down
      /\ \A d \in Devices : disk[d] = FreshState
      /\ \A h \in Handlers : task[h].saved = FreshState
  BY <1>3 DEF Init
<1> QED
  BY <1>1, <1>2, <1>4, NothingMerged DEF RebuiltInv

LEMMA RebuiltStep ==
    ASSUME TypeOK, TypeOK', RebuiltInv, [Next]_vars
    PROVE  RebuiltInv'
<1>1. ASSUME NEW g \in Engines PROVE Rebuilt(Shown(engine'[g]), engine'[g].records)
  <2> DEFINE s == engine[g]
             t == engine'[g]
  <2>a. s \in EngineState /\ t \in EngineState /\ Rebuilt(Shown(s), s.records)
    BY DEF TypeOK, RebuiltInv
  <2>b. MaterialStep(s, t)
    BY MaterialMoves
  <2>1. CASE SameMaterial(s, t)
    BY <2>a, <2>1 DEF SameMaterial, Shown
  <2>2. CASE NothingShown(t)
    <3>1. t.records = <<>> /\ Shown(t) = NoMaterial
      BY <2>2 DEF NothingShown, Shown, NoMaterial
    <3> QED
      BY <3>1, NothingMerged
  <2>3. ASSUME NEW x \in Envelope, Merges(s, t, x) PROVE Rebuilt(Shown(t), t.records)
    <3>1. x \notin Members(s.records) /\ x \in Members(t.records)
      BY <2>3, IdsMember DEF Merges, Applied
    <3>2. t.records # s.records /\ t.records # <<>>
      BY <3>1, EmptyMembers
    <3>3. PICK y \in Envelope : t.records = Append(s.records, y)
      BY <2>a, <3>2, RecordsMove
    <3>4. Members(t.records) = Members(s.records) \cup {y}
      BY <2>a, <3>3, AppendMembers DEF EngineState
    <3>5. y = x
      BY <3>1, <3>4
    <3>6. Shown(t) = Merged(Shown(s), x)
      BY <2>a, <2>3, MergesSo
    <3>7. Id(x) \notin Ids(Members(s.records)) /\ s.records \in Seq(Envelope)
      BY <2>a, <2>3 DEF Merges, Applied, EngineState
    <3> HIDE DEF s, t
    <3> QED
      BY <2>a, <3>3, <3>5, <3>6, <3>7, OneMoreMerged
  <2> QED
    BY <2>b, <2>1, <2>2, <2>3 DEF MaterialStep
<1>2. ASSUME NEW d \in Devices PROVE Rebuilt(disk'[d].shown, disk'[d].records)
  BY <1>2, DiskMovesSo DEF DiskMove, RebuiltInv
<1>3. ASSUME NEW h \in Handlers PROVE Rebuilt(task'[h].saved.shown, task'[h].saved.records)
  <2>1. TaskMove(h)
    BY TaskMovesSo
  <2>2. CASE task'[h].saved = task[h].saved
    BY <2>2 DEF RebuiltInv
  <2>3. CASE task'[h].saved = FreshState
    BY <2>3, NothingMerged DEF FreshState
  <2>4. CASE task'[h].saved = Persistence(engine[EngineOf[h]])
    <3>1. EngineOf[h] \in Engines
      BY CloudSyncAssumption
    <3>2. \A s : Persistence(s).shown = Shown(s) /\ Persistence(s).records = s.records
      BY DEF Persistence, Shown
    <3> QED
      BY <2>4, <3>1, <3>2 DEF RebuiltInv
  <2> QED
    BY <2>1, <2>2, <2>3, <2>4 DEF TaskMove
<1> QED
  BY <1>1, <1>2, <1>3 DEF RebuiltInv

(* The state file is the beginning of what its engine has, or what it is     *)
(* about to read.                                                            *)
Begins(p, r) == Len(p) <= Len(r) /\ \A i \in 1..Len(p) : p[i] = r[i]

FileOK(p, s) == Begins(p, s.records) \/ p = s.records \o s.todo

(* A reset has forgotten the records, and is about to write this. *)
AfterReset(g) ==
    /\ "reset" \in Ops /\ engine[g].records = <<>> /\ LoopsDone(engine[g])
    /\ \E h \in Handlers : /\ EngineOf[h] = g /\ task[h].then = "sync"
                          /\ task[h].stage \in {"persist", "write"}

FilesInv ==
    /\ \A g \in Engines : engine[g].up =>
          FileOK(disk[DeviceOf[g]].records, engine[g]) \/ AfterReset(g)
    /\ \A h \in Handlers : At(h, "write") =>
          /\ engine[EngineOf[h]].up
          /\ Begins(task[h].saved.records, engine[EngineOf[h]].records)

(* No two processes run over one state file. *)
OneProcess == \A g, k \in Engines : DeviceOf[g] = DeviceOf[k] => g = k

LEMMA TakesMore ==
    ASSUME NEW s \in EngineState, NEW t \in EngineState, NEW x \in Envelope, Takes(s, t, x)
    PROVE  Begins(s.records, t.records)
<1>1. s.records \in Seq(Envelope)
  BY DEF EngineState
<1>2. CASE t.records = s.records
  BY <1>1, <1>2 DEF Begins
<1>3. CASE t.records = Append(s.records, x)
  BY <1>1, <1>3 DEF Begins
<1> QED
  BY <1>2, <1>3 DEF Takes

(* From its start to its end a process only adds records, unless it resets. *)
LEMMA UpMoves ==
    ASSUME TypeOK, [Next]_vars, NEW g \in Engines
    PROVE  \/ engine'[g].up = engine[g].up /\ Begins(engine[g].records, engine'[g].records)
           \/ Load(g)
           \/ Exit(g)
           \/ \E h \in Handlers : EngineOf[h] = g /\ ResetDone(h)
<1> DEFINE Same == engine'[g].up = engine[g].up /\ Begins(engine[g].records, engine'[g].records)
<1>a. engine[g] \in EngineState /\ DeviceOf[g] \in Devices
  BY CloudSyncAssumption DEF TypeOK
<1>b. engine'[g].up = engine[g].up /\ engine'[g].records = engine[g].records => Same
  BY <1>a DEF Begins, EngineState
<1>c. engine'[g] = engine[g] => Same
  BY <1>b
<1>1. ASSUME NEW k \in Engines, Load(k) \/ Exit(k) PROVE k = g \/ Same
  <2>1. k # g => engine'[g] = engine[g]
    BY <1>1 DEF Load, Exit, TypeOK
  <2> QED
    BY <2>1, <1>c
<1>2. ASSUME NEW k \in Engines, ApplyNext(k) PROVE Same
  <2>1. CASE k = g
    <3> DEFINE s == engine[g]
               t == Apply(DeviceOf[g], s, Head(s.todo))
               r == [t EXCEPT !.todo = Tail(@)]
    <3>1. Head(s.todo) \in Envelope
      BY <1>2, <1>a, <2>1, TailMembers DEF ApplyNext, EngineState
    <3>2. t \in EngineState /\ t.up = s.up /\ Takes(s, t, Head(s.todo))
      BY <1>a, <3>1, ApplyEffect, ApplyTakes
    <3> HIDE DEF t
    <3>3. r.up = t.up /\ r.records = t.records
      BY <3>2 DEF EngineState
    <3>4. engine'[g] = r
      BY <1>2, <2>1 DEF ApplyNext, TypeOK, t
    <3>5. Begins(s.records, t.records)
      BY <1>a, <3>1, <3>2, TakesMore
    <3> QED
      BY <3>2, <3>3, <3>4, <3>5
  <2>2. CASE k # g
    BY <1>2, <2>2, <1>c DEF ApplyNext, TypeOK
  <2> QED
    BY <2>1, <2>2
<1>3. ASSUME NEW k \in Engines, ReplayNext(k) PROVE Same
  <2>1. CASE k = g
    <3> DEFINE s == engine[g]
               x == Oldest(s.replay)
               t == Apply(DeviceOf[g], s, x)
               r == [t EXCEPT !.replay = @ \ {x}]
    <3>1. x \in Envelope
      BY <1>3, <1>a, <2>1, OldestIsMember DEF ReplayNext, EngineState
    <3> HIDE DEF x
    <3>2. t \in EngineState /\ t.up = s.up /\ Takes(s, t, x)
      BY <1>a, <3>1, ApplyEffect, ApplyTakes
    <3> HIDE DEF t
    <3>3. r.up = t.up /\ r.records = t.records
      BY <3>2 DEF EngineState
    <3>4. engine'[g] = r
      BY <1>3, <2>1 DEF ReplayNext, TypeOK, t, x
    <3>5. Begins(s.records, t.records)
      BY <1>a, <3>1, <3>2, TakesMore
    <3> QED
      BY <3>2, <3>3, <3>4, <3>5
  <2>2. CASE k # g
    BY <1>3, <2>2, <1>c DEF ReplayNext, TypeOK
  <2> QED
    BY <2>1, <2>2
<1>4. ASSUME NEW k \in Engines, NEW e \in AnyEntity,
             engine' = [engine EXCEPT ![k] = Mutate(DeviceOf[k], @, NewEnvelope(DeviceOf[k], @, e))]
      PROVE  Same
  <2>1. CASE k = g
    <3> DEFINE s == engine[g]
               x == NewEnvelope(DeviceOf[g], s, e)
               t == Mutate(DeviceOf[g], s, x)
    <3>1. x \in Envelope
      BY <1>a, NewEnvelopeType DEF TypeOK
    <3>2. engine'[g] = t
      BY <1>4, <2>1 DEF TypeOK
    <3> HIDE DEF x
    <3>3. t.up = s.up /\ t \in EngineState /\ Takes(s, t, x)
      BY <1>a, <3>1, MutateEffect, ApplyTakes
    <3>5. Begins(s.records, t.records)
      BY <1>a, <3>1, <3>3, TakesMore
    <3> QED
      BY <3>2, <3>3, <3>5
  <2>2. CASE k # g
    BY <1>4, <2>2, <1>c DEF TypeOK
  <2> QED
    BY <2>1, <2>2
<1>5. ASSUME NEW h \in Handlers, NEW e \in Entities, Journal(h, e) PROVE Same
  <2>1. EngineOf[h] \in Engines /\ e \in AnyEntity
    BY CloudSyncAssumption DEF AnyEntity
  <2> QED
    BY <1>4, <1>5, <2>1 DEF Journal
<1>6. ASSUME NEW h \in Handlers, Backup(h) PROVE Same
  <2>1. EngineOf[h] \in Engines
    BY CloudSyncAssumption
  <2>3. writes + 1 \in 1..MaxWrites
    BY <1>6, CloudSyncAssumption DEF Backup, TypeOK
  <2>2. BackupEntity(writes + 1) \in AnyEntity
    BY <2>3 DEF AnyEntity
  <2> QED
    BY <1>4, <1>6, <2>1, <2>2 DEF Backup
<1>7. ASSUME NEW h \in Handlers, (\E value \in BOOLEAN : Pause(h, value)) \/ PushAccepted(h) PROVE Same
  <2>1. ASSUME NEW value \in BOOLEAN, Pause(h, value) PROVE Same
    BY <2>1, <1>a, <1>b DEF Pause, TypeOK, EngineState
  <2>2. CASE PushAccepted(h)
    BY <2>2, <1>a, <1>b DEF PushAccepted, TypeOK, EngineState
  <2> QED
    BY <1>7, <2>1, <2>2
<1>8. ASSUME NEW h \in Handlers, ResetDone(h), EngineOf[h] # g PROVE Same
  BY <1>8, <1>c DEF ResetDone, TypeOK
<1>9. ASSUME NEW h \in Handlers, PageReceived(h) PROVE Same
  BY <1>9, <1>a, <1>b DEF PageReceived, TypeOK, EngineState
<1>10. ASSUME NEW h \in Handlers,
              Sync(h) \/ Reset(h) \/ ChunksUploaded(h) \/ PushRefused(h) \/ RelayPush(h)
                \/ RelayPull(h) \/ Serialize(h) \/ Write(h) \/ CallFails(h)
       PROVE  Same
  BY <1>10, <1>c DEF Sync, Reset, ChunksUploaded, PushRefused, RelayPush, RelayPull,
     Serialize, Write, CallFails
<1>11. ASSUME (\E b \in stray : RelayStray(b)) \/ RelayStore \/ UNCHANGED vars
       PROVE  Same
  BY <1>11, <1>c DEF RelayStray, RelayStore, vars
<1> QED
  BY <1>1, <1>2, <1>3, <1>5, <1>6, <1>7, <1>8, <1>9, <1>10, <1>11
     DEF Next, EngineStep, CallBegins, CallGoesOn

(* A call that writes has serialized its engine, which runs on. *)
LEMMA WriteMoves ==
    ASSUME TypeOK, [Next]_vars, NEW h \in Handlers, At(h, "write")'
    PROVE  \/ At(h, "write") /\ task'[h].saved = task[h].saved /\ ~Exit(EngineOf[h])
           \/ /\ engine' = engine /\ Free(EngineOf[h])
              /\ task'[h].saved = Persistence(engine[EngineOf[h]])
<1> DEFINE Goes == At(h, "write") /\ task'[h].saved = task[h].saved
<1>a. task[h] \in Task /\ task'[h].stage = "write" /\ Idle \in Task
  BY IdleType DEF TypeOK, At
<1>b. \A k, t : task' = [task EXCEPT ![k] = t] => task'[h] = IF k = h THEN t ELSE task[h]
  BY DEF TypeOK
<1>c. task'[h] = task[h] => Goes
  BY <1>a DEF At
<1>d. Idle.stage # "write" /\ \A s : SyncEntry(s) # "write"
  BY DEF Idle, SyncEntry
<1>1. ASSUME Exit(EngineOf[h]) PROVE FALSE
  BY <1>1, <1>a, <1>d DEF Exit
<1>2. ASSUME NEW k \in Engines, Exit(k) PROVE Goes
  BY <1>1, <1>2, <1>c DEF Exit
<1>3. ASSUME NEW k \in Handlers, NEW e \in Entities, Journal(k, e) PROVE Goes
  BY <1>3, <1>a, <1>b, <1>c DEF Journal, Idle
<1>e. \A k, t : task' = [task EXCEPT ![k] = t] /\ t.stage # "write" => Goes
  BY <1>a, <1>b, <1>c
<1> DEFINE Fresh(st) == [Idle EXCEPT !.stage = st]
<1>f. \A st : Fresh(st).stage = st
  BY DEF Idle
<1>g. ASSUME NEW k \in Handlers, NEW st, task' = [task EXCEPT ![k] = Fresh(st)], st # "write" PROVE Goes
  <2> DEFINE t == Fresh(st)
  <2>1. t.stage # "write"
    BY <1>f, <1>g
  <2>2. task' = [task EXCEPT ![k] = t]
    BY <1>g
  <2> HIDE DEF t
  <2> QED
    BY <2>1, <2>2, <1>e
<1>4. ASSUME NEW k \in Handlers, Backup(k) \/ Sync(k) PROVE Goes
  BY <1>4, <1>d, <1>g DEF Backup, Sync
<1>5. ASSUME NEW k \in Handlers, Reset(k) \/ ResetDone(k) \/ \E value \in BOOLEAN : Pause(k, value) PROVE Goes
  <2>1. CASE ResetDone(k)
    <3> DEFINE t == [Idle EXCEPT !.stage = "persist", !.then = "sync"]
    <3>1. t.stage = "persist"
      BY DEF Idle
    <3>2. task' = [task EXCEPT ![k] = t]
      BY <2>1 DEF ResetDone
    <3> HIDE DEF t
    <3> QED
      BY <3>1, <3>2, <1>e
  <2>2. CASE Reset(k)
    BY <2>2, <1>g DEF Reset
  <2>3. ASSUME NEW value \in BOOLEAN, Pause(k, value) PROVE Goes
    BY <2>3, <1>g DEF Pause
  <2> QED
    BY <1>5, <2>1, <2>2, <2>3
<1>6. ASSUME NEW k \in Handlers, PushRefused(k) \/ CallFails(k) PROVE Goes
  BY <1>6, <1>a, <1>b, <1>c, <1>d DEF PushRefused, CallFails
<1>7. ASSUME NEW k \in Handlers, ChunksUploaded(k) \/ RelayPush(k) \/ PushAccepted(k) \/ RelayPull(k)
      PROVE  Goes
  <2>a. task[k] \in Task
    BY DEF TypeOK
  <2>1. CASE ChunksUploaded(k)
    <3> DEFINE u(p) == [task[k] EXCEPT !.stage = "push", !.batch = p]
               v(c) == [task[k] EXCEPT !.stage = "pull", !.after = c]
    <3>1. \A p : u(p).stage = "push"
      BY <2>a DEF Task
    <3>2. \A c : v(c).stage = "pull"
      BY <2>a DEF Task
    <3>3. (\E p : task' = [task EXCEPT ![k] = u(p)]) \/ (\E c : task' = [task EXCEPT ![k] = v(c)])
      BY <2>1 DEF ChunksUploaded
    <3> HIDE DEF u, v
    <3> QED
      BY <3>1, <3>2, <3>3, <1>e
  <2>2. CASE RelayPush(k)
    BY <2>2, <2>a, <1>a, <1>c DEF RelayPush, TypeOK, Task
  <2>3. CASE PushAccepted(k)
    BY <2>3, <2>a, <1>a, <1>c DEF PushAccepted, TypeOK, Task
  <2>4. CASE RelayPull(k)
    BY <2>4, <2>a, <1>a, <1>c DEF RelayPull, TypeOK, Task
  <2> QED
    BY <1>7, <2>1, <2>2, <2>3, <2>4
<1>8. ASSUME NEW k \in Handlers, PageReceived(k) PROVE Goes
  BY <1>8, <1>a, <1>b, <1>c DEF PageReceived, Task, TypeOK, Idle
<1>9. ASSUME NEW k \in Handlers, Write(k) PROVE Goes
  BY <1>9, <1>a, <1>b, <1>c, <1>d DEF Write, Idle
<1>10. ASSUME NEW k \in Handlers, Serialize(k), k = h
       PROVE  engine' = engine /\ Free(EngineOf[h]) /\ task'[h].saved = Persistence(engine[EngineOf[h]])
  BY <1>10, <1>a DEF Serialize, CanResume, TypeOK, Task
<1>11. ASSUME NEW k \in Handlers, Serialize(k), k # h PROVE Goes
  BY <1>11, <1>c DEF Serialize, TypeOK
<1>12. ASSUME (\E k \in Engines : Load(k) \/ ApplyNext(k) \/ ReplayNext(k)) \/ (\E b \in stray : RelayStray(b))
              \/ RelayStore \/ UNCHANGED vars
       PROVE  Goes
  BY <1>12, <1>c DEF Load, ApplyNext, ReplayNext, RelayStray, RelayStore, vars
<1> QED
  BY <1>1, <1>2, <1>3, <1>4, <1>5, <1>6, <1>7, <1>8, <1>9, <1>10, <1>11, <1>12
     DEF Next, EngineStep, CallBegins, CallGoesOn

(* A call that persists goes on to write, or its process ends. *)
LEMMA PersistMoves ==
    ASSUME ~DiskFails, TypeOK, [Next]_vars, NEW h \in Handlers,
           task[h].stage \in {"persist", "write"}
    PROVE  \/ task'[h] = task[h]
           \/ Serialize(h)
           \/ Write(h)
           \/ Exit(EngineOf[h])
<1> DEFINE Stays == task'[h] = task[h]
<1>b. \A k, t : task' = [task EXCEPT ![k] = t] /\ k # h => Stays
  BY DEF TypeOK
<1>1. ASSUME NEW k \in Engines, Exit(k), k # EngineOf[h] PROVE Stays
  BY <1>1 DEF Exit
<1>2. ASSUME NEW k \in Handlers, NEW e \in Entities, Journal(k, e) PROVE Stays
  BY <1>2, <1>b DEF Journal, CanStart, At
<1>3. ASSUME NEW k \in Handlers, Backup(k) \/ Sync(k) \/ Reset(k) \/ \E value \in BOOLEAN : Pause(k, value)
      PROVE  Stays
  BY <1>3, <1>b DEF Backup, Sync, Reset, Pause, CanStart, At
<1>4. ASSUME NEW k \in Handlers, ResetDone(k) \/ ChunksUploaded(k) \/ PushRefused(k) PROVE Stays
  BY <1>4, <1>b DEF ResetDone, ChunksUploaded, PushRefused, CanResume, At
<1>5. ASSUME NEW k \in Handlers, RelayPush(k) \/ RelayPull(k) PROVE Stays
  BY <1>5 DEF RelayPush, RelayPull, At, TypeOK
<1>6. ASSUME NEW k \in Handlers, PushAccepted(k) \/ PageReceived(k) PROVE Stays
  BY <1>6, <1>b DEF PushAccepted, PageReceived, CanResume, At
<1>7. ASSUME NEW k \in Handlers, CallFails(k) PROVE Stays
  BY <1>7, <1>b DEF CallFails, Failing, CanResume, At
<1>8. ASSUME NEW k \in Handlers, Serialize(k) \/ Write(k), k # h PROVE Stays
  BY <1>8 DEF Serialize, Write, TypeOK
<1>9. ASSUME (\E k \in Engines : Load(k) \/ ApplyNext(k) \/ ReplayNext(k)) \/ (\E b \in stray : RelayStray(b))
              \/ RelayStore \/ UNCHANGED vars
       PROVE  Stays
  BY <1>9 DEF Load, ApplyNext, ReplayNext, RelayStray, RelayStore, vars
<1> QED
  BY <1>1, <1>2, <1>3, <1>4, <1>5, <1>6, <1>7, <1>8, <1>9 DEF Next, EngineStep, CallBegins, CallGoesOn

(* An engine whose only call persists waits for it. *)
LEMMA HeldEngine ==
    ASSUME TypeOK, [Next]_vars, NEW g \in Engines, engine[g].up, LoopsDone(engine[g]),
           NEW h \in Handlers, task[h].stage \in {"persist", "write"},
           \A k \in Handlers : EngineOf[k] = g => k = h
    PROVE  engine'[g] = engine[g] \/ Exit(g)
<1> DEFINE Stays == engine'[g] = engine[g]
<1>a. \A k, t : engine' = [engine EXCEPT ![k] = t] /\ k # g => Stays
  BY DEF TypeOK
<1>b. \A k \in Handlers : k # h => EngineOf[k] # g
  OBVIOUS
<1>1. ASSUME NEW k \in Engines, Load(k) \/ ApplyNext(k) \/ ReplayNext(k) PROVE Stays
  BY <1>1, <1>a DEF Load, ApplyNext, ReplayNext, LoopsDone
<1>2. ASSUME NEW k \in Engines, Exit(k), k # g PROVE Stays
  BY <1>2, <1>a DEF Exit
<1>3. ASSUME NEW k \in Handlers, NEW e \in Entities, Journal(k, e) PROVE Stays
  BY <1>3, <1>a, <1>b DEF Journal, CanStart, At
<1>4. ASSUME NEW k \in Handlers, Backup(k) PROVE Stays
  BY <1>4, <1>a, <1>b DEF Backup, CanStart, At
<1>5. ASSUME NEW k \in Handlers, NEW value \in BOOLEAN, Pause(k, value) PROVE Stays
  <2>1. EngineOf[k] # g
    BY <1>5, <1>b DEF Pause, CanStart, At
  <2> QED
    BY <1>5, <2>1 DEF Pause, TypeOK
<1>6. ASSUME NEW k \in Handlers, PushAccepted(k) PROVE Stays
  <2>1. EngineOf[k] # g
    BY <1>6, <1>b DEF PushAccepted, CanResume, At
  <2> QED
    BY <1>6, <2>1 DEF PushAccepted, TypeOK
<1>7. ASSUME NEW k \in Handlers, ResetDone(k) PROVE Stays
  BY <1>7, <1>a, <1>b DEF ResetDone, CanResume, At
<1>8. ASSUME NEW k \in Handlers, PageReceived(k) PROVE Stays
  <2>1. EngineOf[k] # g
    BY <1>8, <1>b DEF PageReceived, CanResume, At
  <2> QED
    BY <1>8, <2>1 DEF PageReceived, TypeOK
<1>9. ASSUME NEW k \in Handlers,
              Sync(k) \/ Reset(k) \/ ChunksUploaded(k) \/ PushRefused(k) \/ RelayPush(k)
                \/ RelayPull(k) \/ Serialize(k) \/ Write(k) \/ CallFails(k)
       PROVE  Stays
  BY <1>9 DEF Sync, Reset, ChunksUploaded, PushRefused, RelayPush, RelayPull,
     Serialize, Write, CallFails
<1>10. ASSUME (\E b \in stray : RelayStray(b)) \/ RelayStore \/ UNCHANGED vars PROVE Stays
  BY <1>10 DEF RelayStray, RelayStore, vars
<1> QED
  BY <1>1, <1>2, <1>3, <1>4, <1>5, <1>6, <1>7, <1>8, <1>9, <1>10 DEF Next, EngineStep, CallBegins, CallGoesOn

LEMMA BeginsChain ==
    ASSUME NEW S, NEW p \in Seq(S), NEW q \in Seq(S), NEW r \in Seq(S), Begins(p, q), Begins(q, r)
    PROVE  Begins(p, r)
  BY DEF Begins

(* What is read of a state file into an engine is read whole. *)
LEMMA ReadsOn ==
    ASSUME NEW S, NEW seq \in Seq(S), NEW rest \in Seq(S), rest # <<>>
    PROVE  seq \o rest = Append(seq, Head(rest)) \o Tail(rest)
<1>1. Len(rest) \in Nat \ {0} /\ Len(seq) \in Nat /\ Head(rest) = rest[1] /\ Head(rest) \in S
      /\ Tail(rest) \in Seq(S) /\ Len(Tail(rest)) = Len(rest) - 1
      /\ \A i \in 1..Len(Tail(rest)) : Tail(rest)[i] = rest[i + 1]
  OBVIOUS
<1> DEFINE a == seq \o rest
           b == Append(seq, Head(rest)) \o Tail(rest)
<1>2. a \in Seq(S) /\ b \in Seq(S) /\ Len(a) = Len(seq) + Len(rest) /\ Len(b) = Len(a)
  BY <1>1
<1>3. ASSUME NEW i \in 1..Len(a) PROVE a[i] = b[i]
  <2>1. CASE i <= Len(seq)
    BY <1>1, <2>1
  <2>2. CASE i = Len(seq) + 1
    BY <1>1, <2>2
  <2>3. CASE i > Len(seq) + 1
    <3>1. a[i] = rest[i - Len(seq)]
      BY <1>1, <2>3
    <3>2. b[i] = Tail(rest)[i - Len(seq) - 1] /\ i - Len(seq) - 1 \in 1..Len(Tail(rest))
      BY <1>1, <1>2, <2>3
    <3> QED
      BY <1>1, <3>1, <3>2
  <2> QED
    BY <1>1, <1>2, <2>1, <2>2, <2>3
<1> HIDE DEF a, b
<1> QED
  BY <1>2, <1>3, SeqEqual DEF a, b

LEMMA NewIsNew ==
    ASSUME NEW S, NEW seq \in Seq(S), NEW rest \in Seq(S), rest # <<>>, NoIdTwice(seq \o rest),
           NEW i \in 1..Len(seq)
    PROVE  Id(seq[i]) # Id(Head(rest))
<1> DEFINE n == Len(seq) + 1
           all == seq \o rest
<1>1. Len(rest) \in Nat /\ Len(rest) >= 1 /\ Head(rest) = rest[1] /\ Len(seq) \in Nat
  OBVIOUS
<1>2. Len(all) = Len(seq) + Len(rest) /\ all[i] = seq[i] /\ all[n] = rest[1]
  BY <1>1
<1>3. i \in 1..Len(all) /\ n \in 1..Len(all) /\ i # n
  BY <1>1, <1>2
<1> HIDE DEF all, n
<1> QED
  BY <1>1, <1>2, <1>3 DEF NoIdTwice, all

LEMMA FilesInit == Init => FilesInv
<1> SUFFICES ASSUME Init PROVE FilesInv
  OBVIOUS
<1>1. ~Down.up /\ Idle.stage # "write"
  BY DEF Down, Constructed, Idle, FreshState
<1> QED
  BY <1>1 DEF Init, FilesInv, At

(* One step of an engine that goes on, over a state file that stays. *)
LEMMA EngineGoesOn ==
    ASSUME TypeOK, [Next]_vars, NEW g \in Engines, engine'[g].up = engine[g].up, engine[g].up,
           Begins(engine[g].records, engine'[g].records),
           NEW p \in Seq(Envelope), NoIdTwice(p), FileOK(p, engine[g])
    PROVE  FileOK(p, engine'[g])
<1> DEFINE s == engine[g]
           t == engine'[g]
<1>a. s \in EngineState /\ s.records \in Seq(Envelope) /\ s.todo \in Seq(Envelope)
  BY DEF TypeOK, EngineState
<1>b. Begins(s.records, t.records) /\ t.up = s.up
  OBVIOUS
<1>c. t.records \in Seq(Envelope)
  <2>1. \A x \in Envelope : Append(s.records, x) \in Seq(Envelope)
    BY <1>a
  <2>2. <<>> \in Seq(Envelope)
    OBVIOUS
  <2> QED
    BY <1>a, <2>1, <2>2, RecordsMove
<1>1. CASE Begins(p, s.records)
  <2> HIDE DEF s, t
  <2>1. Begins(p, t.records)
    BY <1>1, <1>a, <1>b, <1>c, BeginsChain
  <2> QED
    BY <2>1 DEF FileOK, s, t
<1>2. CASE s.todo = <<>> /\ p = s.records \o s.todo
  <2>1. p = s.records
    BY <1>2, <1>a
  <2> QED
    BY <2>1, <1>b DEF FileOK
<1>3. CASE s.todo # <<>> /\ p = s.records \o s.todo
  <2> DEFINE x == Head(s.todo)
  <2>1. EngineMove(g)
    BY EngineMovesSo
  <2>2. t # Down
    BY <1>b DEF Down, Constructed, FreshState
  <2>3. Kept(s, t) \/ TakesRecord(s, t)
    <3>1. s.up
      OBVIOUS
    <3> HIDE DEF s, t
    <3> QED
      BY <1>3, <2>1, <2>2, <3>1 DEF EngineMove, ReplaysOne, Mutates, LoopsDone, TakesPage, Forgets, s, t
  <2>4. CASE Kept(s, t)
    BY <1>3, <2>4 DEF Kept, FileOK
  <2>5. CASE TakesRecord(s, t)
    <3>1. x \in Envelope /\ t.todo = Tail(s.todo)
      BY <1>a, <2>5, TailMembers DEF TakesRecord
    <3>2. Id(x) \notin Applied(s)
      <4> SUFFICES ASSUME NEW i \in 1..Len(s.records), Id(s.records[i]) = Id(x) PROVE FALSE
        BY DEF Applied, Ids, Members
      <4>1. NoIdTwice(s.records \o s.todo)
        BY <1>3
      <4> HIDE DEF s
      <4> QED
        BY <1>a, <1>3, <4>1, NewIsNew
    <3>3. t.records = Append(s.records, x)
      BY <2>5, <3>2 DEF TakesRecord, Takes
    <3>4. s.records \o s.todo = Append(s.records, x) \o Tail(s.todo)
      BY <1>a, <1>3, ReadsOn
    <3> QED
      BY <1>3, <3>1, <3>3, <3>4 DEF FileOK
  <2> QED
    BY <2>3, <2>4, <2>5
<1> QED
  BY <1>1, <1>2, <1>3 DEF FileOK

LEMMA FilesStep ==
    ASSUME ~DiskFails, TypeOK, ReplicaInv, RebuiltInv, FilesInv, ResetsAlone, OneProcess,
           [Next]_vars
    PROVE  FilesInv'
<1>a. ASSUME NEW h \in Handlers, ResetDone(h)
      PROVE  /\ "reset" \in Ops /\ At(h, "reset") /\ EngineOf[h] \in Engines
             /\ \A k \in Handlers : EngineOf[k] = EngineOf[h] => k = h
  <2>1. At(h, "reset")
    BY <1>a DEF ResetDone, CanResume
  <2>2. "reset" \in Ops
    BY <2>1 DEF ReplicaInv, CallOK, At
  <2> QED
    BY <2>1, <2>2, CloudSyncAssumption DEF ResetsAlone
<1>1. ASSUME NEW g \in Engines, engine'[g].up
      PROVE  FileOK(disk'[DeviceOf[g]].records, engine'[g]) \/ AfterReset(g)'
  <2> DEFINE d == DeviceOf[g]
  <2>a. d \in Devices /\ disk[d].records \in Seq(Envelope) /\ NoIdTwice(disk[d].records)
    BY CloudSyncAssumption DEF TypeOK, State, RebuiltInv, Rebuilt
  <2>1. CASE Load(g)
    <3>1. engine'[g].records = <<>> /\ engine'[g].todo = disk[d].records /\ disk' = disk
      BY <2>1 DEF Load, Readings, Constructed, TypeOK
    <3>2. <<>> \o disk[d].records = disk[d].records
      BY <2>a
    <3> QED
      BY <3>1, <3>2 DEF FileOK
  <2>2. CASE Exit(g)
    <3>1. ~Down.up
      BY DEF Down, Constructed, FreshState
    <3> QED
      BY <1>1, <2>2, <3>1 DEF Exit, TypeOK
  <2>3. ASSUME NEW h \in Handlers, EngineOf[h] = g, ResetDone(h) PROVE AfterReset(g)'
    <3>1. engine[g] \in EngineState /\ LoopsDone(engine[g]) /\ engine'[g] = Forgotten(engine[g])
      BY <2>3 DEF ResetDone, CanResume, Free, LoopsDone, TypeOK
    <3>2. engine'[g].records = <<>> /\ engine'[g].todo = engine[g].todo /\ engine'[g].replay = engine[g].replay
      BY <3>1 DEF Forgotten, EngineState
    <3>3. task'[h].stage = "persist" /\ task'[h].then = "sync"
      BY <2>3 DEF ResetDone, TypeOK, Idle
    <3> QED
      BY <1>a, <2>3, <3>1, <3>2, <3>3 DEF AfterReset, LoopsDone
  <2>4. CASE ~Load(g) /\ ~Exit(g) /\ ~ \E h \in Handlers : EngineOf[h] = g /\ ResetDone(h)
    <3>1. engine'[g].up = engine[g].up /\ engine[g].up /\ Begins(engine[g].records, engine'[g].records)
      BY <1>1, <2>4, UpMoves
    <3>2. CASE disk'[d] = disk[d] /\ FileOK(disk[d].records, engine[g])
      <4> HIDE DEF d
      <4>1. FileOK(disk[d].records, engine'[g])
        BY <2>a, <3>1, <3>2, EngineGoesOn
      <4> QED
        BY <3>2, <4>1 DEF d
    <3>3. CASE disk'[d] # disk[d]
      <4>1. PICK h \in Handlers : DeviceOf[EngineOf[h]] = d /\ Write(h)
        <5>1. ASSUME NEW h \in Handlers, Write(h) PROVE DeviceOf[EngineOf[h]] = d
          BY <3>3, <5>1 DEF Write, TypeOK
        <5>2. (\E h \in Handlers : Write(h)) \/ disk' = disk
          BY DEF Next, EngineStep, CallBegins, CallGoesOn, vars, Load, ApplyNext, ReplayNext,
             Journal, Backup, Pause, Sync, Reset, ResetDone, ChunksUploaded, PushRefused,
             RelayPush, PushAccepted, RelayPull, PageReceived, Serialize, CallFails, Exit,
             RelayStray, RelayStore
        <5> QED
          BY <3>3, <5>1, <5>2
      <4>2. EngineOf[h] = g
        BY <4>1, CloudSyncAssumption DEF OneProcess
      <4>3. engine' = engine /\ disk'[d] = task[h].saved /\ At(h, "write")
        BY <4>1, <2>a DEF Write, CanResume, TypeOK
      <4>4. Begins(task[h].saved.records, engine[g].records)
        BY <4>2, <4>3 DEF FilesInv
      <4> QED
        BY <4>3, <4>4 DEF FileOK
    <3>4. CASE disk'[d] = disk[d] /\ AfterReset(g)
      <4>1. PICK h \in Handlers : /\ EngineOf[h] = g /\ task[h].then = "sync"
                                  /\ task[h].stage \in {"persist", "write"}
        BY <3>4 DEF AfterReset
      <4>2. /\ "reset" \in Ops /\ LoopsDone(engine[g]) /\ engine[g].records = <<>>
            /\ \A k \in Handlers : EngineOf[k] = g => k = h
        BY <3>4, <4>1 DEF AfterReset, ResetsAlone
      <4>3. engine'[g] = engine[g]
        BY <2>4, <3>1, <4>1, <4>2, HeldEngine
      <4>4. CASE task'[h] = task[h]
        BY <4>1, <4>2, <4>3, <4>4 DEF AfterReset, LoopsDone
      <4>5. CASE Serialize(h)
        <5>1. task'[h].stage = "write" /\ task'[h].then = task[h].then
          BY <4>5 DEF Serialize, TypeOK, Task
        <5> QED
          BY <4>1, <4>2, <4>3, <5>1 DEF AfterReset, LoopsDone
      <4>6. CASE Write(h)
        <5>1. At(h, "write") /\ disk'[d] = task[h].saved
          BY <2>a, <4>1, <4>6 DEF Write, CanResume, TypeOK
        <5>2. Begins(task[h].saved.records, engine[g].records)
          BY <4>1, <5>1 DEF FilesInv
        <5> QED
          BY <4>3, <5>1, <5>2 DEF FileOK
      <4> QED
        BY <2>4, <4>1, <4>4, <4>5, <4>6, PersistMoves
    <3> QED
      BY <3>1, <3>2, <3>3, <3>4 DEF FilesInv
  <2> QED
    BY <2>1, <2>2, <2>3, <2>4
<1>2. ASSUME NEW h \in Handlers, At(h, "write")'
      PROVE  /\ engine'[EngineOf[h]].up
             /\ Begins(task'[h].saved.records, engine'[EngineOf[h]].records)
  <2> DEFINE g == EngineOf[h]
  <2>a. g \in Engines /\ engine[g] \in EngineState /\ task[h].saved.records \in Seq(Envelope)
        /\ engine[g].records \in Seq(Envelope)
    BY CloudSyncAssumption DEF TypeOK, Task, State, EngineState
  <2>1. CASE At(h, "write") /\ task'[h].saved = task[h].saved /\ ~Exit(g)
    <3>1. engine[g].up /\ Begins(task[h].saved.records, engine[g].records)
      BY <2>1 DEF FilesInv
    <3>2. ~Load(g)
      BY <3>1 DEF Load
    <3>3. engine'[g].up /\ Begins(engine[g].records, engine'[g].records)
      <4>1. ASSUME NEW k \in Handlers, EngineOf[k] = g, ResetDone(k) PROVE FALSE
        BY <1>a, <2>1, <4>1 DEF At
      <4> QED
        BY <2>a, <2>1, <3>1, <3>2, <4>1, UpMoves
    <3>4. engine'[g].records \in Seq(Envelope)
      <4>1. \A x \in Envelope : Append(engine[g].records, x) \in Seq(Envelope)
        BY <2>a
      <4>2. <<>> \in Seq(Envelope)
        OBVIOUS
      <4> QED
        BY <2>a, <4>1, <4>2, RecordsMove
    <3>5. Begins(task[h].saved.records, engine'[g].records)
      <4> HIDE DEF g
      <4> QED
        BY <2>a, <3>1, <3>3, <3>4, BeginsChain
    <3> QED
      BY <2>1, <3>3, <3>5
  <2>2. CASE engine' = engine /\ Free(g) /\ task'[h].saved = Persistence(engine[g])
    <3>1. Persistence(engine[g]).records = engine[g].records
      BY DEF Persistence
    <3>2. Begins(engine[g].records, engine[g].records)
      BY <2>a DEF Begins
    <3> QED
      BY <2>2, <3>1, <3>2 DEF Free
  <2> QED
    BY <1>2, <2>1, <2>2, WriteMoves
<1> QED
  BY <1>1, <1>2 DEF FilesInv, At

(* A sequence that begins another and has the same members is the other. *)
LEMMA SameRecords ==
    ASSUME NEW p \in Seq(Envelope), NEW r \in Seq(Envelope), Begins(p, r), NoIdTwice(r), Members(p) = Members(r)
    PROVE  p = r
<1>1. Len(p) \in Nat /\ Len(r) \in Nat /\ Len(p) <= Len(r) /\ \A i \in 1..Len(p) : p[i] = r[i]
  BY DEF Begins
<1>2. ASSUME Len(p) < Len(r) PROVE FALSE
  <2>1. Len(p) + 1 \in 1..Len(r)
    BY <1>1, <1>2
  <2>2. PICK i \in 1..Len(p) : r[Len(p) + 1] = p[i]
    BY <2>1 DEF Members
  <2>3. i \in 1..Len(r) /\ i # Len(p) + 1 /\ r[i] = r[Len(p) + 1]
    BY <1>1, <2>2
  <2> QED
    BY <2>1, <2>3 DEF NoIdTwice
<1>3. Len(p) = Len(r)
  BY <1>1, <1>2
<1> QED
  BY <1>1, <1>3, SeqEqual

(* A restart rebuilds the current revisions and the conflict history that    *)
(* were there when the state was written, whatever order revisions came in   *)
(* and whichever calls overlap (the replay in the constructor of engine.ts): *)
(* where one process runs over a state file that can be written and read,    *)
(* and a call that resets has it to itself.                                  *)
THEOREM RestartsRebuild ==
    ASSUME OneProcess, ResetsAlone, ~DiskFails PROVE Spec => []RestartRebuilds
<1>1. TypeOK /\ RebuiltInv /\ FilesInv => RestartRebuilds
  <2> SUFFICES ASSUME TypeOK, RebuiltInv, FilesInv, NEW g \in Engines,
                      Free(g), Members(engine[g].records) = Members(disk[DeviceOf[g]].records)
               PROVE  Shown(engine[g]) = disk[DeviceOf[g]].shown
    <3>1. \A g \in Engines : disk[DeviceOf[g]].shown = Shown(engine[g]) =>
             engine[g].current = disk[DeviceOf[g]].shown.current /\ engine[g].conflicts = disk[DeviceOf[g]].shown.conflicts
      BY DEF Shown
    <3> QED
      BY <3>1 DEF RestartRebuilds
  <2> DEFINE p == disk[DeviceOf[g]].records
             r == engine[g].records
  <2>1. p \in Seq(Envelope) /\ r \in Seq(Envelope) /\ engine[g].todo = <<>> /\ engine[g].up
    BY CloudSyncAssumption DEF TypeOK, State, EngineState, Free
  <2>2. Rebuilt(Shown(engine[g]), r) /\ Rebuilt(disk[DeviceOf[g]].shown, p)
    BY CloudSyncAssumption DEF RebuiltInv
  <2>3. p = r
    <3>1. FileOK(p, engine[g]) \/ AfterReset(g)
      BY <2>1 DEF FilesInv
    <3>4. CASE AfterReset(g)
      <4>1. r = <<>> /\ Members(p) = Members(r)
        BY <3>4 DEF AfterReset
      <4> HIDE DEF p, r
      <4>2. Members(p) = {}
        BY <4>1, EmptyMembers
      <4>3. Len(p) = 0
        <5>1. Len(p) \in Nat /\ (Len(p) # 0 => 1 \in 1..Len(p))
          BY <2>1
        <5> QED
          BY <4>2, <5>1 DEF Members
      <4> QED
        BY <2>1, <4>1, <4>3
    <3>2. CASE Begins(p, r)
      <4>1. NoIdTwice(r)
        BY <2>2 DEF Rebuilt
      <4>2. Members(p) = Members(r)
        OBVIOUS
      <4> HIDE DEF p, r
      <4> QED
        BY <2>1, <3>2, <4>1, <4>2, SameRecords
    <3>3. CASE p = r \o engine[g].todo
      <4> HIDE DEF p, r
      <4> QED
        BY <2>1, <3>3
    <3> QED
      BY <3>1, <3>2, <3>3, <3>4 DEF FileOK
  <2> HIDE DEF p, r
  <2> QED
    BY <2>1, <2>2, <2>3, OneMaterial DEF Rebuilt
<1>2. TypeOK /\ TypeOK' /\ RebuiltInv /\ [Next]_vars => RebuiltInv'
  BY RebuiltStep
<1>3. TypeOK /\ ReplicaInv /\ RebuiltInv /\ FilesInv /\ [Next]_vars => FilesInv'
  BY FilesStep
<1> QED
  BY <1>1, <1>2, <1>3, RebuiltInit, FilesInit, TypeCorrect, ReplicaInvariant, PTL DEF Spec
=============================================================================

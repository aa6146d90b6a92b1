---------------------------- MODULE EventStream -----------------------------
(***************************************************************************)
(* The CKEP journal of a workspace and what reacts to it (ckep-runtime.ts, *)
(* ckep-reactive.ts, agent-ckep-runtime.ts, scripts/ckep-drain.ts, and of  *)
(* watch-engine.ts the alerts): events are appended one after the other,   *)
(* dispatched once, and read by subscriptions whose cursor moves on.       *)
(*                                                                         *)
(* Every operation is a transaction of PostgreSQL at READ COMMITTED, on a  *)
(* connection of its own.  What it writes is in `tx` until COMMIT; a crash,*)
(* a lost connection or an exception rolls it back, with it the row that   *)
(* says status='failed'.  Advisory locks and FOR UPDATE are held to the    *)
(* end.                                                                    *)
(*                                                                         *)
(* Abstracted: envelopes, validation and scopes; what the impacts of an    *)
(* event are; time, so that no cooldown ends; all watches are one, which   *)
(* every event matches.                                                    *)
(***************************************************************************)
EXTENDS Naturals, Sequences

CONSTANTS Workers,        \* connections: requests and the drain script
          Events,         \* events, by what makes them the same: uri, idempotency key
          External,       \* those a client sends as envelopes; the others are knowledge events
          Analyses,       \* the events of an analysis, in its order, each time it is asked for
          SubjectOf,      \* what an event is about
          Wanted,         \* subscription -> the events its filters let through
          MaxListed,      \* bound: the limit of a drain or a poll
          MaxTasks        \* bound: operations begun

Subscriptions == {"plain", "agent"}

ASSUME StreamAssumption ==
    /\ "stream" \notin Events /\ Events \cap Subscriptions = {} /\ External \subseteq Events
    /\ Analyses \subseteq Seq(Events) /\ MaxListed \in Nat

VARIABLES journal,        \* ckep_event_journal
          runs,           \* dispatches that succeeded, by event
          alerts,         \* watch_alerts, by event
          cursor,         \* cursor_sequence, ckep_cursor_sequence
          delivered,       \* delivery receipts: the sequences of each poll
          tx,             \* what each worker is at
          tasks           \* operations begun

streamVars == <<journal, runs, alerts, cursor, delivered, tx, tasks>>

NoEvent == "none"
Row(e, s, p) == [event |-> e, sequence |-> s, previous |-> p]

\* `todo` is what is still to do; `each`: every item in a transaction of its own.
Idle == [todo |-> <<>>, each |-> FALSE, locks |-> {}, rows |-> {}, ran |-> {}, alerted |-> {},
         polled |-> {}, upto |-> 0]
Do(what, on) == [do |-> what, on |-> on]

StreamInit ==
    /\ journal = {} /\ alerts = {} /\ tasks = 0
    /\ runs = [e \in Events |-> 0]
    /\ cursor = [s \in Subscriptions |-> 0] /\ delivered = [s \in Subscriptions |-> <<>>]
    /\ tx = [w \in Workers |-> Idle]

-----------------------------------------------------------------------------
(* What a transaction sees: what is committed, and its own.                *)

RowsSeen(w) == journal \cup tx[w].rows
IsPublished(w, e) == \E r \in RowsSeen(w) : r.event = e

\* The latest row, or what stands for it in an empty stream.
Origin == Row(NoEvent, 0, NoEvent)
Latest(w) == {r \in {Origin} \cup RowsSeen(w) : \A q \in RowsSeen(w) : q.sequence <= r.sequence}

\* Mutant: the dispatch is not looked up again once the lock is there.
HasRunInOwn(w, e) == e \in tx[w].ran

HasRun(w, e) == runs[e] > 0 \/ e \in tx[w].ran
InCooldown(w, e) == \E a \in alerts \cup tx[w].alerted : SubjectOf[a] = SubjectOf[e]

\* The rows whose dispatch is missing or failed: up to a limit, in any order;
\* and ORDER BY j.sequence.
PendingRows == {r \in journal : runs[r.event] = 0}
Listings == UNION {[1 .. n -> PendingRows] : n \in 1 .. MaxListed}
Distinct(rs) == \A m, n \in DOMAIN rs : rs[m] = rs[n] => m = n
FromTheFirst(rs) ==
    \A n \in DOMAIN rs : {r \in PendingRows : r.sequence < rs[n].sequence} = {rs[m] : m \in 1 .. n - 1}

-----------------------------------------------------------------------------
(* Operations begin.                                                       *)

Begin(w, todo, each) ==
    /\ tx[w] = Idle /\ tasks < MaxTasks
    /\ tx' = [tx EXCEPT ![w] = [Idle EXCEPT !.todo = todo, !.each = each]]
    /\ tasks' = tasks + 1
    /\ UNCHANGED <<journal, runs, alerts, cursor, delivered>>

\* POST /v1/ckep/events, POST /v1/ckep/publish/:knowledgeEventId
RequestAppend(w, e) == e \in External /\ Begin(w, <<Do("append", e)>>, FALSE)
RequestPublish(w, e) == e \notin External /\ Begin(w, <<Do("publish", e)>>, FALSE)

\* POST /v1/evolution/analyze: publishes and dispatches the events of the change,
\* those it makes now and those a synchronization has made of it before.
RequestAnalysis(w, es) == Begin(w, [n \in 1 .. Len(es) |-> Do("analyze", es[n])], FALSE)

\* POST /v1/ckep/reactive/dispatch/:id
RequestDispatch(w, r) == Begin(w, <<Do("dispatch", r.event)>>, FALSE)

\* POST /v1/ckep/reactive/drain: in the order of the journal, in one transaction.
RequestDrain(w, rs) ==
    FromTheFirst(rs) /\ Begin(w, [n \in 1 .. Len(rs) |-> Do("dispatch", rs[n].event)], FALSE)

\* pnpm ckep:drain: by published_at, the start of the transaction that appended.
RunDrainScript(w, rs) ==
    Distinct(rs) /\ Begin(w, [n \in 1 .. Len(rs) |-> Do("dispatch", rs[n].event)], TRUE)

\* GET /v1/ckep/subscriptions/:id/events, GET /v1/agent/subscriptions/:id/ckep-signals
RequestPoll(w, s) == Begin(w, <<Do("poll", s)>>, FALSE)

-----------------------------------------------------------------------------
(* Steps of an operation.                                                  *)

Next1(w) == Head(tx[w].todo)
LockFor(step) == IF step.do \in {"append", "publish", "analyze"} THEN "stream" ELSE step.on
AtWork(w) == tx[w].todo # <<>> /\ ~(tx[w].each /\ tx[w].locks # {})
StandsBehind(v, w) == v # w /\ AtWork(v) /\ LockFor(Next1(v)) \in tx[w].locks

\* What is next is one of `what`, and nobody else holds what it locks.
Reaches(w, what) ==
    /\ AtWork(w) /\ Next1(w).do \in what
    /\ \A v \in Workers : ~StandsBehind(w, v)

\* The transaction goes on, with the lock and with what the step has written.
GoesOn(w, after) ==
    /\ tx' = [tx EXCEPT ![w] = [after EXCEPT !.locks = tx[w].locks \cup {LockFor(Next1(w))}]]
    /\ UNCHANGED <<journal, runs, alerts, cursor, delivered, tasks>>

Popped(w) == [tx[w] EXCEPT !.todo = Tail(tx[w].todo)]

\* Mutant: the sequence may be any later one.
FollowsLater(w, sequence, previous) ==
    \E r \in Latest(w) : sequence > r.sequence /\ previous = r.event

\* appendCkepEvent: the producer says where in the stream its event belongs.
Follows(w, sequence, previous) ==
    \E r \in Latest(w) : sequence = r.sequence + 1 /\ previous = r.event

AppendExternal(w, sequence, previous) ==
    LET e == Next1(w).on IN
    /\ Reaches(w, {"append"}) /\ ~IsPublished(w, e) /\ Follows(w, sequence, previous)
    /\ GoesOn(w, [Popped(w) EXCEPT !.rows = tx[w].rows \cup {Row(e, sequence, previous)}])

\* publishKnowledgeEventAsCkep; an analysis dispatches next.
AfterPublish(w) ==
    IF Next1(w).do = "analyze"
    THEN [tx[w] EXCEPT !.todo = [tx[w].todo EXCEPT ![1] = Do("dispatch", Next1(w).on)]]
    ELSE Popped(w)

Publish(w) ==
    /\ Reaches(w, {"publish", "analyze"}) /\ ~IsPublished(w, Next1(w).on)
    /\ \E r \in Latest(w) :
           GoesOn(w, [AfterPublish(w) EXCEPT
               !.rows = tx[w].rows \cup {Row(Next1(w).on, r.sequence + 1, r.event)}])

\* ... the idempotency key, or the uri, is there already.
FindPublished(w) ==
    /\ Reaches(w, {"append", "publish", "analyze"}) /\ IsPublished(w, Next1(w).on)
    /\ GoesOn(w, AfterPublish(w))

\* dispatchCkepJournalEvent: impacts, watches, status='succeeded'.
Dispatch(w) ==
    LET e == Next1(w).on IN
    /\ Reaches(w, {"dispatch"}) /\ ~HasRun(w, e)
    /\ GoesOn(w, [Popped(w) EXCEPT
           !.ran = tx[w].ran \cup {e},
           !.alerted = IF InCooldown(w, e) THEN tx[w].alerted ELSE tx[w].alerted \cup {e}])

FindDispatched(w) ==
    /\ Reaches(w, {"dispatch"}) /\ HasRun(w, Next1(w).on)
    /\ GoesOn(w, Popped(w))

\* Mutant: what was dispatched is delivered, whatever is before it.
BarredAlone(s, r) == s = "agent" /\ runs[r.event] = 0

\* The barrier of an agent's poll: the first event that is not dispatched.
Barred(s, r) ==
    s = "agent" /\ \E q \in PendingRows : cursor[s] < q.sequence /\ q.sequence <= r.sequence

Deliverable(s) == {r \in journal : cursor[s] < r.sequence /\ r.event \in Wanted[s] /\ ~Barred(s, r)}

\* pollCkepSubscription, pollAgentCkepSignals: up to a limit of them, in order.
Poll(w, last) ==
    LET s == Next1(w).on IN
    /\ Reaches(w, {"poll"}) /\ last \in Deliverable(s)
    /\ GoesOn(w, [Popped(w) EXCEPT
           !.polled = {r.sequence : r \in {q \in Deliverable(s) : q.sequence <= last.sequence}},
           !.upto = last.sequence])

PollNothing(w) == Reaches(w, {"poll"}) /\ Deliverable(Next1(w).on) = {} /\ GoesOn(w, Popped(w))

-----------------------------------------------------------------------------
(* COMMIT, ROLLBACK.                                                       *)

\* The script goes on to the next event, everything else is over.
Rest(w, todo) ==
    IF tx[w].each /\ todo # <<>> THEN [Idle EXCEPT !.todo = todo, !.each = TRUE] ELSE Idle

Conclude(w) ==
    LET t == tx[w] IN
    /\ t.locks # {} /\ ~AtWork(w)
    /\ journal' = RowsSeen(w)
    /\ runs' = [e \in Events |-> IF e \in t.ran THEN runs[e] + 1 ELSE runs[e]]
    /\ alerts' = alerts \cup t.alerted
    /\ delivered' = [s \in Subscriptions |->
                       IF s \in t.locks /\ t.polled # {} THEN Append(delivered[s], t.polled)
                       ELSE delivered[s]]
    /\ cursor' = [s \in Subscriptions |-> IF s \in t.locks /\ t.polled # {} THEN t.upto ELSE cursor[s]]
    /\ tx' = [tx EXCEPT ![w] = Rest(w, t.todo)]
    /\ UNCHANGED tasks

\* An error: the script catches it, a request ends with it.
Undo(w) ==
    /\ tx[w] # Idle
    /\ tx' = [tx EXCEPT ![w] = Rest(w, IF AtWork(w) THEN Tail(tx[w].todo) ELSE tx[w].todo)]
    /\ UNCHANGED <<journal, runs, alerts, cursor, delivered, tasks>>

\* The script is ended.
Crash(w) ==
    /\ tx[w].each /\ tx' = [tx EXCEPT ![w] = Idle]
    /\ UNCHANGED <<journal, runs, alerts, cursor, delivered, tasks>>

Accept(w) ==
    \/ \E e \in Events : RequestAppend(w, e) \/ RequestPublish(w, e)
    \/ \E es \in Analyses : RequestAnalysis(w, es)
    \/ \E r \in journal : RequestDispatch(w, r)
    \/ \E rs \in Listings : RequestDrain(w, rs) \/ RunDrainScript(w, rs)
    \/ \E s \in Subscriptions : RequestPoll(w, s)

Advance(w) ==
    \/ \E sequence \in 1 .. MaxTasks, previous \in Events \cup {NoEvent} :
           AppendExternal(w, sequence, previous)
    \/ Publish(w) \/ FindPublished(w)
    \/ Dispatch(w) \/ FindDispatched(w)
    \/ (\E last \in journal : Poll(w, last)) \/ PollNothing(w)
    \/ Conclude(w) \/ Undo(w) \/ Crash(w)

StreamNext == \E w \in Workers : Accept(w) \/ Advance(w)
StreamSpec == StreamInit /\ [][StreamNext]_streamVars

-----------------------------------------------------------------------------
JournalRows == [event : Events, sequence : Nat \ {0}, previous : Events \cup {NoEvent}]
Steps == [do : {"append", "publish", "analyze", "dispatch"}, on : Events]
         \cup [do : {"poll"}, on : Subscriptions]
Transactions == [todo : Seq(Steps), each : BOOLEAN,
                 locks : SUBSET (Events \cup Subscriptions \cup {"stream"}), rows : SUBSET JournalRows,
                 ran : SUBSET Events, alerted : SUBSET Events, polled : SUBSET Nat, upto : Nat]

StreamTypeOK ==
    /\ journal \subseteq JournalRows /\ runs \in [Events -> Nat] /\ alerts \subseteq Events
    /\ cursor \in [Subscriptions -> Nat] /\ delivered \in [Subscriptions -> Seq(SUBSET Nat)]
    /\ tx \in [Workers -> Transactions]
    /\ \A v, w \in Workers : v # w => tx[v].locks \cap tx[w].locks = {}

\* "Sequence starts at 1 and is contiguous ... later entries must reference the
\* immediately preceding event URI" (docs/ckep-event-runtime-v0.1.md:9).
IsAChain(rows) ==
    /\ \A r \in rows :
           IF r.sequence = 1 THEN r.previous = NoEvent
           ELSE \E q \in rows : q.sequence = r.sequence - 1 /\ r.previous = q.event
    /\ \A q, r \in rows : q.sequence = r.sequence \/ q.event = r.event => q = r

\* An event is reacted to once, after it was journaled, and what it is about has
\* an alert: its own, or the one whose cooldown it fell in.
ReactedOnce ==
    \A e \in Events : runs[e] > 0 =>
        /\ runs[e] = 1 /\ \E r \in journal : r.event = e
        /\ \E a \in alerts : SubjectOf[a] = SubjectOf[e]

\* A subscription was given each event it wants up to its cursor, once and in
\* the order of the journal, and an agent none that comes after an event not yet
\* reacted to.
DeliveredInOrder(s) ==
    /\ \A m, n \in DOMAIN delivered[s] : m < n => \A i \in delivered[s][m], j \in delivered[s][n] : i < j
    /\ \A r \in journal : r.event \in Wanted[s] =>
           (r.sequence <= cursor[s] <=> \E n \in DOMAIN delivered[s] : r.sequence \in delivered[s][n])
    /\ s = "agent" => \A r \in journal : r.sequence <= cursor[s] => runs[r.event] = 1

(* Whatever is appended, published, dispatched and polled at the same time,*)
(* and whichever of it fails: the journal is one chain, every event of it  *)
(* is reacted to at most once, and every subscription gets what it wants   *)
(* of it, in order, each event once, an agent only after the reactions to  *)
(* all events before.                                                      *)
SignalsFollowTheJournal == IsAChain(journal) /\ ReactedOnce /\ \A s \in Subscriptions : DeliveredInOrder(s)

\* "A per-Watch cooldown suppresses repeated alerts for the same event subject"
\* (docs/cervel-watch-proactive-intelligence.md:32).
AlertsAreSpaced == \A a, b \in alerts : SubjectOf[a] = SubjectOf[b] => a = b

\* No two operations wait for each other, until PostgreSQL ends one of them.
NobodyWaitsForever == \A v, w \in Workers : ~(StandsBehind(v, w) /\ StandsBehind(w, v))
=============================================================================

-------------------------- MODULE EventStreamProofs ---------------------------
(***************************************************************************)
(* Proofs about EventStream, for any number of connections, events and     *)
(* operations, and any filters of the subscriptions.                       *)
(***************************************************************************)
EXTENDS EventStream, TLAPS

-----------------------------------------------------------------------------
(* The inductive invariant, as named parts.                                *)

\* Who has rows has the stream, and they go on from the journal.
RowsOK(w) ==
    /\ tx[w].rows # {} => "stream" \in tx[w].locks
    /\ tx[w].each => tx[w].rows = {}
    /\ IsAChain(RowsSeen(w))
    /\ \A r \in tx[w].rows, q \in journal : q.sequence < r.sequence

\* What was dispatched in the transaction is locked, and was not before.
RanOK(w) ==
    \A e \in tx[w].ran :
        /\ e \in tx[w].locks /\ runs[e] = 0 /\ IsPublished(w, e)
        /\ \E a \in alerts \cup tx[w].alerted : SubjectOf[a] = SubjectOf[e]

\* What is to be dispatched is published; a poll is all its transaction does.
TodoOK(w) ==
    \A n \in 1 .. Len(tx[w].todo) :
        /\ tx[w].todo[n].do = "dispatch" => IsPublished(w, tx[w].todo[n].on)
        /\ tx[w].todo[n].do = "poll" => Len(tx[w].todo) = 1 /\ tx[w].locks = {} /\ tx[w].polled = {}
        /\ tx[w].each => tx[w].todo[n].do = "dispatch"

\* What a poll has found is everything wanted between the cursor and its end.
PolledFrom(w, s) ==
    tx[w].polled # {} =>
        /\ \A i \in tx[w].polled : cursor[s] < i /\ i <= tx[w].upto
        /\ \A r \in journal :
              r.event \in Wanted[s] =>
                 (r.sequence \in tx[w].polled <=> cursor[s] < r.sequence /\ r.sequence <= tx[w].upto)
        /\ \E r \in journal : r.sequence = tx[w].upto
        /\ s = "agent" => \A r \in journal :
              cursor[s] < r.sequence /\ r.sequence <= tx[w].upto => runs[r.event] = 1

PolledOK(w) ==
    \A s \in Subscriptions :
        s \in tx[w].locks => tx[w].todo = <<>> /\ tx[w].rows = {} /\ PolledFrom(w, s)

TxOK(w) == RowsOK(w) /\ RanOK(w) /\ TodoOK(w) /\ PolledOK(w)

\* A cursor is at a row, and nothing was delivered from after it.
CursorOK(s) ==
    /\ cursor[s] = 0 \/ \E r \in journal : r.sequence = cursor[s]
    /\ \A n \in 1 .. Len(delivered[s]) : \A i \in delivered[s][n] : i <= cursor[s]

StreamInv ==
    /\ StreamTypeOK /\ SignalsFollowTheJournal
    /\ \A s \in Subscriptions : CursorOK(s)
    /\ \A w \in Workers : TxOK(w)

-----------------------------------------------------------------------------
(* What a step of one transaction leaves of the others.                    *)

LEMMA StartsIn == StreamInit => StreamInv
<1> SUFFICES ASSUME StreamInit PROVE StreamInv
  OBVIOUS
<1>0. Idle \in Transactions
  BY DEF Idle, Transactions
<1>1. StreamTypeOK
  BY <1>0 DEF StreamTypeOK, StreamInit, Idle
<1>2. SignalsFollowTheJournal /\ \A s \in Subscriptions : CursorOK(s)
  BY DEF SignalsFollowTheJournal, IsAChain, ReactedOnce, DeliveredInOrder, CursorOK, StreamInit
<1>3. ASSUME NEW w \in Workers PROVE TxOK(w)
  <2>1. tx[w] = Idle /\ journal = {}
    BY DEF StreamInit
  <2>2. RowsOK(w) /\ RanOK(w) /\ TodoOK(w) /\ PolledOK(w)
    BY <2>1 DEF RowsOK, RanOK, TodoOK, PolledOK, Idle, RowsSeen, IsAChain
  <2> QED BY <2>2 DEF TxOK
<1> QED BY <1>1, <1>2, <1>3 DEF StreamInv

\* A step that writes nothing yet is only a matter of its own transaction.
LEMMA OneMoves ==
  ASSUME StreamInv, NEW w \in Workers, NEW t \in Transactions,
         tx' = [tx EXCEPT ![w] = t],
         UNCHANGED <<journal, runs, alerts, cursor, delivered>>,
         \A v \in Workers : v # w => tx[v].locks \cap t.locks = {},
         TxOK(w)'
  PROVE  StreamInv'
<1>1. tx'[w] = t /\ \A v \in Workers : v # w => tx'[v] = tx[v]
  BY DEF StreamInv, StreamTypeOK
<1>2. StreamTypeOK'
  BY <1>1 DEF StreamInv, StreamTypeOK
<1>3. SignalsFollowTheJournal' /\ \A s \in Subscriptions : CursorOK(s)'
  BY DEF StreamInv, SignalsFollowTheJournal, IsAChain, ReactedOnce, DeliveredInOrder, CursorOK
<1>4. ASSUME NEW v \in Workers, v # w PROVE TxOK(v)'
  <2>1. TxOK(v) /\ tx'[v] = tx[v]
    BY <1>1, <1>4 DEF StreamInv
  <2>2. RowsSeen(v)' = RowsSeen(v) /\ \A e : IsPublished(v, e)' <=> IsPublished(v, e)
    BY <2>1 DEF RowsSeen, IsPublished
  <2>3. RowsOK(v)'
    BY <2>1, <2>2 DEF TxOK, RowsOK, IsAChain
  <2>4. RanOK(v)'
    BY <2>1, <2>2 DEF TxOK, RanOK
  <2>5. TodoOK(v)'
    BY <2>1, <2>2 DEF TxOK, TodoOK
  <2>6. PolledOK(v)'
    BY <2>1 DEF TxOK, PolledOK, PolledFrom
  <2> QED BY <2>3, <2>4, <2>5, <2>6 DEF TxOK
<1> QED BY <1>2, <1>3, <1>4 DEF StreamInv

\* The steps left when the first is done.
LEMMA TailOf ==
  ASSUME NEW s \in Seq(Steps), s # <<>>
  PROVE  /\ Tail(s) \in Seq(Steps) /\ Head(s) = s[1] /\ s[1] \in Steps /\ 1 \in 1 .. Len(s)
         /\ \A n \in 1 .. Len(Tail(s)) : n + 1 \in 2 .. Len(s) /\ Tail(s)[n] = s[n + 1]
<1>1. Len(s) \in Nat \ {0} /\ Len(Tail(s)) = Len(s) - 1 /\ Tail(s) \in Seq(Steps)
  OBVIOUS
<1>2. Head(s) = s[1] /\ s[1] \in Steps
  BY <1>1
<1>3. ASSUME NEW n \in 1 .. Len(Tail(s)) PROVE n + 1 \in 2 .. Len(s) /\ Tail(s)[n] = s[n + 1]
  BY <1>1
<1> QED BY <1>1, <1>2, <1>3

LEMMA Begins ==
  ASSUME StreamInv, NEW w \in Workers, NEW todo \in Seq(Steps), NEW each \in BOOLEAN,
         Begin(w, todo, each),
         \A n \in 1 .. Len(todo) :
            /\ todo[n].do = "dispatch" => \E r \in journal : r.event = todo[n].on
            /\ todo[n].do = "poll" => Len(todo) = 1
            /\ each => todo[n].do = "dispatch"
  PROVE  StreamInv'
<1> DEFINE t == [Idle EXCEPT !.todo = todo, !.each = each]
<1>1. /\ t.todo = todo /\ t.each = each /\ t.locks = {} /\ t.rows = {} /\ t.ran = {}
      /\ t.polled = {} /\ t \in Transactions
  BY DEF Idle, Transactions
<1>2. tx'[w] = t /\ journal' = journal
  BY DEF Begin, StreamInv, StreamTypeOK
<1>3. RowsSeen(w)' = journal /\ \A r \in journal : IsPublished(w, r.event)'
  BY <1>1, <1>2 DEF RowsSeen, IsPublished
<1>4. RowsOK(w)' /\ RanOK(w)' /\ PolledOK(w)'
  BY <1>1, <1>2, <1>3 DEF RowsOK, RanOK, PolledOK, StreamInv, SignalsFollowTheJournal, IsAChain
<1>5. TodoOK(w)'
  BY <1>1, <1>2, <1>3 DEF TodoOK
<1>6. \A v \in Workers : v # w => tx[v].locks \cap t.locks = {}
  BY <1>1
<1> HIDE DEF t
<1> QED BY <1>1, <1>4, <1>5, <1>6, OneMoves DEF Begin, TxOK, t

LEMMA OneStep ==
  ASSUME NEW w \in Workers, NEW step \in Steps, StreamInv, Begin(w, <<step>>, FALSE),
         step.do = "dispatch" => \E r \in journal : r.event = step.on
  PROVE  StreamInv'
<1> DEFINE todo == <<step>>
<1>1. todo \in Seq(Steps) /\ Len(todo) = 1 /\ \A n \in 1 .. Len(todo) : todo[n] = step
  OBVIOUS
<1> HIDE DEF todo
<1>2. Begin(w, todo, FALSE)
  BY DEF todo
<1> QED BY <1>1, <1>2, Begins

LEMMA Accepted ==
  ASSUME StreamInv, NEW w \in Workers, Accept(w)
  PROVE  StreamInv'
<1> USE StreamAssumption
<1>1. ASSUME NEW e \in Events, RequestAppend(w, e) \/ RequestPublish(w, e) PROVE StreamInv'
  <2>1. Do("append", e) \in Steps /\ Do("publish", e) \in Steps
    BY DEF Do, Steps
  <2>2. Do("append", e).do # "dispatch" /\ Do("publish", e).do # "dispatch"
    BY DEF Do
  <2> QED BY <1>1, <2>1, <2>2, OneStep DEF RequestAppend, RequestPublish
<1>2. ASSUME NEW es \in Analyses, RequestAnalysis(w, es) PROVE StreamInv'
  <2> DEFINE todo == [n \in 1 .. Len(es) |-> Do("analyze", es[n])]
  <2>1. es \in Seq(Events) /\ Len(es) \in Nat
    OBVIOUS
  <2>2. \A n \in 1 .. Len(es) : todo[n] \in Steps /\ todo[n].do = "analyze"
    BY <2>1 DEF Do, Steps
  <2>3. todo \in Seq(Steps) /\ Len(todo) = Len(es)
    BY <2>1, <2>2
  <2> HIDE DEF todo
  <2> QED BY <1>2, <2>2, <2>3, Begins DEF RequestAnalysis, todo
<1>3. ASSUME NEW r \in journal, RequestDispatch(w, r) PROVE StreamInv'
  <2>1. Do("dispatch", r.event) \in Steps /\ Do("dispatch", r.event).on = r.event
    BY DEF Do, Steps, StreamInv, StreamTypeOK, JournalRows
  <2> QED BY <1>3, <2>1, OneStep DEF RequestDispatch
<1>4. ASSUME NEW rs \in Listings, RequestDrain(w, rs) \/ RunDrainScript(w, rs) PROVE StreamInv'
  <2> DEFINE todo == [n \in 1 .. Len(rs) |-> Do("dispatch", rs[n].event)]
  <2>1. PICK k \in 1 .. MaxListed : rs \in [1 .. k -> PendingRows]
    BY DEF Listings
  <2>2. Len(rs) = k /\ k \in Nat
    BY <2>1
  <2>3. \A n \in 1 .. k : rs[n] \in journal /\ rs[n].event \in Events
    BY <2>1 DEF PendingRows, StreamInv, StreamTypeOK, JournalRows
  <2>4. \A n \in 1 .. k : todo[n] \in Steps /\ todo[n].do = "dispatch" /\ todo[n].on = rs[n].event
    BY <2>2, <2>3 DEF Do, Steps
  <2>5. todo \in Seq(Steps) /\ Len(todo) = k
    BY <2>2, <2>4
  <2> HIDE DEF todo
  <2>6. CASE RequestDrain(w, rs)
    BY <2>6, <2>3, <2>4, <2>5, Begins DEF RequestDrain, todo
  <2>7. CASE RunDrainScript(w, rs)
    BY <2>7, <2>3, <2>4, <2>5, Begins DEF RunDrainScript, todo
  <2> QED BY <1>4, <2>6, <2>7
<1>5. ASSUME NEW s \in Subscriptions, RequestPoll(w, s) PROVE StreamInv'
  <2>1. Do("poll", s) \in Steps /\ Do("poll", s).do # "dispatch"
    BY DEF Do, Steps
  <2> QED BY <1>5, <2>1, OneStep DEF RequestPoll
<1> QED BY <1>1, <1>2, <1>3, <1>4, <1>5 DEF Accept

-----------------------------------------------------------------------------
(* The steps of a transaction.                                             *)

LEMMA Reached ==
  ASSUME StreamInv, NEW w \in Workers, NEW what, Reaches(w, what)
  PROVE  /\ tx[w] \in Transactions /\ TxOK(w)
         /\ tx[w].todo \in Seq(Steps) /\ tx[w].todo # <<>>
         /\ Next1(w) = tx[w].todo[1] /\ Next1(w) \in Steps /\ Next1(w).do \in what
         /\ 1 \in 1 .. Len(tx[w].todo)
         /\ LockFor(Next1(w)) \in Events \cup Subscriptions \cup {"stream"}
         /\ Next1(w).do # "poll" => LockFor(Next1(w)) \notin Subscriptions
         /\ \A v \in Workers : v # w =>
                tx[v].locks \cap (tx[w].locks \cup {LockFor(Next1(w))}) = {}
         /\ \A s \in Subscriptions : s \notin tx[w].locks
<1>1. tx[w] \in Transactions /\ TxOK(w) /\ tx[w].todo \in Seq(Steps)
  BY DEF StreamInv, StreamTypeOK, Transactions
<1>2. AtWork(w) /\ tx[w].todo # <<>> /\ Next1(w).do \in what
  BY DEF Reaches, AtWork
<1>3. Next1(w) = tx[w].todo[1] /\ Next1(w) \in Steps /\ 1 \in 1 .. Len(tx[w].todo)
  BY <1>1, <1>2, TailOf DEF Next1
<1>4. /\ LockFor(Next1(w)) \in Events \cup Subscriptions \cup {"stream"}
      /\ Next1(w).do # "poll" => LockFor(Next1(w)) \notin Subscriptions
  BY <1>3, StreamAssumption DEF LockFor, Steps, Subscriptions
<1>5. ASSUME NEW v \in Workers, v # w
      PROVE  tx[v].locks \cap (tx[w].locks \cup {LockFor(Next1(w))}) = {}
  BY <1>2, <1>5 DEF Reaches, StandsBehind, StreamInv, StreamTypeOK
<1>6. ASSUME NEW s \in Subscriptions PROVE s \notin tx[w].locks
  BY <1>1, <1>2 DEF TxOK, PolledOK
<1> QED BY <1>1, <1>2, <1>3, <1>4, <1>5, <1>6

\* What is left to do after a step that was not a poll, and is to be done next.
LEMMA StepsOn ==
  ASSUME StreamInv, NEW w \in Workers, NEW what, Reaches(w, what), "poll" \notin what,
         NEW t \in Transactions, tx' = [tx EXCEPT ![w] = t],
         UNCHANGED <<journal, runs, alerts, cursor, delivered>>,
         t.locks = tx[w].locks \cup {LockFor(Next1(w))}, t.each = tx[w].each,
         tx[w].rows \subseteq t.rows,
         \A n \in 1 .. Len(t.todo) :
            \/ \E m \in 2 .. Len(tx[w].todo) : t.todo[n] = tx[w].todo[m]
            \/ /\ t.todo[n] = Do("dispatch", Next1(w).on)
               /\ \E r \in journal \cup t.rows : r.event = Next1(w).on,
         RowsOK(w)', RanOK(w)'
  PROVE  StreamInv'
<1> USE Reached
<1>1. tx'[w] = t
  BY DEF StreamInv, StreamTypeOK
<1>2. RowsSeen(w)' = journal \cup t.rows /\ RowsSeen(w) \subseteq RowsSeen(w)'
  BY <1>1 DEF RowsSeen
<1>3. \A e : IsPublished(w, e) => IsPublished(w, e)'
  BY <1>2 DEF IsPublished
<1>4. ASSUME NEW n \in 1 .. Len(t.todo)
      PROVE  /\ t.todo[n].do = "dispatch" => IsPublished(w, t.todo[n].on)'
             /\ t.todo[n].do # "poll"
             /\ t.each => t.todo[n].do = "dispatch"
  <2>1. CASE \E m \in 2 .. Len(tx[w].todo) : t.todo[n] = tx[w].todo[m]
    <3>1. PICK m \in 2 .. Len(tx[w].todo) : t.todo[n] = tx[w].todo[m]
      BY <2>1
    <3>2. m \in 1 .. Len(tx[w].todo) /\ Len(tx[w].todo) # 1
      BY <3>1, Reached
    <3>3. TodoOK(w)
      BY Reached DEF TxOK
    <3> QED BY <3>1, <3>2, <3>3, <1>3 DEF TodoOK
  <2>2. CASE t.todo[n] = Do("dispatch", Next1(w).on) /\ \E r \in journal \cup t.rows : r.event = Next1(w).on
    <3>1. t.todo[n].do = "dispatch" /\ t.todo[n].on = Next1(w).on
      BY <2>2 DEF Do
    <3>2. \E r \in journal \cup t.rows : r.event = t.todo[n].on
      BY <2>2, <3>1
    <3>3. IsPublished(w, t.todo[n].on)'
      BY <3>2, <1>2 DEF IsPublished
    <3> QED BY <3>1, <3>3
  <2> QED BY <2>1, <2>2
<1>5. TodoOK(w)'
  BY <1>1, <1>4 DEF TodoOK
<1>6. PolledOK(w)'
  BY <1>1 DEF PolledOK
<1>7. \A v \in Workers : v # w => tx[v].locks \cap t.locks = {}
  OBVIOUS
<1> QED BY <1>5, <1>6, <1>7, OneMoves DEF TxOK

\* A chain grows at its end.
LEMMA Grows ==
  ASSUME NEW rows \in SUBSET JournalRows, IsAChain(rows), NEW r \in {Origin} \cup rows,
         \A q \in rows : q.sequence <= r.sequence,
         NEW e \in Events, \A q \in rows : q.event # e
  PROVE  /\ Row(e, r.sequence + 1, r.event) \in JournalRows
         /\ IsAChain(rows \cup {Row(e, r.sequence + 1, r.event)})
         /\ \A q \in rows : q.sequence < r.sequence + 1
<1> DEFINE new == Row(e, r.sequence + 1, r.event)
<1>1. r.sequence \in Nat /\ r.event \in Events \cup {NoEvent}
  BY DEF Origin, Row, JournalRows
<1>2. new.sequence = r.sequence + 1 /\ new.previous = r.event /\ new.event = e /\ new \in JournalRows
  BY <1>1 DEF Row, JournalRows
<1>3. \A q \in rows : q.sequence \in Nat \ {0} /\ q.sequence < new.sequence
  BY <1>1, <1>2 DEF JournalRows
<1>4. IF new.sequence = 1 THEN new.previous = NoEvent
      ELSE \E q \in rows : q.sequence = new.sequence - 1 /\ new.previous = q.event
  <2>1. CASE r = Origin
    BY <2>1, <1>2 DEF Origin, Row
  <2>2. CASE r \in rows
    BY <2>2, <1>2, <1>3
  <2> QED BY <2>1, <2>2
<1> HIDE DEF new
<1>5. IsAChain(rows \cup {new})
  BY <1>2, <1>3, <1>4 DEF IsAChain
<1> QED BY <1>2, <1>3, <1>5 DEF new

\* A row of an own event, after the latest, and what stays as it was.
LEMMA RowAppended ==
  ASSUME StreamInv, NEW w \in Workers, NEW what, Reaches(w, what),
         what \subseteq {"append", "publish", "analyze"},
         ~IsPublished(w, Next1(w).on), NEW r \in Latest(w),
         NEW t \in Transactions, tx' = [tx EXCEPT ![w] = t],
         UNCHANGED <<journal, runs, alerts>>,
         t.rows = tx[w].rows \cup {Row(Next1(w).on, r.sequence + 1, r.event)},
         t.locks = tx[w].locks \cup {LockFor(Next1(w))}, t.each = tx[w].each,
         t.ran = tx[w].ran, t.alerted = tx[w].alerted
  PROVE  RowsOK(w)' /\ RanOK(w)'
<1>0. /\ TxOK(w) /\ Next1(w) \in Steps /\ Next1(w) = tx[w].todo[1] /\ 1 \in 1 .. Len(tx[w].todo)
      /\ Next1(w).do \in what /\ tx[w] \in Transactions
  BY Reached
<1>1. tx'[w] = t /\ RowsSeen(w) \in SUBSET JournalRows
  BY <1>0 DEF StreamInv, StreamTypeOK, RowsSeen, Transactions
<1>2. Next1(w).on \in Events /\ LockFor(Next1(w)) = "stream" /\ ~tx[w].each
  BY <1>0 DEF Steps, LockFor, TxOK, TodoOK
<1>3. r \in {Origin} \cup RowsSeen(w) /\ \A q \in RowsSeen(w) : q.sequence <= r.sequence
  BY DEF Latest
<1> DEFINE new == Row(Next1(w).on, r.sequence + 1, r.event)
<1>4. IsAChain(RowsSeen(w) \cup {new}) /\ \A q \in RowsSeen(w) : q.sequence < r.sequence + 1
  <2> DEFINE rows == RowsSeen(w)
             e == Next1(w).on
  <2>1. rows \in SUBSET JournalRows /\ e \in Events /\ r \in {Origin} \cup rows
    BY <1>1, <1>2, <1>3
  <2>2. IsAChain(rows) /\ \A q \in rows : q.sequence <= r.sequence /\ q.event # e
    BY <1>0, <1>3 DEF TxOK, RowsOK, IsPublished
  <2> HIDE DEF rows, e
  <2>3. IsAChain(rows \cup {Row(e, r.sequence + 1, r.event)}) /\ \A q \in rows : q.sequence < r.sequence + 1
    BY <2>1, <2>2, Grows
  <2> QED BY <2>3 DEF rows, e
<1>5. new.sequence = r.sequence + 1
  BY DEF Row
<1> HIDE DEF new
<1>6. t.rows = tx[w].rows \cup {new} /\ RowsSeen(w)' = RowsSeen(w) \cup {new}
  BY <1>1 DEF RowsSeen, new
<1>7. \A q \in t.rows, p \in journal : p.sequence < q.sequence
  BY <1>0, <1>4, <1>5, <1>6 DEF TxOK, RowsOK, RowsSeen
<1>8. RowsOK(w)'
  BY <1>1, <1>2, <1>4, <1>6, <1>7 DEF RowsOK, IsAChain
<1>9. RanOK(w)'
  BY <1>0, <1>1, <1>6 DEF TxOK, RanOK, IsPublished
<1> QED BY <1>8, <1>9

\* ... or no row at all.
LEMMA RowsStay ==
  ASSUME StreamInv, NEW w \in Workers, NEW what, Reaches(w, what),
         NEW t \in Transactions, tx' = [tx EXCEPT ![w] = t],
         UNCHANGED <<journal, runs, alerts>>,
         t.rows = tx[w].rows, tx[w].locks \subseteq t.locks, t.each = tx[w].each
  PROVE  RowsOK(w)' /\ RowsSeen(w)' = RowsSeen(w) /\ (t.ran = tx[w].ran /\ t.alerted = tx[w].alerted => RanOK(w)')
<1>1. TxOK(w) /\ tx'[w] = t
  BY Reached DEF StreamInv, StreamTypeOK
<1>2. RowsSeen(w)' = RowsSeen(w)
  BY <1>1 DEF RowsSeen
<1>3. RowsOK(w)'
  BY <1>1, <1>2 DEF TxOK, RowsOK, IsAChain
<1>4. t.ran = tx[w].ran /\ t.alerted = tx[w].alerted => RanOK(w)'
  BY <1>1, <1>2 DEF TxOK, RanOK, IsPublished
<1> QED BY <1>2, <1>3, <1>4

\* What is left after the first, or what follows when it is a dispatch of the same.
LEMMA LeftToDo ==
  ASSUME StreamInv, NEW w \in Workers, NEW what, Reaches(w, what)
  PROVE  /\ Popped(w).todo \in Seq(Steps)
         /\ \A n \in 1 .. Len(Popped(w).todo) :
               \E m \in 2 .. Len(tx[w].todo) : Popped(w).todo[n] = tx[w].todo[m]
         /\ Next1(w).do # "poll" =>
               /\ AfterPublish(w).todo \in Seq(Steps)
               /\ \A n \in 1 .. Len(AfterPublish(w).todo) :
                     \/ \E m \in 2 .. Len(tx[w].todo) : AfterPublish(w).todo[n] = tx[w].todo[m]
                     \/ AfterPublish(w).todo[n] = Do("dispatch", Next1(w).on)
<1>0. /\ tx[w] \in Transactions /\ tx[w].todo \in Seq(Steps) /\ tx[w].todo # <<>>
      /\ Next1(w) \in Steps /\ 1 \in 1 .. Len(tx[w].todo)
  BY Reached
<1>1. Popped(w).todo = Tail(tx[w].todo)
  BY <1>0 DEF Popped, Transactions
<1>2. Tail(tx[w].todo) \in Seq(Steps) /\ \A n \in 1 .. Len(Tail(tx[w].todo)) :
          n + 1 \in 2 .. Len(tx[w].todo) /\ Tail(tx[w].todo)[n] = tx[w].todo[n + 1]
  BY <1>0, TailOf
<1>3. ASSUME NEW n \in 1 .. Len(Popped(w).todo)
      PROVE  \E m \in 2 .. Len(tx[w].todo) : Popped(w).todo[n] = tx[w].todo[m]
  BY <1>1, <1>2
<1>4. ASSUME Next1(w).do # "poll", Next1(w).do = "analyze"
      PROVE  /\ AfterPublish(w).todo \in Seq(Steps)
             /\ \A n \in 1 .. Len(AfterPublish(w).todo) :
                   \/ \E m \in 2 .. Len(tx[w].todo) : AfterPublish(w).todo[n] = tx[w].todo[m]
                   \/ AfterPublish(w).todo[n] = Do("dispatch", Next1(w).on)
  <2> DEFINE d == Do("dispatch", Next1(w).on)
  <2>1. d \in Steps
    BY <1>0, <1>4 DEF Do, Steps
  <2>2. AfterPublish(w).todo = [tx[w].todo EXCEPT ![1] = d]
    BY <1>0, <1>4 DEF AfterPublish, Transactions
  <2> HIDE DEF d
  <2>3. [tx[w].todo EXCEPT ![1] = d] \in Seq(Steps) /\ Len([tx[w].todo EXCEPT ![1] = d]) = Len(tx[w].todo)
    BY <1>0, <2>1
  <2>4. ASSUME NEW n \in 1 .. Len(tx[w].todo)
        PROVE  [tx[w].todo EXCEPT ![1] = d][n] = IF n = 1 THEN d ELSE tx[w].todo[n]
    BY <1>0
  <2>5. \A n \in 1 .. Len(tx[w].todo) : n = 1 \/ n \in 2 .. Len(tx[w].todo)
    BY <1>0
  <2> QED BY <2>2, <2>3, <2>4, <2>5 DEF d
<1>5. Next1(w).do # "analyze" => AfterPublish(w) = Popped(w)
  BY DEF AfterPublish
<1> QED BY <1>1, <1>2, <1>3, <1>4, <1>5

-----------------------------------------------------------------------------
(* Each step.                                                              *)

\* A row, by either way, with `after` what the transaction is afterwards.
LEMMA RowStep ==
  ASSUME StreamInv, NEW w \in Workers, NEW what, Reaches(w, what),
         what \subseteq {"append", "publish", "analyze"},
         ~IsPublished(w, Next1(w).on), NEW r \in Latest(w), NEW todo \in Seq(Steps),
         \A n \in 1 .. Len(todo) :
            \/ \E m \in 2 .. Len(tx[w].todo) : todo[n] = tx[w].todo[m]
            \/ todo[n] = Do("dispatch", Next1(w).on),
         GoesOn(w, [tx[w] EXCEPT !.todo = todo,
                                 !.rows = tx[w].rows \cup {Row(Next1(w).on, r.sequence + 1, r.event)}])
  PROVE  StreamInv'
<1> DEFINE row == Row(Next1(w).on, r.sequence + 1, r.event)
           t == [[tx[w] EXCEPT !.todo = todo, !.rows = tx[w].rows \cup {row}]
                    EXCEPT !.locks = tx[w].locks \cup {LockFor(Next1(w))}]
<1>1. /\ tx[w] \in Transactions /\ LockFor(Next1(w)) \in Events \cup Subscriptions \cup {"stream"}
      /\ Next1(w) \in Steps /\ Next1(w).do \in what
  BY Reached
<1>2. row \in JournalRows /\ row.event = Next1(w).on
  BY <1>1 DEF Row, JournalRows, Steps, Latest, Origin, RowsSeen, StreamInv, StreamTypeOK, Transactions
<1> HIDE DEF row
<1>3. /\ t \in Transactions /\ t.todo = todo /\ t.rows = tx[w].rows \cup {row}
      /\ t.locks = tx[w].locks \cup {LockFor(Next1(w))} /\ t.each = tx[w].each
      /\ t.ran = tx[w].ran /\ t.alerted = tx[w].alerted
  BY <1>1, <1>2 DEF Transactions
<1>4. tx' = [tx EXCEPT ![w] = t] /\ UNCHANGED <<journal, runs, alerts, cursor, delivered, tasks>>
  BY DEF GoesOn, row
<1> HIDE DEF t
<1>5. RowsOK(w)' /\ RanOK(w)'
  BY <1>3, <1>4, RowAppended DEF row
<1>6. \E q \in journal \cup t.rows : q.event = Next1(w).on
  BY <1>2, <1>3
<1>7. "poll" \notin what
  OBVIOUS
<1> QED BY <1>3, <1>4, <1>5, <1>6, <1>7, StepsOn

LEMMA AppendExternalKeeps ==
  ASSUME StreamInv, NEW w \in Workers, NEW sequence, NEW previous, AppendExternal(w, sequence, previous)
  PROVE  StreamInv'
<1>1. Reaches(w, {"append"}) /\ ~IsPublished(w, Next1(w).on)
  BY DEF AppendExternal
<1>2. PICK r \in Latest(w) : sequence = r.sequence + 1 /\ previous = r.event
  BY DEF AppendExternal, Follows
<1>3. GoesOn(w, [tx[w] EXCEPT !.todo = Tail(tx[w].todo),
                              !.rows = tx[w].rows \cup {Row(Next1(w).on, r.sequence + 1, r.event)}])
  BY <1>2 DEF AppendExternal, Popped
<1>4. Popped(w).todo = Tail(tx[w].todo)
  BY <1>1, Reached DEF Popped, Transactions
<1> QED BY <1>1, <1>3, <1>4, LeftToDo, RowStep

LEMMA PublishKeeps ==
  ASSUME StreamInv, NEW w \in Workers, Publish(w)
  PROVE  StreamInv'
<1>1. Reaches(w, {"publish", "analyze"}) /\ ~IsPublished(w, Next1(w).on)
  BY DEF Publish
<1>2. PICK r \in Latest(w) :
         GoesOn(w, [AfterPublish(w) EXCEPT
             !.rows = tx[w].rows \cup {Row(Next1(w).on, r.sequence + 1, r.event)}])
  BY DEF Publish
<1>3. [AfterPublish(w) EXCEPT !.rows = tx[w].rows \cup {Row(Next1(w).on, r.sequence + 1, r.event)}]
        = [tx[w] EXCEPT !.todo = AfterPublish(w).todo,
                        !.rows = tx[w].rows \cup {Row(Next1(w).on, r.sequence + 1, r.event)}]
  BY <1>1, Reached DEF AfterPublish, Popped, Transactions
<1>4. Next1(w).do # "poll"
  BY <1>1, Reached
<1> QED BY <1>1, <1>2, <1>3, <1>4, LeftToDo, RowStep

\* A step that writes nothing: what it would do was done before.
LEMMA IdleStep ==
  ASSUME StreamInv, NEW w \in Workers, NEW what, Reaches(w, what), "poll" \notin what,
         NEW todo \in Seq(Steps),
         \A n \in 1 .. Len(todo) :
            \/ \E m \in 2 .. Len(tx[w].todo) : todo[n] = tx[w].todo[m]
            \/ todo[n] = Do("dispatch", Next1(w).on) /\ IsPublished(w, Next1(w).on),
         GoesOn(w, [tx[w] EXCEPT !.todo = todo])
  PROVE  StreamInv'
<1> DEFINE t == [[tx[w] EXCEPT !.todo = todo] EXCEPT !.locks = tx[w].locks \cup {LockFor(Next1(w))}]
<1>1. tx[w] \in Transactions /\ LockFor(Next1(w)) \in Events \cup Subscriptions \cup {"stream"}
  BY Reached
<1>2. /\ t \in Transactions /\ t.todo = todo /\ t.rows = tx[w].rows
      /\ t.locks = tx[w].locks \cup {LockFor(Next1(w))} /\ t.each = tx[w].each
      /\ t.ran = tx[w].ran /\ t.alerted = tx[w].alerted
  BY <1>1 DEF Transactions
<1>3. tx' = [tx EXCEPT ![w] = t] /\ UNCHANGED <<journal, runs, alerts, cursor, delivered, tasks>>
  BY DEF GoesOn
<1> HIDE DEF t
<1>4. RowsOK(w)' /\ RanOK(w)'
  BY <1>2, <1>3, RowsStay
<1>5. IsPublished(w, Next1(w).on) => \E r \in journal \cup t.rows : r.event = Next1(w).on
  BY <1>2 DEF IsPublished, RowsSeen
<1> QED BY <1>2, <1>3, <1>4, <1>5, StepsOn

LEMMA FindPublishedKeeps ==
  ASSUME StreamInv, NEW w \in Workers, FindPublished(w)
  PROVE  StreamInv'
<1> DEFINE what == {"append", "publish", "analyze"}
<1>1. Reaches(w, what) /\ IsPublished(w, Next1(w).on) /\ GoesOn(w, AfterPublish(w))
  BY DEF FindPublished
<1>2. AfterPublish(w) = [tx[w] EXCEPT !.todo = AfterPublish(w).todo]
  BY <1>1, Reached DEF AfterPublish, Popped, Transactions
<1>3. Next1(w).do # "poll" /\ "poll" \notin what
  BY <1>1, Reached
<1> HIDE DEF what
<1> QED BY <1>1, <1>2, <1>3, LeftToDo, IdleStep

LEMMA FindDispatchedKeeps ==
  ASSUME StreamInv, NEW w \in Workers, FindDispatched(w)
  PROVE  StreamInv'
<1>1. Reaches(w, {"dispatch"}) /\ GoesOn(w, Popped(w))
  BY DEF FindDispatched
<1>2. Popped(w) = [tx[w] EXCEPT !.todo = Popped(w).todo]
  BY <1>1, Reached DEF Popped, Transactions
<1> QED BY <1>1, <1>2, LeftToDo, IdleStep

LEMMA DispatchKeeps ==
  ASSUME StreamInv, NEW w \in Workers, Dispatch(w)
  PROVE  StreamInv'
<1> DEFINE e == Next1(w).on
           alerted == IF InCooldown(w, e) THEN tx[w].alerted ELSE tx[w].alerted \cup {e}
           t == [[Popped(w) EXCEPT !.ran = tx[w].ran \cup {e}, !.alerted = alerted]
                    EXCEPT !.locks = tx[w].locks \cup {LockFor(Next1(w))}]
<1>1. Reaches(w, {"dispatch"}) /\ ~HasRun(w, e)
  BY DEF Dispatch
<1>2. /\ tx[w] \in Transactions /\ TxOK(w) /\ Next1(w) \in Steps /\ Next1(w).do = "dispatch"
      /\ LockFor(Next1(w)) = e /\ e \in Events /\ Next1(w) = tx[w].todo[1] /\ 1 \in 1 .. Len(tx[w].todo)
  <2>1. /\ tx[w] \in Transactions /\ TxOK(w) /\ Next1(w) \in Steps /\ Next1(w).do = "dispatch"
        /\ Next1(w) = tx[w].todo[1] /\ 1 \in 1 .. Len(tx[w].todo)
    BY <1>1, Reached
  <2> QED BY <2>1 DEF LockFor, Steps
<1>3. runs[e] = 0 /\ IsPublished(w, e)
  BY <1>1, <1>2 DEF HasRun, StreamInv, StreamTypeOK, TxOK, TodoOK
<1>4. alerted \in SUBSET Events /\ \E a \in alerts \cup alerted : SubjectOf[a] = SubjectOf[e]
  BY <1>2 DEF InCooldown, Transactions
<1>5. tx[w].alerted \subseteq alerted
  OBVIOUS
<1>6. Popped(w) = [tx[w] EXCEPT !.todo = Popped(w).todo] /\ Popped(w).todo \in Seq(Steps)
  BY <1>1, <1>2, LeftToDo DEF Popped, Transactions
<1> HIDE DEF alerted, e
<1>7. /\ t \in Transactions /\ t.todo = Popped(w).todo /\ t.rows = tx[w].rows
      /\ t.locks = tx[w].locks \cup {LockFor(Next1(w))} /\ t.each = tx[w].each
      /\ t.ran = tx[w].ran \cup {e} /\ t.alerted = alerted
  BY <1>2, <1>4, <1>6 DEF Transactions
<1>8. tx' = [tx EXCEPT ![w] = t] /\ UNCHANGED <<journal, runs, alerts, cursor, delivered, tasks>>
  BY DEF GoesOn, Dispatch, e, alerted
<1> HIDE DEF t
<1>9. RowsOK(w)' /\ RowsSeen(w)' = RowsSeen(w)
  BY <1>1, <1>7, <1>8, RowsStay
<1>10. RanOK(w)'
  <2>1. tx'[w] = t
    BY <1>8 DEF StreamInv, StreamTypeOK
  <2>2. \A f \in tx[w].ran : /\ f \in tx[w].locks /\ runs[f] = 0 /\ IsPublished(w, f)
                             /\ \E a \in alerts \cup tx[w].alerted : SubjectOf[a] = SubjectOf[f]
    BY <1>2 DEF TxOK, RanOK
  <2>3. \A f \in t.ran : /\ f \in t.locks /\ runs[f] = 0 /\ IsPublished(w, f)
                         /\ \E a \in alerts \cup t.alerted : SubjectOf[a] = SubjectOf[f]
    BY <2>2, <1>2, <1>3, <1>4, <1>5, <1>7
  <2>4. \A f : IsPublished(w, f) => IsPublished(w, f)'
    BY <1>9 DEF IsPublished
  <2> QED BY <2>1, <2>3, <2>4, <1>8 DEF RanOK
<1>11. \A n \in 1 .. Len(t.todo) : \E m \in 2 .. Len(tx[w].todo) : t.todo[n] = tx[w].todo[m]
  BY <1>1, <1>7, LeftToDo
<1>12. "poll" \notin {"dispatch"} /\ tx[w].rows \subseteq t.rows
  BY <1>7
<1> QED BY <1>1, <1>7, <1>8, <1>9, <1>10, <1>11, <1>12, StepsOn

\* The steps of a poll: what it has found is complete, and nothing is left to do.
LEMMA PollSteps ==
  ASSUME StreamInv, NEW w \in Workers, Reaches(w, {"poll"}),
         NEW t \in Transactions, tx' = [tx EXCEPT ![w] = t],
         UNCHANGED <<journal, runs, alerts, cursor, delivered>>,
         t.todo = Popped(w).todo, t.rows = tx[w].rows, t.each = tx[w].each,
         t.ran = tx[w].ran, t.alerted = tx[w].alerted,
         t.locks = tx[w].locks \cup {LockFor(Next1(w))},
         NEW sub, sub = Next1(w).on, PolledFrom(w, sub)'
  PROVE  StreamInv'
<1>1. /\ TxOK(w) /\ Next1(w) \in Steps /\ Next1(w).do = "poll" /\ Next1(w) = tx[w].todo[1]
      /\ 1 \in 1 .. Len(tx[w].todo)
  BY Reached
<1>2. Len(tx[w].todo) = 1 /\ tx[w].locks = {} /\ tx[w].rows = {}
  BY <1>1 DEF TxOK, TodoOK, RowsOK
<1>3. t.todo = <<>>
  <2>1. t.todo \in Seq(Steps) /\ \A n \in 1 .. Len(t.todo) : FALSE
    BY <1>2, LeftToDo
  <2> QED BY <2>1
<1>4. LockFor(Next1(w)) = Next1(w).on /\ Next1(w).on \in Subscriptions
  BY <1>1 DEF LockFor, Steps
<1>5. tx'[w] = t
  BY DEF StreamInv, StreamTypeOK
<1>6. RowsOK(w)' /\ RanOK(w)'
  BY RowsStay
<1>7. TodoOK(w)'
  BY <1>3, <1>5 DEF TodoOK
<1>8. PolledOK(w)'
  <2> SUFFICES ASSUME NEW s \in Subscriptions, s \in t.locks
               PROVE  PolledFrom(w, s)'
    BY <1>2, <1>3, <1>5 DEF PolledOK
  <2>1. s = sub
    BY <1>2, <1>4
  <2> QED BY <2>1
<1>9. \A v \in Workers : v # w => tx[v].locks \cap t.locks = {}
  BY Reached
<1> QED BY <1>6, <1>7, <1>8, <1>9, OneMoves DEF TxOK

LEMMA PollKeeps ==
  ASSUME StreamInv, NEW w \in Workers, NEW last \in journal, Poll(w, last)
  PROVE  StreamInv'
<1> DEFINE found(s) == {r.sequence : r \in {q \in Deliverable(s) : q.sequence <= last.sequence}}
<1>1. PICK s : s = Next1(w).on
  OBVIOUS
<1> DEFINE t == [[Popped(w) EXCEPT !.polled = found(s), !.upto = last.sequence]
                    EXCEPT !.locks = tx[w].locks \cup {LockFor(Next1(w))}]
<1>2. Reaches(w, {"poll"}) /\ last \in Deliverable(s)
  BY <1>1 DEF Poll
<1>3. /\ tx[w] \in Transactions /\ LockFor(Next1(w)) \in Events \cup Subscriptions \cup {"stream"}
      /\ s \in Subscriptions
  <2>1. Next1(w) \in Steps /\ Next1(w).do = "poll"
    BY <1>2, Reached
  <2> QED BY <1>1, <1>2, <2>1, Reached DEF Steps
<1>4. Popped(w) = [tx[w] EXCEPT !.todo = Popped(w).todo] /\ Popped(w).todo \in Seq(Steps)
  BY <1>2, <1>3, LeftToDo DEF Popped, Transactions
<1>5. found(s) \in SUBSET Nat /\ last.sequence \in Nat /\ \A r \in journal : r.sequence \in Nat
  BY DEF StreamInv, StreamTypeOK, JournalRows, Deliverable
<1>6. /\ \A i \in found(s) : cursor[s] < i /\ i <= last.sequence
      /\ \A r \in journal : r.event \in Wanted[s] =>
            (r.sequence \in found(s) <=> cursor[s] < r.sequence /\ r.sequence <= last.sequence)
  <2>1. \A i \in found(s) : cursor[s] < i /\ i <= last.sequence
    BY DEF Deliverable
  <2>2. ASSUME NEW r \in journal, r.event \in Wanted[s], cursor[s] < r.sequence, r.sequence <= last.sequence
        PROVE  r.sequence \in found(s)
    <3>1. \A q \in PendingRows : q.sequence \in Nat
      BY <1>5 DEF PendingRows
    <3>2. ~Barred(s, r)
      BY <1>2, <1>5, <2>2, <3>1 DEF Deliverable, Barred
    <3> QED BY <2>2, <3>2 DEF Deliverable
  <2> QED BY <2>1, <2>2
<1>7. ASSUME s = "agent", NEW r \in journal, cursor[s] < r.sequence, r.sequence <= last.sequence
      PROVE  runs[r.event] = 1
  <2>1. r \notin PendingRows
    BY <1>2, <1>7 DEF Deliverable, Barred
  <2>2. r.event \in Events /\ runs[r.event] \in Nat /\ runs[r.event] # 0
    BY <2>1 DEF PendingRows, StreamInv, StreamTypeOK, JournalRows
  <2> QED BY <2>2 DEF StreamInv, SignalsFollowTheJournal, ReactedOnce
<1> HIDE DEF found
<1>8. /\ t \in Transactions /\ t.todo = Popped(w).todo /\ t.rows = tx[w].rows
      /\ t.locks = tx[w].locks \cup {LockFor(Next1(w))} /\ t.each = tx[w].each
      /\ t.ran = tx[w].ran /\ t.alerted = tx[w].alerted /\ t.polled = found(s) /\ t.upto = last.sequence
  BY <1>3, <1>4, <1>5 DEF Transactions
<1>9. tx' = [tx EXCEPT ![w] = t] /\ UNCHANGED <<journal, runs, alerts, cursor, delivered, tasks>>
  BY <1>1 DEF GoesOn, Poll, found
<1> HIDE DEF t
<1>10. PolledFrom(w, s)'
  <2>1. tx'[w] = t
    BY <1>9 DEF StreamInv, StreamTypeOK
  <2> QED BY <2>1, <1>6, <1>7, <1>8, <1>9 DEF PolledFrom
<1> QED BY <1>1, <1>2, <1>8, <1>9, <1>10, PollSteps

LEMMA PollNothingKeeps ==
  ASSUME StreamInv, NEW w \in Workers, PollNothing(w)
  PROVE  StreamInv'
<1> DEFINE t == [Popped(w) EXCEPT !.locks = tx[w].locks \cup {LockFor(Next1(w))}]
<1>1. Reaches(w, {"poll"})
  BY DEF PollNothing
<1>2. /\ tx[w] \in Transactions /\ LockFor(Next1(w)) \in Events \cup Subscriptions \cup {"stream"}
      /\ tx[w].polled = {}
  <2>1. TxOK(w) /\ Next1(w).do = "poll" /\ Next1(w) = tx[w].todo[1] /\ 1 \in 1 .. Len(tx[w].todo)
    BY <1>1, Reached
  <2> QED BY <1>1, <2>1, Reached DEF TxOK, TodoOK
<1>3. Popped(w) = [tx[w] EXCEPT !.todo = Popped(w).todo] /\ Popped(w).todo \in Seq(Steps)
  BY <1>1, <1>2, LeftToDo DEF Popped, Transactions
<1>4. /\ t \in Transactions /\ t.todo = Popped(w).todo /\ t.rows = tx[w].rows
      /\ t.locks = tx[w].locks \cup {LockFor(Next1(w))} /\ t.each = tx[w].each
      /\ t.ran = tx[w].ran /\ t.alerted = tx[w].alerted /\ t.polled = {}
  BY <1>2, <1>3 DEF Transactions
<1>5. tx' = [tx EXCEPT ![w] = t] /\ UNCHANGED <<journal, runs, alerts, cursor, delivered, tasks>>
  BY DEF GoesOn, PollNothing
<1> HIDE DEF t
<1>6. PICK s : s = Next1(w).on
  OBVIOUS
<1>7. PolledFrom(w, s)'
  <2>1. tx'[w] = t
    BY <1>5 DEF StreamInv, StreamTypeOK
  <2> QED BY <2>1, <1>4 DEF PolledFrom
<1> QED BY <1>1, <1>4, <1>5, <1>6, <1>7, PollSteps

-----------------------------------------------------------------------------
(* COMMIT and ROLLBACK.                                                    *)

\* A transaction that is over, or goes on with dispatches of what is committed.
LEMMA RestOK ==
  ASSUME StreamInv, NEW w \in Workers, NEW todo \in Seq(Steps),
         \A n \in 1 .. Len(todo) : \E m \in 1 .. Len(tx[w].todo) : todo[n] = tx[w].todo[m]
  PROVE  /\ Rest(w, todo) \in Transactions /\ Rest(w, todo).locks = {} /\ Rest(w, todo).rows = {}
         /\ Rest(w, todo).ran = {} /\ Rest(w, todo).polled = {}
         /\ \A n \in 1 .. Len(Rest(w, todo).todo) :
               /\ Rest(w, todo).todo[n].do = "dispatch"
               /\ \E r \in journal : r.event = Rest(w, todo).todo[n].on
<1>1. Rest(w, todo) \in {Idle, [Idle EXCEPT !.todo = todo, !.each = TRUE]}
  BY DEF Rest
<1>2. /\ Rest(w, todo) \in Transactions /\ Rest(w, todo).locks = {} /\ Rest(w, todo).rows = {}
      /\ Rest(w, todo).ran = {} /\ Rest(w, todo).polled = {}
  <2> DEFINE more == [Idle EXCEPT !.todo = todo, !.each = TRUE]
  <2>1. Idle \in Transactions /\ Idle.locks = {} /\ Idle.rows = {} /\ Idle.ran = {} /\ Idle.polled = {}
    BY DEF Idle, Transactions
  <2>2. more \in Transactions /\ more.locks = {} /\ more.rows = {} /\ more.ran = {} /\ more.polled = {}
    BY DEF Idle, Transactions
  <2> QED BY <1>1, <2>1, <2>2
<1>3. CASE tx[w].each
  <2>1. Rest(w, todo).todo \in {<<>>, todo}
    BY DEF Rest, Idle
  <2>2. TodoOK(w) /\ tx[w].rows = {}
    BY <1>3 DEF StreamInv, TxOK, RowsOK
  <2>3. ASSUME NEW n \in 1 .. Len(todo)
        PROVE  todo[n].do = "dispatch" /\ \E r \in journal : r.event = todo[n].on
    <3>1. PICK m \in 1 .. Len(tx[w].todo) : todo[n] = tx[w].todo[m]
      OBVIOUS
    <3>2. tx[w].todo[m].do = "dispatch" /\ IsPublished(w, tx[w].todo[m].on)
      BY <1>3, <2>2 DEF TodoOK
    <3> QED BY <2>2, <3>1, <3>2 DEF IsPublished, RowsSeen
  <2> QED BY <1>2, <2>1, <2>3
<1>4. CASE ~tx[w].each
  <2>1. Rest(w, todo).todo = <<>>
    BY <1>4 DEF Rest, Idle
  <2> QED BY <1>2, <2>1
<1> QED BY <1>3, <1>4

LEMMA OverOK ==
  ASSUME StreamInv, NEW w \in Workers, NEW t \in Transactions, tx'[w] = t,
         t.locks = {}, t.rows = {}, t.ran = {}, t.polled = {},
         journal \subseteq journal', IsAChain(journal'),
         \A n \in 1 .. Len(t.todo) : t.todo[n].do = "dispatch" /\ \E r \in journal : r.event = t.todo[n].on
  PROVE  TxOK(w)'
<1>1. RowsSeen(w)' = journal' /\ \A n \in 1 .. Len(t.todo) : IsPublished(w, t.todo[n].on)'
  BY DEF RowsSeen, IsPublished
<1>2. RowsOK(w)' /\ RanOK(w)' /\ PolledOK(w)'
  BY <1>1 DEF RowsOK, RanOK, PolledOK, IsAChain
<1>3. TodoOK(w)'
  BY <1>1 DEF TodoOK
<1> QED BY <1>2, <1>3 DEF TxOK

LEMMA RollsBack ==
  ASSUME StreamInv, NEW w \in Workers, Undo(w) \/ Crash(w)
  PROVE  StreamInv'
<1>1. tx[w] \in Transactions /\ tx[w].todo \in Seq(Steps)
  BY DEF StreamInv, StreamTypeOK, Transactions
<1>2. PICK t \in Transactions :
         /\ tx' = [tx EXCEPT ![w] = t] /\ t.locks = {} /\ t.rows = {} /\ t.ran = {} /\ t.polled = {}
         /\ \A n \in 1 .. Len(t.todo) : t.todo[n].do = "dispatch" /\ \E r \in journal : r.event = t.todo[n].on
  <2>1. CASE Undo(w)
    <3> DEFINE todo == IF AtWork(w) THEN Tail(tx[w].todo) ELSE tx[w].todo
    <3>1. todo \in Seq(Steps) /\ \A n \in 1 .. Len(todo) : \E m \in 1 .. Len(tx[w].todo) : todo[n] = tx[w].todo[m]
      <4>1. CASE AtWork(w)
        <5>1. tx[w].todo # <<>> /\ todo = Tail(tx[w].todo)
          BY <4>1 DEF AtWork
        <5>2. todo \in Seq(Steps) /\ \A n \in 1 .. Len(todo) : n + 1 \in 2 .. Len(tx[w].todo) /\ todo[n] = tx[w].todo[n + 1]
          BY <1>1, <5>1, TailOf
        <5> QED BY <5>2
      <4>2. CASE ~AtWork(w)
        BY <4>2, <1>1
      <4> QED BY <4>1, <4>2
    <3>2. tx' = [tx EXCEPT ![w] = Rest(w, todo)]
      BY <2>1 DEF Undo
    <3> HIDE DEF todo
    <3> QED BY <3>1, <3>2, RestOK
  <2>2. CASE Crash(w)
    <3>1. /\ Idle \in Transactions /\ Idle.locks = {} /\ Idle.rows = {} /\ Idle.ran = {} /\ Idle.polled = {}
          /\ Idle.todo = <<>>
      BY DEF Idle, Transactions
    <3>2. tx' = [tx EXCEPT ![w] = Idle] /\ 1 .. Len(Idle.todo) = {}
      BY <2>2, <3>1 DEF Crash
    <3>3. \A n \in 1 .. Len(Idle.todo) :
             Idle.todo[n].do = "dispatch" /\ \E r \in journal : r.event = Idle.todo[n].on
      BY <3>2
    <3> HIDE DEF Idle
    <3> QED BY <3>1, <3>2, <3>3
  <2> QED BY <2>1, <2>2
<1>3. UNCHANGED <<journal, runs, alerts, cursor, delivered>>
  BY DEF Undo, Crash
<1>4. tx'[w] = t /\ IsAChain(journal')
  BY <1>2, <1>3 DEF StreamInv, StreamTypeOK, SignalsFollowTheJournal, IsAChain
<1>5. TxOK(w)'
  BY <1>2, <1>3, <1>4, OverOK
<1> QED BY <1>2, <1>3, <1>5, OneMoves

\* What COMMIT makes of the tables, by what the transaction has written.
LEMMA Committed ==
  ASSUME StreamInv, NEW w \in Workers, Conclude(w)
  PROVE  /\ TxOK(w) /\ tx[w] \in Transactions
         /\ journal' = journal \cup tx[w].rows /\ IsAChain(journal') /\ journal' \in SUBSET JournalRows
         /\ \A r \in tx[w].rows, q \in journal : q.sequence < r.sequence
         /\ runs' \in [Events -> Nat]
         /\ \A e \in Events : IF e \in tx[w].ran THEN e \in tx[w].locks /\ runs[e] = 0 /\ runs'[e] = 1
                              ELSE runs'[e] = runs[e]
         /\ alerts' = alerts \cup tx[w].alerted
         /\ \A s \in Subscriptions :
               \/ /\ s \in tx[w].locks /\ tx[w].polled # {} /\ tx[w].rows = {} /\ PolledFrom(w, s)
                  /\ cursor'[s] = tx[w].upto /\ delivered'[s] = Append(delivered[s], tx[w].polled)
               \/ cursor'[s] = cursor[s] /\ delivered'[s] = delivered[s]
         /\ \A s \in Subscriptions : s \notin tx[w].locks => cursor'[s] = cursor[s]
         /\ cursor' \in [Subscriptions -> Nat] /\ delivered' \in [Subscriptions -> Seq(SUBSET Nat)]
<1>1. TxOK(w) /\ tx[w] \in Transactions
  BY DEF StreamInv, StreamTypeOK
<1>2. journal' = journal \cup tx[w].rows
  BY DEF Conclude, RowsSeen
<1>3. /\ IsAChain(RowsSeen(w)) /\ RowsSeen(w) \in SUBSET JournalRows
      /\ \A r \in tx[w].rows, q \in journal : q.sequence < r.sequence
  BY <1>1 DEF TxOK, RowsOK, RowsSeen, Transactions, StreamInv, StreamTypeOK
<1>4. IsAChain(journal') /\ journal' \in SUBSET JournalRows
  BY <1>2, <1>3 DEF RowsSeen, IsAChain
<1>5. runs' \in [Events -> Nat] /\ \A e \in Events :
         IF e \in tx[w].ran THEN e \in tx[w].locks /\ runs[e] = 0 /\ runs'[e] = 1 ELSE runs'[e] = runs[e]
  <2>1. runs' = [e \in Events |-> IF e \in tx[w].ran THEN runs[e] + 1 ELSE runs[e]]
    BY DEF Conclude
  <2>2. runs \in [Events -> Nat] /\ RanOK(w)
    BY <1>1 DEF StreamInv, StreamTypeOK, TxOK
  <2>3. \A e \in Events : e \in tx[w].ran => e \in tx[w].locks /\ runs[e] = 0
    BY <2>2 DEF RanOK
  <2> QED BY <2>1, <2>2, <2>3
<1>6. alerts' = alerts \cup tx[w].alerted
  BY DEF Conclude
<1>7. /\ cursor \in [Subscriptions -> Nat] /\ delivered \in [Subscriptions -> Seq(SUBSET Nat)]
      /\ tx[w].upto \in Nat /\ tx[w].polled \in SUBSET Nat
  BY <1>1 DEF StreamInv, StreamTypeOK, Transactions
<1>8. /\ cursor' = [s \in Subscriptions |->
                       IF s \in tx[w].locks /\ tx[w].polled # {} THEN tx[w].upto ELSE cursor[s]]
      /\ delivered' = [s \in Subscriptions |->
                       IF s \in tx[w].locks /\ tx[w].polled # {} THEN Append(delivered[s], tx[w].polled)
                       ELSE delivered[s]]
  BY DEF Conclude
<1>9. cursor' \in [Subscriptions -> Nat] /\ delivered' \in [Subscriptions -> Seq(SUBSET Nat)]
  <2>1. \A s \in Subscriptions : Append(delivered[s], tx[w].polled) \in Seq(SUBSET Nat)
    BY <1>7
  <2> QED BY <1>7, <1>8, <2>1
<1>10. ASSUME NEW s \in Subscriptions
       PROVE  /\ \/ /\ s \in tx[w].locks /\ tx[w].polled # {} /\ tx[w].rows = {} /\ PolledFrom(w, s)
                    /\ cursor'[s] = tx[w].upto /\ delivered'[s] = Append(delivered[s], tx[w].polled)
                 \/ cursor'[s] = cursor[s] /\ delivered'[s] = delivered[s]
              /\ s \notin tx[w].locks => cursor'[s] = cursor[s]
  <2>1. PolledOK(w)
    BY <1>1 DEF TxOK
  <2>2. CASE s \in tx[w].locks /\ tx[w].polled # {}
    BY <1>8, <2>1, <2>2 DEF PolledOK
  <2>3. CASE ~(s \in tx[w].locks /\ tx[w].polled # {})
    BY <1>8, <2>3
  <2> QED BY <2>2, <2>3
<1> QED BY <1>1, <1>2, <1>3, <1>4, <1>5, <1>6, <1>9, <1>10

\* Every row is after the cursors, that were not in the journal before.
LEMMA NewRowsAreAhead ==
  ASSUME StreamInv, NEW w \in Workers, Conclude(w), NEW s \in Subscriptions, NEW r \in tx[w].rows
  PROVE  cursor[s] < r.sequence /\ \A n \in 1 .. Len(delivered[s]) : r.sequence \notin delivered[s][n]
<1>1. r.sequence \in Nat \ {0} /\ \A q \in journal : q.sequence < r.sequence
  BY Committed DEF Transactions, JournalRows
<1>2. CursorOK(s) /\ cursor[s] \in Nat
  BY DEF StreamInv, StreamTypeOK
<1>3. cursor[s] < r.sequence
  BY <1>1, <1>2 DEF CursorOK
<1>4. \A n \in 1 .. Len(delivered[s]) : r.sequence \notin delivered[s][n]
  BY <1>1, <1>2, <1>3 DEF CursorOK
<1> QED BY <1>3, <1>4

LEMMA ReactionsCommitted ==
  ASSUME StreamInv, NEW w \in Workers, Conclude(w)
  PROVE  ReactedOnce'
<1>1. SUFFICES ASSUME NEW e \in Events, runs'[e] > 0
               PROVE  /\ runs'[e] = 1 /\ \E r \in journal' : r.event = e
                      /\ \E a \in alerts' : SubjectOf[a] = SubjectOf[e]
  BY DEF ReactedOnce
<1>2. CASE e \in tx[w].ran
  <2>1. RanOK(w)
    BY Committed DEF TxOK
  <2>2. IsPublished(w, e) /\ \E a \in alerts \cup tx[w].alerted : SubjectOf[a] = SubjectOf[e]
    BY <1>2, <2>1 DEF RanOK
  <2> QED BY <1>2, <2>2, Committed DEF IsPublished, RowsSeen
<1>3. CASE e \notin tx[w].ran
  <2>1. runs'[e] = runs[e]
    BY <1>3, Committed
  <2>2. runs[e] = 1 /\ (\E r \in journal : r.event = e) /\ \E a \in alerts : SubjectOf[a] = SubjectOf[e]
    BY <1>1, <2>1 DEF StreamInv, SignalsFollowTheJournal, ReactedOnce
  <2> QED BY <2>1, <2>2, Committed
<1> QED BY <1>2, <1>3

LEMMA DeliveryCommitted ==
  ASSUME StreamInv, NEW w \in Workers, Conclude(w), NEW s \in Subscriptions
  PROVE  DeliveredInOrder(s)' /\ CursorOK(s)'
<1> USE Committed
<1>1. /\ DeliveredInOrder(s) /\ CursorOK(s) /\ cursor[s] \in Nat /\ delivered[s] \in Seq(SUBSET Nat)
      /\ journal \in SUBSET JournalRows
  BY DEF StreamInv, StreamTypeOK, SignalsFollowTheJournal
<1>2. \A r \in journal : runs[r.event] = 1 => runs'[r.event] = 1
  BY <1>1 DEF JournalRows
<1>3. CASE cursor'[s] = cursor[s] /\ delivered'[s] = delivered[s]
  <2>1. DeliveredInOrder(s)'
    <3>1. \A m, n \in DOMAIN delivered'[s] : m < n => \A i \in delivered'[s][m], j \in delivered'[s][n] : i < j
      BY <1>1, <1>3 DEF DeliveredInOrder
    <3>2. ASSUME NEW r \in journal', r.event \in Wanted[s]
          PROVE  r.sequence <= cursor'[s] <=> \E n \in DOMAIN delivered'[s] : r.sequence \in delivered'[s][n]
      <4>1. CASE r \in journal
        BY <1>1, <1>3, <3>2, <4>1 DEF DeliveredInOrder
      <4>2. CASE r \in tx[w].rows
        <5>1. cursor[s] < r.sequence /\ \A n \in 1 .. Len(delivered[s]) : r.sequence \notin delivered[s][n]
          BY <4>2, NewRowsAreAhead
        <5>2. r.sequence \in Nat /\ DOMAIN delivered[s] = 1 .. Len(delivered[s])
          BY <1>1, <4>2 DEF Transactions, JournalRows
        <5> QED BY <1>1, <1>3, <5>1, <5>2
      <4> QED BY <3>2, <4>1, <4>2
    <3>3. ASSUME s = "agent", NEW r \in journal', r.sequence <= cursor'[s] PROVE runs'[r.event] = 1
      <4>1. CASE r \in journal
        BY <1>1, <1>2, <1>3, <3>3, <4>1 DEF DeliveredInOrder
      <4>2. CASE r \in tx[w].rows
        <5>1. cursor[s] < r.sequence /\ r.sequence \in Nat
          BY <4>2, NewRowsAreAhead DEF Transactions, JournalRows
        <5> QED BY <1>1, <1>3, <3>3, <5>1
      <4> QED BY <3>3, <4>1, <4>2
    <3> QED BY <3>1, <3>2, <3>3 DEF DeliveredInOrder
  <2>2. CursorOK(s)'
    BY <1>1, <1>3 DEF CursorOK
  <2> QED BY <2>1, <2>2
<1>4. CASE /\ s \in tx[w].locks /\ tx[w].polled # {} /\ tx[w].rows = {} /\ PolledFrom(w, s)
           /\ cursor'[s] = tx[w].upto /\ delivered'[s] = Append(delivered[s], tx[w].polled)
  <2> DEFINE polled == tx[w].polled
             upto == tx[w].upto
             k == Len(delivered[s])
  <2>1. /\ journal' = journal /\ polled \in SUBSET Nat /\ upto \in Nat /\ k \in Nat
        /\ \A i \in polled : cursor[s] < i /\ i <= upto
        /\ \A r \in journal : r.event \in Wanted[s] =>
              (r.sequence \in polled <=> cursor[s] < r.sequence /\ r.sequence <= upto)
        /\ \E r \in journal : r.sequence = upto
        /\ s = "agent" => \A r \in journal : cursor[s] < r.sequence /\ r.sequence <= upto => runs[r.event] = 1
    BY <1>1, <1>4 DEF PolledFrom, Transactions
  <2>2. cursor[s] < upto
    BY <1>1, <1>4, <2>1
  <2>3. /\ DOMAIN delivered'[s] = 1 .. k + 1 /\ delivered'[s][k + 1] = polled /\ DOMAIN delivered[s] = 1 .. k
        /\ \A n \in 1 .. k : delivered'[s][n] = delivered[s][n]
        /\ Len(delivered'[s]) = k + 1
    BY <1>1, <1>4, <2>1
  <2> HIDE DEF polled, upto, k
  <2>4. \A n \in 1 .. k : \A i \in delivered[s][n] : i \in Nat /\ i <= cursor[s]
    BY <1>1 DEF CursorOK, k
  <2>5. DeliveredInOrder(s)'
    <3>1. ASSUME NEW m \in 1 .. k + 1, NEW n \in 1 .. k + 1, m < n,
                 NEW i \in delivered'[s][m], NEW j \in delivered'[s][n]
          PROVE  i < j
      <4>1. m \in 1 .. k /\ delivered'[s][m] = delivered[s][m]
        BY <2>1, <2>3, <3>1
      <4>2. CASE n = k + 1
        <5>1. i \in Nat /\ i <= cursor[s]
          BY <2>4, <3>1, <4>1
        <5>2. j \in Nat /\ cursor[s] < j
          BY <2>1, <2>3, <3>1, <4>2
        <5> QED BY <1>1, <5>1, <5>2
      <4>3. CASE n \in 1 .. k
        BY <1>1, <2>3, <3>1, <4>1, <4>3 DEF DeliveredInOrder
      <4> QED BY <2>1, <4>2, <4>3
    <3>2. ASSUME NEW r \in journal, r.event \in Wanted[s]
          PROVE  r.sequence <= upto <=> \E n \in 1 .. k + 1 : r.sequence \in delivered'[s][n]
      <4>1. r.sequence \in Nat
        BY <1>1 DEF JournalRows
      <4>2. r.sequence <= cursor[s] <=> \E n \in 1 .. k : r.sequence \in delivered'[s][n]
        BY <1>1, <2>3, <3>2 DEF DeliveredInOrder
      <4>3. cursor[s] < r.sequence /\ r.sequence <= upto <=> r.sequence \in delivered'[s][k + 1]
        BY <2>1, <2>3, <3>2
      <4>4. \A n \in 1 .. k + 1 : n \in 1 .. k \/ n = k + 1
        BY <2>1
      <4>5. k + 1 \in 1 .. k + 1 /\ \A n \in 1 .. k : n \in 1 .. k + 1
        BY <2>1
      <4> QED BY <1>1, <2>1, <2>2, <4>1, <4>2, <4>3, <4>4, <4>5
    <3>3. ASSUME s = "agent", NEW r \in journal, r.sequence <= upto PROVE runs'[r.event] = 1
      <4>1. r.sequence \in Nat /\ (r.sequence <= cursor[s] => runs[r.event] = 1)
        BY <1>1, <3>3 DEF JournalRows, DeliveredInOrder
      <4> QED BY <1>1, <1>2, <2>1, <3>3, <4>1
    <3>4. cursor'[s] = upto
      BY <1>4 DEF upto
    <3> QED BY <2>1, <2>3, <3>1, <3>2, <3>3, <3>4 DEF DeliveredInOrder
  <2>6. CursorOK(s)'
    <3>1. cursor'[s] = upto
      BY <1>4 DEF upto
    <3>2. ASSUME NEW n \in 1 .. k + 1, NEW i \in delivered'[s][n] PROVE i <= upto
      <4>1. CASE n = k + 1
        BY <2>1, <2>3, <3>2, <4>1
      <4>2. CASE n \in 1 .. k
        <5>1. i \in Nat /\ i <= cursor[s]
          BY <2>3, <2>4, <3>2, <4>2
        <5> QED BY <1>1, <2>1, <2>2, <5>1
      <4> QED BY <2>1, <4>1, <4>2
    <3> QED BY <2>1, <2>3, <3>1, <3>2 DEF CursorOK
  <2> QED BY <2>5, <2>6
<1> QED BY <1>3, <1>4

\* What the others are at stays right: they hold other locks.
LEMMA OthersCommitted ==
  ASSUME StreamInv, NEW w \in Workers, Conclude(w), NEW v \in Workers, v # w
  PROVE  TxOK(v)'
<1> USE Committed
<1>1. tx'[v] = tx[v] /\ tx[v].locks \cap tx[w].locks = {} /\ TxOK(v) /\ tx[v] \in Transactions
  BY DEF Conclude, StreamInv, StreamTypeOK
<1>2. \A e : IsPublished(v, e) => IsPublished(v, e)'
  BY <1>1 DEF IsPublished, RowsSeen
<1>3. RowsOK(v)'
  <2>1. RowsOK(v) /\ RowsOK(w)
    BY <1>1 DEF TxOK
  <2>2. CASE tx[v].rows = {}
    BY <1>1, <2>1, <2>2 DEF RowsOK, RowsSeen, IsAChain
  <2>3. CASE tx[v].rows # {}
    <3>1. tx[w].rows = {} /\ journal' = journal
      BY <1>1, <2>1, <2>3 DEF RowsOK
    <3>2. RowsSeen(v)' = RowsSeen(v)
      BY <1>1, <3>1 DEF RowsSeen
    <3> QED BY <1>1, <2>1, <3>1, <3>2 DEF RowsOK, IsAChain
  <2> QED BY <2>2, <2>3
<1>4. RanOK(v)'
  <2>1. ASSUME NEW e \in tx[v].ran
        PROVE  /\ e \in tx[v].locks /\ runs'[e] = 0 /\ IsPublished(v, e)'
               /\ \E a \in alerts' \cup tx[v].alerted : SubjectOf[a] = SubjectOf[e]
    <3>1. /\ e \in tx[v].locks /\ runs[e] = 0 /\ IsPublished(v, e) /\ e \in Events
          /\ \E a \in alerts \cup tx[v].alerted : SubjectOf[a] = SubjectOf[e]
      BY <1>1 DEF TxOK, RanOK, Transactions
    <3>2. runs'[e] = runs[e]
      BY <1>1, <3>1
    <3> QED BY <1>2, <3>1, <3>2
  <2> QED BY <1>1, <2>1 DEF RanOK
<1>5. TodoOK(v)'
  BY <1>1, <1>2 DEF TxOK, TodoOK
<1>6. ASSUME NEW s \in Subscriptions, s \in tx[v].locks PROVE PolledFrom(v, s)'
  <2>1. PolledFrom(v, s) /\ cursor'[s] = cursor[s]
    BY <1>1, <1>6 DEF TxOK, PolledOK
  <2>2. SUFFICES ASSUME tx[v].polled # {} PROVE PolledFrom(v, s)'
    BY <1>1 DEF PolledFrom
  <2>3. /\ \A i \in tx[v].polled : cursor[s] < i /\ i <= tx[v].upto
        /\ \A r \in journal :
              r.event \in Wanted[s] =>
                 (r.sequence \in tx[v].polled <=> cursor[s] < r.sequence /\ r.sequence <= tx[v].upto)
        /\ \E r \in journal : r.sequence = tx[v].upto
        /\ s = "agent" => \A r \in journal :
              cursor[s] < r.sequence /\ r.sequence <= tx[v].upto => runs[r.event] = 1
    BY <2>1, <2>2 DEF PolledFrom
  <2>4. ASSUME NEW r \in tx[w].rows PROVE ~(r.sequence <= tx[v].upto) /\ r.sequence \notin tx[v].polled
    <3>1. r.sequence \in Nat /\ tx[v].upto \in Nat /\ tx[v].upto < r.sequence
      BY <1>1, <2>3 DEF Transactions, JournalRows
    <3> QED BY <2>3, <3>1
  <2>5. \A r \in journal : runs[r.event] = 1 => runs'[r.event] = 1
    BY DEF StreamInv, StreamTypeOK, JournalRows
  <2>6. \A r \in journal' : r \in journal \/ r \in tx[w].rows
    OBVIOUS
  <2>7. \A r \in journal' : r.event \in Wanted[s] =>
           (r.sequence \in tx[v].polled <=> cursor[s] < r.sequence /\ r.sequence <= tx[v].upto)
    BY <2>3, <2>4, <2>6
  <2>8. s = "agent" => \A r \in journal' :
           cursor[s] < r.sequence /\ r.sequence <= tx[v].upto => runs'[r.event] = 1
    BY <2>3, <2>4, <2>5, <2>6
  <2> QED BY <1>1, <2>1, <2>3, <2>7, <2>8 DEF PolledFrom
<1>7. PolledOK(v)'
  BY <1>1, <1>6 DEF TxOK, PolledOK
<1> QED BY <1>3, <1>4, <1>5, <1>7 DEF TxOK

LEMMA Commits ==
  ASSUME StreamInv, NEW w \in Workers, Conclude(w)
  PROVE  StreamInv'
<1> DEFINE t == Rest(w, tx[w].todo)
<1>1. tx[w] \in Transactions /\ tx[w].todo \in Seq(Steps)
  BY Committed DEF Transactions
<1>2. /\ t \in Transactions /\ t.locks = {} /\ t.rows = {} /\ t.ran = {} /\ t.polled = {}
      /\ \A n \in 1 .. Len(t.todo) : t.todo[n].do = "dispatch" /\ \E r \in journal : r.event = t.todo[n].on
  BY <1>1, RestOK
<1>3. tx' = [tx EXCEPT ![w] = t]
  BY DEF Conclude
<1> HIDE DEF t
<1>4. tx'[w] = t /\ \A v \in Workers : v # w => tx'[v] = tx[v]
  BY <1>3 DEF StreamInv, StreamTypeOK
<1>5. StreamTypeOK'
  <2>1. StreamTypeOK
    BY DEF StreamInv
  <2>2. tx' \in [Workers -> Transactions]
    BY <1>2, <1>3, <2>1 DEF StreamTypeOK
  <2>3. \A u, v \in Workers : u # v => tx'[u].locks \cap tx'[v].locks = {}
    BY <1>2, <1>4, <2>1 DEF StreamTypeOK
  <2>4. alerts' \subseteq Events
    BY <1>1, <2>1, Committed DEF StreamTypeOK, Transactions
  <2> QED BY <2>2, <2>3, <2>4, Committed DEF StreamTypeOK
<1>6. SignalsFollowTheJournal' /\ \A s \in Subscriptions : CursorOK(s)'
  BY Committed, ReactionsCommitted, DeliveryCommitted DEF SignalsFollowTheJournal, IsAChain
<1>7. TxOK(w)'
  BY <1>2, <1>4, Committed, OverOK
<1>8. \A v \in Workers : TxOK(v)'
  BY <1>7, OthersCommitted
<1> QED BY <1>5, <1>6, <1>8 DEF StreamInv

-----------------------------------------------------------------------------
LEMMA Advances ==
  ASSUME StreamInv, NEW w \in Workers, Advance(w)
  PROVE  StreamInv'
<1>1. CASE \E sequence \in 1 .. MaxTasks, previous \in Events \cup {NoEvent} :
              AppendExternal(w, sequence, previous)
  BY <1>1, AppendExternalKeeps
<1>2. CASE Publish(w) \/ FindPublished(w)
  BY <1>2, PublishKeeps, FindPublishedKeeps
<1>3. CASE Dispatch(w) \/ FindDispatched(w)
  BY <1>3, DispatchKeeps, FindDispatchedKeeps
<1>4. CASE (\E last \in journal : Poll(w, last)) \/ PollNothing(w)
  BY <1>4, PollKeeps, PollNothingKeeps
<1>5. CASE Conclude(w)
  BY <1>5, Commits
<1>6. CASE Undo(w) \/ Crash(w)
  BY <1>6, RollsBack
<1> QED BY <1>1, <1>2, <1>3, <1>4, <1>5, <1>6 DEF Advance

LEMMA NothingMoves ==
  ASSUME StreamInv, UNCHANGED streamVars
  PROVE  StreamInv'
<1>1. StreamTypeOK' /\ SignalsFollowTheJournal' /\ \A s \in Subscriptions : CursorOK(s)'
  BY DEF StreamInv, StreamTypeOK, SignalsFollowTheJournal, IsAChain, ReactedOnce, DeliveredInOrder,
         CursorOK, streamVars
<1>2. ASSUME NEW w \in Workers PROVE TxOK(w)'
  <2>1. TxOK(w) /\ RowsSeen(w)' = RowsSeen(w) /\ \A e : IsPublished(w, e)' <=> IsPublished(w, e)
    BY DEF StreamInv, RowsSeen, IsPublished, streamVars
  <2>2. RowsOK(w)' /\ RanOK(w)'
    BY <2>1 DEF TxOK, RowsOK, RanOK, IsAChain, streamVars
  <2>3. TodoOK(w)' /\ PolledOK(w)'
    BY <2>1 DEF TxOK, TodoOK, PolledOK, PolledFrom, streamVars
  <2> QED BY <2>2, <2>3 DEF TxOK
<1> QED BY <1>1, <1>2 DEF StreamInv

(* Any number of requests and drains at the same time, with any of them    *)
(* failing at any step: the journal is one chain, and what reacts to it    *)
(* and reads it does so once and in its order.                             *)
THEOREM SignalsAlwaysFollow == StreamSpec => []SignalsFollowTheJournal
<1>1. StreamInit => StreamInv
  BY StartsIn
<1>2. StreamInv /\ [StreamNext]_streamVars => StreamInv'
  BY Accepted, Advances, NothingMoves DEF StreamNext
<1>3. StreamInv => SignalsFollowTheJournal
  BY DEF StreamInv
<1> QED BY <1>1, <1>2, <1>3, PTL DEF StreamSpec
=============================================================================

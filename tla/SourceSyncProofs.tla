---------------------------- MODULE SourceSyncProofs ----------------------------
(***************************************************************************)
(* Proofs about SourceSync, for every set of files, contents and           *)
(* transactions, every choice of callers, user operations and failures,    *)
(* and every bound.                                                        *)
(***************************************************************************)
EXTENDS SourceSync, DataLemmas

-----------------------------------------------------------------------------
(* The inductive invariant, as named parts.                                *)

(* The worker alone calls the synchronization; nothing it reads is refused. *)
WorkerAlone == Kinds \subseteq {"worker"}

FailuresAlone == WorkerAlone /\ Poison = {}

(* One version of the synchronization is in use, not both. *)
OneVersion == WorkerAlone \/ "worker" \notin Kinds

(* No batch of the dispatcher goes on after half of an import. *)
NoHalfImports == "upload" \notin Failures \/ "batch" \notin Kinds

Op == [op : {"sync"}, file : Watches]
          \cup [op : {"adopt", "drop"}, file : {f \in Files : "delta" \in Kinds}]

TxFields == {"kind", "stage", "todo", "at", "first", "more", "held", "content", "same", "seen",
             "writes", "locks", "results"}

Result == {"changed", "unchanged", "failed"}

DocRow == [sha : Contents \cup {NoContent}, current : BOOLEAN, version : Nat,
           objects : Nat, snapshots : SUBSET Nat, artifacts : Seq(Contents),
           live : SUBSET Nat]

NoTwice(a) == \A i \in 1..(Len(a) - 1) : a[i] # a[i + 1]

(* What is stored is what was registered last. *)
ImportOK(doc) ==
    IF doc.sha = NoContent
    THEN doc.artifacts = <<>> /\ doc.live = {} /\ doc.version = 0 /\ doc.snapshots = {}
    ELSE doc.artifacts # <<>> /\ doc.artifacts[Len(doc.artifacts)] = doc.sha /\ doc.version > 0

DocOK(doc) ==
    /\ doc \in DocRow
    /\ ImportOK(doc)
    /\ NoTwice(doc.artifacts)
    /\ doc.live \subseteq 1..Len(doc.artifacts)
    /\ doc.snapshots \subseteq 0..doc.version
    /\ NoHalfImports /\ doc.sha # NoContent => doc.live = {Len(doc.artifacts)}
    /\ OneVersion => 1..(doc.version - 1) \subseteq doc.snapshots
    /\ WorkerAlone => 1..doc.version \subseteq doc.snapshots

WatchOK(row) ==
    /\ row \in WatchRow
    /\ WorkerAlone /\ row.status = "fresh" => row.alerts \subseteq {"source_recovered"}

RowOK(r, value) ==
    /\ r = Conn => value \in ConnRow
    /\ \A w \in Watches : r = Watch(w) => WatchOK(value)
    /\ \A f \in Files : r = Doc(f) => DocOK(value)

(* A transaction `x' over the committed `rows'. *)
Read(x, rows, r) == IF r \in DOMAIN x.writes THEN x.writes[r] ELSE rows[r]

(* It checks a file: from the lock on the watch to the end of the check. *)
Checking(x) ==
    \/ x.stage \in {"authorize", "fetch", "store"}
    \/ x.stage = "refresh" /\ x.todo # <<>>

IsTx(x) ==
    /\ DOMAIN x = TxFields
    /\ x.stage \in {"idle", "next", "authorize", "refresh", "fetch", "store", "page"}
    /\ x.stage # "idle" => x.kind \in Kinds
    /\ x.stage = "page" \/ x.more => x.kind = "delta"
    /\ x.stage = "refresh" /\ x.todo = <<>> => x.kind = "delta"
    /\ x.todo \in Seq(Op)
    /\ x.at \in 0..MaxChanges
    /\ x.first \in BOOLEAN /\ x.more \in BOOLEAN
    /\ x.held \in ConnRow
    /\ x.content \in Contents \cup {NoContent}
    /\ x.seen \in 0..MaxChanges
    /\ x.locks \subseteq Rows
    /\ DOMAIN x.results \subseteq Watches
    /\ \A w \in DOMAIN x.results : x.results[w] \in Result

(* What it checks it has locked, and what it has written. *)
LocksOK(x) ==
    /\ DOMAIN x.writes \subseteq x.locks
    /\ x.stage = "idle" => x.locks = {}
    /\ Checking(x) => x.todo # <<>> /\ Watch(Head(x.todo).file) \in x.locks
    /\ x.stage = "store" => Head(x.todo).file \in Files /\ x.content \in Contents

WritesOK(x) == \A r \in DOMAIN x.writes : RowOK(r, x.writes[r])

(* What it compared is still so when it stores; without the lock on a watch  *)
(* it leaves the content of its document as it is.                          *)
ReadOK(x, rows) ==
    /\ x.stage = "store" =>
          x.same = (Read(x, rows, Doc(Head(x.todo).file)).sha = x.content)
    /\ \A f \in Files :
          Doc(f) \in DOMAIN x.writes /\ Watch(f) \notin x.locks =>
              x.writes[Doc(f)].sha = rows[Doc(f)].sha

Failed(row) == row.run = "failed" /\ row.status \notin {"fresh", "stale"}

(* A failed check has been written, with nothing written over it. *)
NotedOK(x) ==
    FailuresAlone =>
        \A w \in Watches :
            /\ w \in DOMAIN x.results <=> Watch(w) \in DOMAIN x.writes
            /\ w \in DOMAIN x.results /\ x.results[w] = "failed" =>
                  Failed(x.writes[Watch(w)])

TxOK(x, rows) ==
    IsTx(x) /\ LocksOK(x) /\ WritesOK(x) /\ ReadOK(x, rows) /\ NotedOK(x)

ProviderOK ==
    /\ remote \in [Files -> Contents \cup {NoContent}]
    /\ feed \in Seq([file : Files, deleted : BOOLEAN])
    /\ Len(feed) <= MaxChanges
    /\ skipped \subseteq 1..Len(feed)

RowsOK(rows) == DOMAIN rows = Rows /\ \A r \in Rows : RowOK(r, rows[r])

Apart == \A t, u \in Txs : t # u => tx[t].locks \cap tx[u].locks = {}

OutcomeOK ==
    /\ outcome \in [Watches -> Result \cup {"none"}]
    /\ FailuresAlone => \A w \in Watches : outcome[w] = "failed" => Failed(db[Watch(w)])

SourceInv ==
    /\ ProviderOK /\ RowsOK(db)
    /\ DOMAIN tx = Txs /\ \A t \in Txs : TxOK(tx[t], db)
    /\ Apart /\ OutcomeOK

-----------------------------------------------------------------------------
(* Rows and sequences                                                      *)

LEMMA RowNames ==
    /\ \A v, w : Watch(v) = Watch(w) => v = w
    /\ \A f, g : Doc(f) = Doc(g) => f = g
    /\ \A v, f : Watch(v) # Doc(f) /\ Watch(v) # Conn /\ Doc(f) # Conn
BY DEF Watch, Doc, Conn

LEMMA RowSets ==
    /\ Conn \in Rows
    /\ \A w \in Watches : Watch(w) \in Rows
    /\ \A f \in Files : Doc(f) \in Rows /\ f \in Watches
    /\ Folder \in Watches
    /\ \A r \in Rows : \/ r = Conn
                      \/ \E w \in Watches : r = Watch(w)
                      \/ \E f \in Files : r = Doc(f)
BY DEF Rows, Watches

LEMMA OnlyRow ==
    \A r, value : DOMAIN Only(r, value) = {r} /\ Only(r, value)[r] = value
BY DEF Only

LEMMA OverRows ==
    \A new, old :
        /\ DOMAIN (new ++ old) = DOMAIN new \cup DOMAIN old
        /\ \A r \in DOMAIN new : (new ++ old)[r] = new[r]
        /\ \A r \in DOMAIN old \ DOMAIN new : (new ++ old)[r] = old[r]
BY DEF ++

LEMMA NoRows == DOMAIN <<>> = {}
OBVIOUS

(* What is right of the rows of W and of those written before is right of    *)
(* both together.                                                           *)
LEMMA RowsOver ==
    ASSUME NEW new, NEW old,
           \A r \in DOMAIN new : RowOK(r, new[r]),
           \A r \in DOMAIN old \ DOMAIN new : RowOK(r, old[r])
    PROVE  \A r \in DOMAIN (new ++ old) : RowOK(r, (new ++ old)[r])
<1> SUFFICES ASSUME NEW r \in DOMAIN (new ++ old) PROVE RowOK(r, (new ++ old)[r])
  OBVIOUS
<1>1. CASE r \in DOMAIN new
  <2>1. (new ++ old)[r] = new[r]
    BY <1>1, OverRows
  <2> QED
    BY <2>1, <1>1
<1>2. CASE r \notin DOMAIN new
  <2>1. r \in DOMAIN old \ DOMAIN new
    BY <1>2, OverRows
  <2>2. (new ++ old)[r] = old[r]
    BY <2>1, OverRows
  <2> QED
    BY <2>1, <2>2
<1> QED
  BY <1>1, <1>2

LEMMA RowKinds ==
    ASSUME NEW value
    PROVE  /\ RowOK(Conn, value) <=> value \in ConnRow
           /\ \A w \in Watches : RowOK(Watch(w), value) <=> WatchOK(value)
           /\ \A f \in Files : RowOK(Doc(f), value) <=> DocOK(value)
BY RowNames, Zenon DEF RowOK

-----------------------------------------------------------------------------
(* What is written to a watch                                              *)

LEMMA NewWatches ==
    /\ WatchOK(NoWatch)
    /\ \A row : WatchOK(row) => WatchOK(Watched(row)) /\ WatchOK(StaleMarked(row))
<1>1. WatchOK(NoWatch)
  BY SourceSyncAssumption DEF WatchOK, WatchRow, NoWatch
<1>2. ASSUME NEW row, WatchOK(row) PROVE WatchOK(Watched(row))
  BY <1>2 DEF WatchOK, WatchRow, Watched
<1>3. ASSUME NEW row, WatchOK(row) PROVE WatchOK(StaleMarked(row))
  BY <1>3 DEF WatchOK, WatchRow, StaleMarked
<1> QED
  BY <1>1, <1>2, <1>3

LEMMA FailedWatch ==
    ASSUME NEW row, WatchOK(row), NEW S \in SUBSET {"sync_failed", "reauth_required"}
    PROVE  LET new == [row EXCEPT !.status = "error", !.due = FALSE, !.run = "failed"]
               told == [new EXCEPT !.alerts = @ \cup S] IN
           WatchOK(new) /\ Failed(new) /\ WatchOK(told) /\ Failed(told)
BY DEF WatchOK, WatchRow, Failed

LEMMA ResolvedAlerts ==
    ASSUME NEW alerts \in SUBSET {"source_stale", "sync_failed", "reauth_required",
                                  "source_recovered"}
    PROVE  Resolved(alerts) \subseteq {"source_recovered"}
BY DEF Resolved

LEMMA FreshWatch ==
    ASSUME NEW t, NEW run \in {"changed", "unchanged"}, IsTx(tx[t]), tx[t].stage = "store",
           WatchOK(Row(t, Watch(HeadFile(t))))
    PROVE  WatchOK(Fresh(t, run))
<1> DEFINE row == Row(t, Watch(HeadFile(t)))
           new == [row EXCEPT !.status = "fresh", !.due = FALSE, !.late = FALSE,
                              !.run = run, !.asOf = tx[t].seen]
<1>1. row \in WatchRow /\ tx[t].seen \in 0..MaxChanges /\ tx[t].kind \in Kinds
  BY DEF WatchOK, IsTx
<1> HIDE DEF row
<1>2. new \in WatchRow
  BY <1>1 DEF WatchRow
<1>3. new.alerts = row.alerts
  BY <1>1 DEF WatchRow
<1>4. Resolved(row.alerts) \subseteq {"source_recovered"}
  BY <1>1, ResolvedAlerts DEF WatchRow
<1>5. CASE V1(t)
  <2>1. Fresh(t, run) = [new EXCEPT !.alerts = Resolved(row.alerts)]
    BY <1>5, <1>3, Zenon DEF Fresh, row
  <2>2. [new EXCEPT !.alerts = Resolved(row.alerts)] \in WatchRow
    BY <1>2, <1>4 DEF WatchRow
  <2>3. [new EXCEPT !.alerts = Resolved(row.alerts)].alerts = Resolved(row.alerts)
    BY <1>2 DEF WatchRow
  <2> QED
    BY <2>1, <2>2, <2>3, <1>4 DEF WatchOK
<1>6. CASE ~V1(t)
  <2>1. Fresh(t, run) = new
    BY <1>6, Zenon DEF Fresh, row
  <2>2. ~WorkerAlone
    BY <1>6, <1>1 DEF V1, WorkerAlone
  <2> QED
    BY <2>1, <2>2, <1>2 DEF WatchOK
<1> QED
  BY <1>5, <1>6

-----------------------------------------------------------------------------
(* What is written to a document                                           *)

LEMMA NewDocument == DocOK(NoDoc)
BY DEF DocOK, DocRow, NoDoc, ImportOK, NoTwice

LEMMA DroppedDocument ==
    ASSUME NEW doc, DocOK(doc)
    PROVE  DocOK([doc EXCEPT !.current = FALSE]) /\ [doc EXCEPT !.current = FALSE].sha = doc.sha
BY DEF DocOK, DocRow, ImportOK

LEMMA DocumentFields ==
    ASSUME NEW doc, DocOK(doc)
    PROVE  /\ doc.version \in Nat /\ doc.objects \in Nat /\ doc.snapshots \in SUBSET Nat
           /\ doc.live \in SUBSET Nat /\ doc.artifacts \in Seq(Contents)
           /\ doc.current \in BOOLEAN /\ doc.sha \in Contents \cup {NoContent}
           /\ DOMAIN doc = {"sha", "current", "version", "objects", "snapshots",
                            "artifacts", "live"}
BY DEF DocOK, DocRow

(* The new version of the object, whichever caller made it. *)
LEMMA AdvancedFields ==
    ASSUME NEW t, NEW doc, DocOK(doc), tx[t].kind \in Kinds, NEW new, new = Advanced(t, doc)
    PROVE  /\ new \in DocRow
           /\ new.sha = doc.sha /\ new.current = doc.current /\ new.artifacts = doc.artifacts
           /\ new.version = doc.version + 1
           /\ new.snapshots \subseteq 0..new.version
           /\ new.live = IF doc.sha # NoContent /\ ~V1(t) THEN {} ELSE doc.live
           /\ OneVersion => 1..doc.version \subseteq new.snapshots
           /\ WorkerAlone => 1..new.version \subseteq new.snapshots
<1>1. WorkerAlone => V1(t)
  BY DEF WorkerAlone, V1
<1>2. OneVersion => WorkerAlone \/ ~V1(t)
  BY DEF OneVersion, V1
<1>3. /\ doc \in DocRow /\ doc.version \in Nat /\ doc.objects \in Nat
      /\ doc.snapshots \in SUBSET Nat /\ doc.snapshots \subseteq 0..doc.version
      /\ doc.version + 1 \in Nat /\ doc.objects + 1 \in Nat
  BY DocumentFields DEF DocOK
<1>4. CASE doc.sha = NoContent
  <2>1. new = [doc EXCEPT !.objects = doc.objects + 1, !.version = 1, !.snapshots = {1}]
    BY <1>4 DEF Advanced
  <2>2. doc.version = 0
    BY <1>4 DEF DocOK, ImportOK
  <2>3. {1} \in SUBSET Nat /\ 1 \in Nat
    OBVIOUS
  <2>4. new \in DocRow /\ new.sha = doc.sha /\ new.current = doc.current
        /\ new.artifacts = doc.artifacts /\ new.version = 1 /\ new.snapshots = {1}
        /\ new.live = doc.live
    <3> DEFINE v == 1
               s == {1}
               o == doc.objects + 1
    <3>1. new = [doc EXCEPT !.objects = o, !.version = v, !.snapshots = s]
      BY <2>1
    <3>2. v \in Nat /\ s \in SUBSET Nat /\ o \in Nat
      BY <1>3, <2>3
    <3> HIDE DEF v, s, o
    <3>3. new \in DocRow
      BY <3>1, <3>2, <1>3 DEF DocRow
    <3>4. new.sha = doc.sha /\ new.current = doc.current
          /\ new.artifacts = doc.artifacts /\ new.version = v /\ new.snapshots = s
          /\ new.live = doc.live
      BY <3>1, <1>3 DEF DocRow
    <3> QED
      BY <3>3, <3>4 DEF v, s, o
  <2>5. 1..doc.version = {} /\ 1..new.version = {1} /\ {1} \subseteq 0..new.version
    BY <2>2, <2>4
  <2> QED
    BY <2>2, <2>4, <2>5, <1>4
<1>5. CASE doc.sha # NoContent /\ V1(t)
  <2>1. new = [doc EXCEPT !.version = doc.version + 1,
                          !.snapshots = doc.snapshots \cup {doc.version + 1}]
    BY <1>5 DEF Advanced
  <2>2. doc.snapshots \cup {doc.version + 1} \in SUBSET Nat
    BY <1>3
  <2>3. new \in DocRow /\ new.sha = doc.sha /\ new.current = doc.current
        /\ new.artifacts = doc.artifacts /\ new.version = doc.version + 1
        /\ new.snapshots = doc.snapshots \cup {doc.version + 1}
        /\ new.live = doc.live
    <3> DEFINE v == doc.version + 1
               s == doc.snapshots \cup {doc.version + 1}
    <3>1. new = [doc EXCEPT !.version = v, !.snapshots = s]
      BY <2>1
    <3>2. v \in Nat /\ s \in SUBSET Nat
      BY <1>3, <2>2
    <3> HIDE DEF v, s
    <3>3. new \in DocRow
      BY <3>1, <3>2, <1>3 DEF DocRow
    <3>4. new.sha = doc.sha /\ new.current = doc.current
          /\ new.artifacts = doc.artifacts /\ new.version = v
          /\ new.snapshots = s
          /\ new.live = doc.live
      BY <3>1, <1>3 DEF DocRow
    <3> QED
      BY <3>3, <3>4 DEF v, s
  <2>4. WorkerAlone => 1..doc.version \subseteq doc.snapshots
    BY DEF DocOK
  <2>5. new.snapshots \subseteq 0..new.version
    BY <2>3, <1>3
  <2>6. WorkerAlone => 1..new.version \subseteq new.snapshots
    BY <2>3, <2>4, <1>3
  <2>7. OneVersion => 1..doc.version \subseteq new.snapshots
    BY <2>3, <2>4, <1>2, <1>5
  <2> QED
    BY <2>3, <2>5, <2>6, <2>7, <1>5, Zenon
<1>6. CASE doc.sha # NoContent /\ ~V1(t)
  <2>1. new = [doc EXCEPT !.version = doc.version + 1,
                          !.snapshots = doc.snapshots \cup {doc.version}, !.live = {}]
    BY <1>6 DEF Advanced
  <2>2. doc.snapshots \cup {doc.version} \in SUBSET Nat /\ {} \in SUBSET Nat
    BY <1>3
  <2>3. new \in DocRow /\ new.sha = doc.sha /\ new.current = doc.current
        /\ new.artifacts = doc.artifacts /\ new.version = doc.version + 1
        /\ new.snapshots = doc.snapshots \cup {doc.version}
        /\ new.live = {}
    <3> DEFINE v == doc.version + 1
               s == doc.snapshots \cup {doc.version}
               l == {}
    <3>1. new = [doc EXCEPT !.version = v, !.snapshots = s, !.live = l]
      BY <2>1
    <3>2. v \in Nat /\ s \in SUBSET Nat /\ l \in SUBSET Nat
      BY <1>3, <2>2
    <3> HIDE DEF v, s, l
    <3>3. new \in DocRow
      BY <3>1, <3>2, <1>3 DEF DocRow
    <3>4. new.sha = doc.sha /\ new.current = doc.current
          /\ new.artifacts = doc.artifacts /\ new.version = v
          /\ new.snapshots = s
          /\ new.live = l
      BY <3>1, <1>3 DEF DocRow
    <3> QED
      BY <3>3, <3>4 DEF v, s, l
  <2>4. OneVersion => 1..(doc.version - 1) \subseteq doc.snapshots
    BY DEF DocOK
  <2>5. new.snapshots \subseteq 0..new.version
    BY <2>3, <1>3
  <2>6. OneVersion => 1..doc.version \subseteq new.snapshots
    BY <2>3, <2>4, <1>3
  <2> QED
    BY <2>3, <2>5, <2>6, <1>1, <1>6, Zenon
<1> QED
  BY <1>4, <1>5, <1>6

LEMMA AppendedContent ==
    ASSUME NEW a \in Seq(Contents), NEW c \in Contents, NoTwice(a),
           a # <<>> => a[Len(a)] # c
    PROVE  LET b == Append(a, c) IN
           b \in Seq(Contents) /\ Len(b) = Len(a) + 1 /\ b[Len(b)] = c /\ b # <<>> /\ NoTwice(b)
<1> DEFINE b == Append(a, c)
<1>1. b \in Seq(Contents) /\ Len(b) = Len(a) + 1 /\ b[Len(a) + 1] = c /\ Len(a) \in Nat
      /\ \A i \in 1..Len(a) : b[i] = a[i]
  OBVIOUS
<1>2. ASSUME NEW i \in 1..(Len(b) - 1) PROVE b[i] # b[i + 1]
  <2>1. i \in 1..Len(a) /\ b[i] = a[i] /\ a # <<>>
    BY <1>1
  <2>2. CASE i = Len(a)
    BY <2>1, <2>2, <1>1
  <2>3. CASE i # Len(a)
    <3>1. i \in 1..(Len(a) - 1) /\ i + 1 \in 1..Len(a)
      BY <2>1, <2>3, <1>1
    <3> QED
      BY <3>1, <2>1, <1>1 DEF NoTwice
  <2> QED
    BY <2>2, <2>3
<1> HIDE DEF b
<1>3. b # <<>> /\ NoTwice(b)
  BY <1>1, <1>2 DEF NoTwice
<1> QED
  BY <1>1, <1>3 DEF b

(* What is imported because it differs from what was stored. *)
LEMMA ImportedDocument ==
    ASSUME NEW t, NEW doc, DocOK(doc), tx[t].kind \in Kinds, tx[t].content \in Contents,
           doc.sha # tx[t].content
    PROVE  DocOK(Imported(t, doc)) /\ Imported(t, doc).sha = tx[t].content
<1> DEFINE n == Len(doc.artifacts) + 1
           new == Advanced(t, doc)
           c == tx[t].content
           a == Append(doc.artifacts, c)
           l == IF V1(t) THEN {n} ELSE new.live \cup {n}
           u == new.current \/ doc.sha = NoContent \/ ~V1(t)
           out == Imported(t, doc)
<1>1. /\ doc.artifacts \in Seq(Contents) /\ NoTwice(doc.artifacts) /\ n \in Nat
      /\ doc.artifacts # <<>> => doc.artifacts[Len(doc.artifacts)] # c
      /\ doc.current \in BOOLEAN
      /\ doc.version \in Nat
      /\ doc.sha = NoContent => doc.live = {}
  BY DocumentFields DEF DocOK, ImportOK
<1>2. a \in Seq(Contents) /\ Len(a) = n /\ a[Len(a)] = c /\ a # <<>> /\ NoTwice(a)
  BY <1>1, AppendedContent
<1>3. /\ new \in DocRow
      /\ new.current = doc.current /\ new.artifacts = doc.artifacts
      /\ new.version = doc.version + 1
      /\ new.snapshots \subseteq 0..new.version
      /\ new.live = IF doc.sha # NoContent /\ ~V1(t) THEN {} ELSE doc.live
      /\ OneVersion => 1..doc.version \subseteq new.snapshots
      /\ WorkerAlone => 1..new.version \subseteq new.snapshots
  BY AdvancedFields
<1>4. l = {n} /\ l \in SUBSET Nat
  <2>1. ~V1(t) => new.live = {}
    BY <1>3, <1>1
  <2> HIDE DEF new
  <2> QED
    BY <2>1, <1>1
<1>5. u \in BOOLEAN
  OBVIOUS
<1>6. out = [new EXCEPT !.sha = c, !.artifacts = a, !.live = l, !.current = u]
  <2>1. out = [new EXCEPT !.sha = c, !.artifacts = Append(new.artifacts, c), !.live = l,
                          !.current = u]
    BY Zenon DEF Imported
  <2> QED
    BY <2>1, <1>3, Zenon
<1>7. c \in Contents \cup {NoContent} /\ c # NoContent
  BY SourceSyncAssumption
<1> HIDE DEF new, c, a, l, u, out
<1>8. out \in DocRow
  BY <1>2, <1>3, <1>4, <1>5, <1>6, <1>7 DEF DocRow
<1>9. /\ out.sha = c /\ out.artifacts = a /\ out.live = l /\ out.version = new.version
      /\ out.snapshots = new.snapshots
  BY <1>3, <1>6 DEF DocRow
<1>10. ImportOK(out)
  BY <1>1, <1>2, <1>3, <1>7, <1>9 DEF ImportOK
<1>11. out.live \subseteq 1..Len(out.artifacts) /\ out.live = {Len(out.artifacts)}
  BY <1>9, <1>4, <1>2, <1>1
<1>12. OneVersion => 1..(out.version - 1) \subseteq out.snapshots
  BY <1>9, <1>3, <1>1
<1> QED
  <2>1. DocOK(out) /\ out.sha = c
    BY <1>8, <1>9, <1>10, <1>11, <1>12, <1>2, <1>3 DEF DocOK
  <2> QED
    BY <2>1 DEF out, c

(* What a failed upload leaves behind, where it is left behind. *)
LEMMA HalfImportedDocument ==
    ASSUME NEW t, NEW doc, DocOK(doc), tx[t].kind \in Kinds, "upload" \in Failures,
           V1(t) \/ tx[t].kind = "batch"
    PROVE  LET left == IF doc.sha = NoContent THEN [doc EXCEPT !.objects = @ + 1]
                       ELSE Advanced(t, doc) IN
           DocOK(left) /\ left.sha = doc.sha
<1> DEFINE left == IF doc.sha = NoContent THEN [doc EXCEPT !.objects = @ + 1]
                   ELSE Advanced(t, doc)
<1>1. CASE doc.sha = NoContent
  <2> DEFINE o == doc.objects + 1
  <2>1. left = [doc EXCEPT !.objects = o]
    BY <1>1
  <2>2. o \in Nat /\ doc \in DocRow
    BY DocumentFields DEF DocOK
  <2> HIDE DEF o, left
  <2>3. left \in DocRow
    BY <2>1, <2>2 DEF DocRow
  <2>4. /\ left.sha = doc.sha /\ left.artifacts = doc.artifacts /\ left.live = doc.live
        /\ left.version = doc.version /\ left.snapshots = doc.snapshots
    BY <2>1, <2>2 DEF DocRow
  <2> QED
    <3>1. DocOK(left)
      BY <2>3, <2>4, Zenon DEF DocOK, ImportOK
    <3> QED
      BY <3>1, <2>4 DEF left
<1>2. CASE doc.sha # NoContent
  <2>1. left = Advanced(t, doc)
    BY <1>2
  <2> HIDE DEF left
  <2>2. /\ left \in DocRow
        /\ left.sha = doc.sha /\ left.artifacts = doc.artifacts
        /\ left.version = doc.version + 1
        /\ left.snapshots \subseteq 0..left.version
        /\ left.live = IF doc.sha # NoContent /\ ~V1(t) THEN {} ELSE doc.live
        /\ OneVersion => 1..doc.version \subseteq left.snapshots
        /\ WorkerAlone => 1..left.version \subseteq left.snapshots
    BY <2>1, AdvancedFields
  <2>3. doc.version \in Nat
    BY DocumentFields
  <2>4. ImportOK(left)
    BY <2>2, <2>3, <1>2 DEF ImportOK, DocOK
  <2>5. NoHalfImports => V1(t)
    BY DEF NoHalfImports
  <2>6. left.live \subseteq 1..Len(left.artifacts)
    BY <2>2, <1>2 DEF DocOK
  <2>7. NoHalfImports => left.live = {Len(left.artifacts)}
    BY <2>2, <2>5, <1>2 DEF DocOK
  <2>8. OneVersion => 1..(left.version - 1) \subseteq left.snapshots
    BY <2>2, <2>3
  <2> QED
    <3>1. NoTwice(left.artifacts)
      BY <2>2, Zenon DEF DocOK
    <3>2. DocOK(left)
      BY <2>2, <2>4, <2>6, <2>7, <2>8, <3>1, Zenon DEF DocOK
    <3> QED
      BY <3>2, <2>2 DEF left
<1> QED
  BY <1>1, <1>2

-----------------------------------------------------------------------------
(* What is written to the connection                                       *)

LEMMA ConnectionRows ==
    ASSUME NEW conn, conn \in ConnRow
    PROVE  /\ [conn EXCEPT !.status = "reauth_required"] \in ConnRow
           /\ [conn EXCEPT !.status = "connected"] \in ConnRow
           /\ [conn EXCEPT !.status = "disconnected", !.token = "none"] \in ConnRow
           /\ [conn EXCEPT !.status = "connected", !.token = "live"] \in ConnRow
           /\ [conn EXCEPT !.token = "expired"] \in ConnRow
           /\ [conn EXCEPT !.token = "live"] \in ConnRow
           /\ [conn EXCEPT !.token = "live", !.status = "connected"] \in ConnRow
<1>1. [conn EXCEPT !.status = "reauth_required"] \in ConnRow
  BY DEF ConnRow
<1>2. [conn EXCEPT !.status = "connected"] \in ConnRow
  BY DEF ConnRow
<1>3. [conn EXCEPT !.status = "disconnected", !.token = "none"] \in ConnRow
  BY DEF ConnRow
<1>4. [conn EXCEPT !.status = "connected", !.token = "live"] \in ConnRow
  BY DEF ConnRow
<1>5. [conn EXCEPT !.token = "expired"] \in ConnRow
  BY DEF ConnRow
<1>6. [conn EXCEPT !.token = "live"] \in ConnRow
  BY DEF ConnRow
<1>7. [conn EXCEPT !.token = "live", !.status = "connected"] \in ConnRow
  BY DEF ConnRow
<1> QED
  BY <1>1, <1>2, <1>3, <1>4, <1>5, <1>6, <1>7, Zenon

LEMMA ConnectionCursor ==
    ASSUME NEW conn, conn \in ConnRow, NEW n, n \in 0..MaxChanges
    PROVE  [conn EXCEPT !.begun = TRUE, !.cursor = n] \in ConnRow
BY DEF ConnRow

LEMMA ConnectedRow == Connected \in ConnRow
BY SourceSyncAssumption DEF Connected, ConnRow

-----------------------------------------------------------------------------
(* Transactions                                                            *)

(* What a transaction reads has its type. *)
LEMMA RowIsOK ==
    ASSUME SourceInv, NEW t \in Txs
    PROVE  /\ \A r \in Rows : RowOK(r, Row(t, r))
           /\ Row(t, Conn) \in ConnRow
           /\ \A w \in Watches : WatchOK(Row(t, Watch(w)))
           /\ \A f \in Files : DocOK(Row(t, Doc(f)))
<1>1. WritesOK(tx[t]) /\ RowsOK(db)
  BY DEF SourceInv, TxOK
<1>2. ASSUME NEW r \in Rows PROVE RowOK(r, Row(t, r))
  BY <1>1, <1>2 DEF WritesOK, RowsOK, Row
<1> QED
  BY <1>2, RowKinds, RowSets, Zenon

LEMMA IdleIsOK == \A rows : TxOK(Idle, rows)
<1>1. DOMAIN Idle = TxFields
  BY DEF Idle, TxFields
<1>2. /\ Idle.kind = "none" /\ Idle.stage = "idle" /\ Idle.todo = <<>> /\ Idle.at = 0
      /\ Idle.first = FALSE /\ Idle.more = FALSE /\ Idle.held = Connected /\ Idle.content = NoContent
      /\ Idle.same = FALSE /\ Idle.seen = 0 /\ Idle.writes = <<>> /\ Idle.locks = {}
      /\ Idle.results = <<>>
  BY DEF Idle
<1>3. IsTx(Idle)
  <2>1. Idle.todo \in Seq(Op) /\ Idle.at \in 0..MaxChanges /\ Idle.seen \in 0..MaxChanges
    BY <1>2, SourceSyncAssumption
  <2>2. DOMAIN Idle.results = {} /\ Idle.first \in BOOLEAN /\ Idle.more \in BOOLEAN /\ Idle.held \in ConnRow
    BY <1>2, ConnectedRow, NoRows
  <2> QED
    BY <1>1, <1>2, <2>1, <2>2, Zenon DEF IsTx
<1>4. LocksOK(Idle) /\ WritesOK(Idle) /\ NotedOK(Idle)
  BY <1>2, NoRows DEF LocksOK, WritesOK, NotedOK, Checking
<1>5. \A rows : ReadOK(Idle, rows)
  BY <1>2, NoRows DEF ReadOK
<1> QED
  BY <1>3, <1>4, <1>5 DEF TxOK

(* A transaction does not see the others write, where it has what it read or *)
(* the watch of it locked.                                                  *)
LEMMA OthersChangeRows ==
    ASSUME NEW x, NEW old, NEW new, TxOK(x, old),
           \A f \in Files : Doc(f) \in x.locks \/ Watch(f) \in x.locks =>
                                new[Doc(f)].sha = old[Doc(f)].sha
    PROVE  TxOK(x, new)
<1>1. IsTx(x) /\ LocksOK(x) /\ WritesOK(x) /\ ReadOK(x, old) /\ NotedOK(x)
  BY DEF TxOK
<1>2. ASSUME x.stage = "store"
      PROVE  x.same = (Read(x, new, Doc(Head(x.todo).file)).sha = x.content)
  <2> DEFINE f == Head(x.todo).file
  <2>1. f \in Files /\ Watch(f) \in x.locks
    BY <1>1, <1>2 DEF LocksOK, Checking
  <2>2. new[Doc(f)].sha = old[Doc(f)].sha
    BY <2>1
  <2>3. Read(x, new, Doc(f)).sha = Read(x, old, Doc(f)).sha
    BY <2>2, Zenon DEF Read
  <2>4. x.same = (Read(x, old, Doc(f)).sha = x.content)
    BY <1>1, <1>2, Zenon DEF ReadOK
  <2> QED
    BY <2>3, <2>4, Zenon
<1>3. ASSUME NEW f \in Files, Doc(f) \in DOMAIN x.writes, Watch(f) \notin x.locks
      PROVE  x.writes[Doc(f)].sha = new[Doc(f)].sha
  <2>1. Doc(f) \in x.locks
    BY <1>1, <1>3 DEF LocksOK
  <2>2. x.writes[Doc(f)].sha = old[Doc(f)].sha
    BY <1>1, <1>3 DEF ReadOK
  <2> QED
    BY <2>1, <2>2
<1>4. ReadOK(x, new)
  BY <1>2, <1>3, Zenon DEF ReadOK
<1> QED
  BY <1>1, <1>4 DEF TxOK

(* A step of one transaction that ends nothing. *)
LEMMA OneMoves ==
    ASSUME SourceInv, NEW t \in Txs, NEW x, tx' = [tx EXCEPT ![t] = x], TxOK(x, db),
           \A u \in Txs \ {t} : x.locks \cap tx[u].locks = {},
           UNCHANGED <<provider, db, outcome>>
    PROVE  SourceInv'
<1>1. DOMAIN tx = Txs
  BY DEF SourceInv
<1>2. DOMAIN tx' = Txs /\ tx'[t] = x /\ \A u \in Txs : u # t => tx'[u] = tx[u]
  BY <1>1
<1>3. remote' = remote /\ feed' = feed /\ skipped' = skipped /\ db' = db /\ outcome' = outcome
  BY DEF provider
<1>4. ProviderOK' /\ RowsOK(db)' /\ OutcomeOK'
  BY <1>3 DEF SourceInv, ProviderOK, RowsOK, OutcomeOK
<1>5. ASSUME NEW u \in Txs PROVE TxOK(tx'[u], db')
  BY <1>2, <1>3 DEF SourceInv
<1>6. ASSUME NEW u \in Txs, NEW v \in Txs, u # v PROVE tx'[u].locks \cap tx'[v].locks = {}
  <2>1. tx[u].locks \cap tx[v].locks = {}
    BY <1>6 DEF SourceInv, Apart
  <2> QED
    BY <2>1, <1>2, <1>6
<1> QED
  BY <1>2, <1>4, <1>5, <1>6 DEF SourceInv, Apart

(* The rows a step needs are nobody else's while it is not blocked. *)
LEMMA WantedRows ==
    ASSUME SourceInv, NEW t \in Txs, BlockedBy(t) = {}, NEW locks,
           locks \subseteq tx[t].locks \cup Wants(t)
    PROVE  \A u \in Txs \ {t} : locks \cap tx[u].locks = {}
<1>1. \A u \in Txs \ {t} : Wants(t) \cap tx[u].locks = {}
  BY Zenon DEF BlockedBy
<1>2. \A u \in Txs \ {t} : tx[t].locks \cap tx[u].locks = {}
  BY DEF SourceInv, Apart
<1> QED
  BY <1>1, <1>2

LEMMA OwnRows ==
    ASSUME SourceInv, NEW t \in Txs
    PROVE  \A u \in Txs \ {t} : tx[t].locks \cap tx[u].locks = {}
BY DEF SourceInv, Apart

(* A step that writes nothing. *)
LEMMA NothingWritten ==
    ASSUME NEW x, NEW y, NEW rows, TxOK(x, rows), IsTx(y), LocksOK(y),
           y.writes = x.writes, y.results = x.results, x.locks \subseteq y.locks,
           y.stage = "store" => y.same = (Read(y, rows, Doc(Head(y.todo).file)).sha = y.content)
    PROVE  TxOK(y, rows)
<1>1. WritesOK(x) /\ ReadOK(x, rows) /\ NotedOK(x)
  BY DEF TxOK
<1>2. WritesOK(y)
  BY <1>1, Zenon DEF WritesOK
<1>3. NotedOK(y)
  BY <1>1, Zenon DEF NotedOK
<1>4. \A f \in Files :
          Doc(f) \in DOMAIN y.writes /\ Watch(f) \notin y.locks =>
              y.writes[Doc(f)].sha = rows[Doc(f)].sha
  BY <1>1 DEF ReadOK
<1>5. ReadOK(y, rows)
  BY <1>4, Zenon DEF ReadOK
<1> QED
  BY <1>2, <1>3, <1>5 DEF TxOK

(* A step that writes the rows of W. *)
LEMMA RowsWritten ==
    ASSUME SourceInv, NEW t \in Txs, NEW W, NEW y, IsTx(y), NotedOK(y),
           y.writes = W ++ tx[t].writes, y.locks = tx[t].locks \cup DOMAIN W,
           y.stage \notin {"idle", "store"},
           Checking(y) => y.todo # <<>> /\ Watch(Head(y.todo).file) \in y.locks,
           \A r \in DOMAIN W : RowOK(r, W[r]),
           \A f \in Files : Doc(f) \in DOMAIN W /\ Watch(f) \notin tx[t].locks =>
                                W[Doc(f)].sha = Row(t, Doc(f)).sha
    PROVE  TxOK(y, db)
<1>1. LocksOK(tx[t]) /\ WritesOK(tx[t]) /\ ReadOK(tx[t], db)
  BY DEF SourceInv, TxOK
<1>2. WritesOK(y)
  BY <1>1, RowsOver, Zenon DEF WritesOK
<1>3. DOMAIN y.writes = DOMAIN W \cup DOMAIN tx[t].writes
  <2>1. DOMAIN (W ++ tx[t].writes) = DOMAIN W \cup DOMAIN tx[t].writes
    BY OverRows, Zenon
  <2> QED
    BY <2>1
<1>4. LocksOK(y)
  BY <1>1, <1>3 DEF LocksOK
<1>5. ASSUME NEW f \in Files, Doc(f) \in DOMAIN y.writes, Watch(f) \notin y.locks
      PROVE  y.writes[Doc(f)].sha = db[Doc(f)].sha
  <2>1. Watch(f) \notin tx[t].locks
    BY <1>5
  <2>2. Row(t, Doc(f)).sha = db[Doc(f)].sha
    BY <2>1, <1>1 DEF ReadOK, Row
  <2>3. CASE Doc(f) \in DOMAIN W
    <3>1. y.writes[Doc(f)] = W[Doc(f)]
      BY <2>3, OverRows
    <3> QED
      BY <3>1, <2>1, <2>2, <2>3
  <2>4. CASE Doc(f) \notin DOMAIN W
    <3>1. Doc(f) \in DOMAIN tx[t].writes
      BY <2>4, <1>3, <1>5
    <3>2. y.writes[Doc(f)] = tx[t].writes[Doc(f)]
      BY <2>4, <3>1, OverRows
    <3> QED
      BY <3>1, <3>2, <2>1, <1>1 DEF ReadOK
  <2> QED
    BY <2>3, <2>4
<1>6. ReadOK(y, db)
  BY <1>5 DEF ReadOK
<1> QED
  BY <1>2, <1>4, <1>6 DEF TxOK

LEMMA HavingFields ==
    ASSUME NEW t, NEW W, DOMAIN tx[t] = TxFields
    PROVE  LET x == Having(t, W) IN
           /\ DOMAIN x = TxFields
           /\ x.writes = W ++ tx[t].writes /\ x.locks = tx[t].locks \cup DOMAIN W
           /\ x.kind = tx[t].kind /\ x.stage = tx[t].stage /\ x.todo = tx[t].todo
           /\ x.at = tx[t].at /\ x.first = tx[t].first /\ x.more = tx[t].more /\ x.held = tx[t].held
           /\ x.content = tx[t].content /\ x.same = tx[t].same /\ x.seen = tx[t].seen
           /\ x.results = tx[t].results
<1> DEFINE w == W ++ tx[t].writes
           l == tx[t].locks \cup DOMAIN W
<1>1. Having(t, W) = [tx[t] EXCEPT !.writes = w, !.locks = l]
  BY DEF Having
<1> HIDE DEF w, l
<1>2. LET x == [tx[t] EXCEPT !.writes = w, !.locks = l] IN
      /\ DOMAIN x = TxFields
      /\ x.writes = w /\ x.locks = l
      /\ x.kind = tx[t].kind /\ x.stage = tx[t].stage /\ x.todo = tx[t].todo
      /\ x.at = tx[t].at /\ x.first = tx[t].first /\ x.more = tx[t].more /\ x.held = tx[t].held
      /\ x.content = tx[t].content /\ x.same = tx[t].same /\ x.seen = tx[t].seen
      /\ x.results = tx[t].results
  BY DEF TxFields
<1> QED
  BY <1>1, <1>2, Zenon DEF w, l

-----------------------------------------------------------------------------
(* The end of a check                                                      *)

LEMMA CheckedFields ==
    ASSUME NEW t, NEW W, NEW result, DOMAIN tx[t] = TxFields
    PROVE  LET x == Checked(t, W, result) IN
           /\ DOMAIN x = TxFields
           /\ x.writes = W ++ tx[t].writes /\ x.locks = tx[t].locks \cup DOMAIN W
           /\ x.kind = tx[t].kind /\ x.stage = "next" /\ x.todo = Tail(tx[t].todo)
           /\ x.at = tx[t].at /\ x.first = tx[t].first /\ x.more = tx[t].more /\ x.held = Connected
           /\ x.content = NoContent /\ x.same = FALSE /\ x.seen = 0
           /\ x.results = Only(HeadFile(t), result) ++ tx[t].results
<1> DEFINE y == Having(t, W)
           todo == Tail(y.todo)
           results == Only(HeadFile(t), result) ++ y.results
           x == Checked(t, W, result)
<1>1. /\ DOMAIN y = TxFields
      /\ y.writes = W ++ tx[t].writes /\ y.locks = tx[t].locks \cup DOMAIN W
      /\ y.kind = tx[t].kind /\ y.todo = tx[t].todo
      /\ y.at = tx[t].at /\ y.first = tx[t].first /\ y.more = tx[t].more /\ y.results = tx[t].results
  BY HavingFields
<1>2. x = [y EXCEPT !.stage = "next", !.todo = todo, !.held = Connected,
                    !.content = NoContent, !.same = FALSE, !.seen = 0, !.results = results]
  BY DEF Checked
<1> HIDE DEF y, todo, results, x
<1>3. /\ DOMAIN x = TxFields
      /\ x.writes = y.writes /\ x.locks = y.locks /\ x.kind = y.kind /\ x.stage = "next"
      /\ x.todo = todo /\ x.at = y.at /\ x.first = y.first /\ x.more = y.more /\ x.held = Connected
      /\ x.content = NoContent /\ x.same = FALSE /\ x.seen = 0 /\ x.results = results
  BY <1>1, <1>2 DEF TxFields
<1>4. todo = Tail(tx[t].todo) /\ results = Only(HeadFile(t), result) ++ tx[t].results
  BY <1>1, Zenon DEF todo, results
<1> QED
  BY <1>1, <1>3, <1>4, Zenon DEF x

(* A step that only ends the check of a file, with the rows it writes. *)
LEMMA CheckEnds ==
    ASSUME SourceInv, NEW t \in Txs, Checking(tx[t]),
           NEW W, NEW result, result \in Result,
           DOMAIN W \subseteq Rows, Watch(HeadFile(t)) \in DOMAIN W,
           \A r \in DOMAIN W : RowOK(r, W[r]),
           \A f \in Files : Doc(f) \in DOMAIN W => f = HeadFile(t),
           \A w \in Watches : Watch(w) \in DOMAIN W => w = HeadFile(t),
           FailuresAlone /\ result = "failed" => Failed(W[Watch(HeadFile(t))])
    PROVE  TxOK(Checked(t, W, result), db)
           /\ Checked(t, W, result).locks = tx[t].locks \cup DOMAIN W
<1> DEFINE x == Checked(t, W, result)
           w0 == HeadFile(t)
<1>1. TxOK(tx[t], db) /\ IsTx(tx[t]) /\ LocksOK(tx[t]) /\ NotedOK(tx[t])
  BY DEF SourceInv, TxOK
<1>2. /\ DOMAIN x = TxFields
      /\ x.writes = W ++ tx[t].writes /\ x.locks = tx[t].locks \cup DOMAIN W
      /\ x.kind = tx[t].kind /\ x.stage = "next" /\ x.todo = Tail(tx[t].todo)
      /\ x.at = tx[t].at /\ x.first = tx[t].first /\ x.more = tx[t].more /\ x.held = Connected
      /\ x.content = NoContent /\ x.same = FALSE /\ x.seen = 0
      /\ x.results = Only(w0, result) ++ tx[t].results
  BY <1>1, CheckedFields DEF IsTx
<1>3. tx[t].todo # <<>> /\ Watch(w0) \in tx[t].locks
  BY <1>1 DEF LocksOK, HeadFile
<1>4. w0 \in Watches /\ Tail(tx[t].todo) \in Seq(Op)
  <2>1. tx[t].todo \in Seq(Op)
    BY <1>1 DEF IsTx
  <2>2. Head(tx[t].todo) \in Op /\ Tail(tx[t].todo) \in Seq(Op)
    BY <2>1, <1>3
  <2> QED
    BY <2>2 DEF Op, HeadFile, Watches
<1>5. DOMAIN x.results = {w0} \cup DOMAIN tx[t].results
      /\ \A w \in DOMAIN x.results :
            x.results[w] = IF w = w0 THEN result ELSE tx[t].results[w]
  <2>1. DOMAIN Only(w0, result) = {w0} /\ Only(w0, result)[w0] = result
    BY OnlyRow
  <2> DEFINE new == Only(w0, result)
             old == tx[t].results
  <2> HIDE DEF new, old
  <2>2. /\ DOMAIN (new ++ old) = DOMAIN new \cup DOMAIN old
        /\ \A r \in DOMAIN new : (new ++ old)[r] = new[r]
        /\ \A r \in DOMAIN old \ DOMAIN new : (new ++ old)[r] = old[r]
    <3>1. DOMAIN (new ++ old) = DOMAIN new \cup DOMAIN old
      BY OverRows
    <3>2. \A r \in DOMAIN new : (new ++ old)[r] = new[r]
      BY OverRows
    <3>3. \A r \in DOMAIN old \ DOMAIN new : (new ++ old)[r] = old[r]
      BY OverRows
    <3> QED
      BY <3>1, <3>2, <3>3
  <2>3. x.results = new ++ old
    BY <1>2, Zenon DEF new, old
  <2>4. DOMAIN new = {w0} /\ new[w0] = result
    BY <2>1, Zenon DEF new
  <2>5. /\ DOMAIN x.results = {w0} \cup DOMAIN old
        /\ \A w \in DOMAIN x.results : x.results[w] = IF w = w0 THEN result ELSE old[w]
    <3> HIDE DEF x, w0
    <3> QED
      BY <2>2, <2>3, <2>4
  <2> QED
    BY <2>5, Zenon DEF old
<1> HIDE DEF x, w0
<1>6. IsTx(x)
  <2>1. x.todo \in Seq(Op) /\ x.at \in 0..MaxChanges /\ x.first \in BOOLEAN /\ x.more \in BOOLEAN /\ x.held \in ConnRow
        /\ x.content \in Contents \cup {NoContent} /\ x.seen \in 0..MaxChanges
    BY <1>1, <1>2, <1>4, ConnectedRow, SourceSyncAssumption DEF IsTx
  <2>2. tx[t].stage # "idle"
    BY DEF Checking
  <2>3. x.kind \in Kinds /\ (x.more => x.kind = "delta")
    BY <1>1, <1>2, <2>2 DEF IsTx
  <2>4. x.locks \subseteq Rows
    BY <1>1, <1>2 DEF IsTx
  <2>5. DOMAIN x.results \subseteq Watches /\ \A w \in DOMAIN x.results : x.results[w] \in Result
    BY <1>1, <1>4, <1>5 DEF IsTx
  <2> QED
    BY <1>2, <2>1, <2>3, <2>4, <2>5 DEF IsTx
<1>7. NotedOK(x)
  <2> SUFFICES ASSUME FailuresAlone, NEW w \in Watches
               PROVE  /\ w \in DOMAIN x.results <=> Watch(w) \in DOMAIN x.writes
                      /\ w \in DOMAIN x.results /\ x.results[w] = "failed" =>
                            Failed(x.writes[Watch(w)])
    BY DEF NotedOK
  <2>1. /\ w \in DOMAIN tx[t].results <=> Watch(w) \in DOMAIN tx[t].writes
        /\ w \in DOMAIN tx[t].results /\ tx[t].results[w] = "failed" =>
              Failed(tx[t].writes[Watch(w)])
    BY <1>1 DEF NotedOK
  <2>2. /\ DOMAIN (W ++ tx[t].writes) = DOMAIN W \cup DOMAIN tx[t].writes
        /\ \A r \in DOMAIN W : (W ++ tx[t].writes)[r] = W[r]
        /\ \A r \in DOMAIN tx[t].writes \ DOMAIN W : (W ++ tx[t].writes)[r] = tx[t].writes[r]
    <3>1. DOMAIN (W ++ tx[t].writes) = DOMAIN W \cup DOMAIN tx[t].writes
      BY OverRows, Zenon
    <3>2. \A r \in DOMAIN W : (W ++ tx[t].writes)[r] = W[r]
      BY OverRows, Zenon
    <3>3. \A r \in DOMAIN tx[t].writes \ DOMAIN W : (W ++ tx[t].writes)[r] = tx[t].writes[r]
      BY OverRows
    <3> QED
      BY <3>1, <3>2, <3>3
  <2>3. CASE w = w0
    <3>1. Watch(w) \in DOMAIN W
      BY <2>3 DEF w0
    <3>2. x.writes[Watch(w)] = W[Watch(w)] /\ x.results[w] = result
      BY <3>1, <2>2, <2>3, <1>2, <1>5
    <3>3. FailuresAlone /\ result = "failed" => Failed(W[Watch(w)])
      BY <2>3, Zenon DEF w0
    <3> QED
      BY <3>1, <3>2, <3>3, <2>2, <2>3, <1>2, <1>5
  <2>4. CASE w # w0
    <3>1. Watch(w) \notin DOMAIN W
      BY <2>4 DEF w0
    <3>2. Watch(w) \in DOMAIN x.writes <=> Watch(w) \in DOMAIN tx[t].writes
      BY <3>1, <2>2, <1>2
    <3>3. Watch(w) \in DOMAIN tx[t].writes => x.writes[Watch(w)] = tx[t].writes[Watch(w)]
      BY <3>1, <2>2, <1>2
    <3>4. /\ w \in DOMAIN x.results <=> w \in DOMAIN tx[t].results
          /\ w \in DOMAIN x.results => x.results[w] = tx[t].results[w]
      BY <2>4, <1>5
    <3> QED
      BY <3>2, <3>3, <3>4, <2>1
  <2> QED
    BY <2>3, <2>4
<1>8. \A f \in Files : Doc(f) \in DOMAIN W /\ Watch(f) \notin tx[t].locks =>
                           W[Doc(f)].sha = Row(t, Doc(f)).sha
  BY <1>3 DEF w0
<1>9. ~Checking(x)
  BY <1>2 DEF Checking
<1>10. TxOK(x, db)
  BY <1>2, <1>6, <1>7, <1>8, <1>9, RowsWritten
<1> QED
  BY <1>2, <1>10 DEF x

-----------------------------------------------------------------------------
(* Rows written outside a transaction in `tx'                              *)

(* What the user and the clock make of the row of a watch. *)
LEMMA RewrittenWatch ==
    ASSUME NEW row, WatchOK(row)
    PROVE  /\ Failed(row) => Failed(Watched(row))
           /\ LET new == [row EXCEPT !.enabled = FALSE, !.status = "paused"] IN
              WatchOK(new) /\ (Failed(row) => Failed(new))
           /\ LET new == [row EXCEPT !.due = TRUE] IN
              WatchOK(new) /\ (Failed(row) => Failed(new))
           /\ LET new == [row EXCEPT !.late = TRUE] IN
              WatchOK(new) /\ (Failed(row) => Failed(new))
<1>1. Failed(row) => Failed(Watched(row))
  BY DEF WatchOK, WatchRow, Failed, Watched
<1>2. LET new == [row EXCEPT !.enabled = FALSE, !.status = "paused"] IN
      WatchOK(new) /\ (Failed(row) => Failed(new))
  BY DEF WatchOK, WatchRow, Failed
<1>3. LET new == [row EXCEPT !.due = TRUE] IN
      WatchOK(new) /\ (Failed(row) => Failed(new))
  BY DEF WatchOK, WatchRow, Failed
<1>4. LET new == [row EXCEPT !.late = TRUE] IN
      WatchOK(new) /\ (Failed(row) => Failed(new))
  BY DEF WatchOK, WatchRow, Failed
<1> QED
  BY <1>1, <1>2, <1>3, <1>4, Zenon

LEMMA EnabledWatch ==
    ASSUME NEW row, WatchOK(row), NEW value \in BOOLEAN, NEW due \in BOOLEAN,
           NEW status, status = IF ~value THEN "paused"
                                ELSE IF row.status = "paused" THEN "pending" ELSE row.status
    PROVE  LET new == [row EXCEPT !.enabled = value, !.due = due, !.status = status] IN
           WatchOK(new) /\ (Failed(row) => Failed(new))
<1> DEFINE new == [row EXCEPT !.enabled = value, !.due = due, !.status = status]
<1>1. row \in WatchRow
  BY DEF WatchOK
<1>2. status \in {"pending", "fresh", "stale", "error", "paused"}
  BY <1>1 DEF WatchRow
<1>3. status \in {"fresh", "stale"} => status = row.status
  OBVIOUS
<1>4. new \in WatchRow
  BY <1>1, <1>2 DEF WatchRow
<1>5. new.status = status /\ new.run = row.run /\ new.alerts = row.alerts
  BY <1>1 DEF WatchRow
<1> HIDE DEF new
<1>6. WatchOK(new) /\ (Failed(row) => Failed(new))
  BY <1>3, <1>4, <1>5, Zenon DEF WatchOK, Failed
<1> QED
  BY <1>6 DEF new

LEMMA RowsPut ==
    ASSUME NEW rows, RowsOK(rows), NEW W, DOMAIN W \subseteq Rows,
           \A r \in DOMAIN W : RowOK(r, W[r])
    PROVE  /\ RowsOK(W ++ rows)
           /\ \A r \in DOMAIN W : (W ++ rows)[r] = W[r]
           /\ \A r \in Rows \ DOMAIN W : (W ++ rows)[r] = rows[r]
<1>1. DOMAIN rows = Rows /\ \A r \in Rows : RowOK(r, rows[r])
  BY DEF RowsOK
<1>2. DOMAIN (W ++ rows) = DOMAIN W \cup DOMAIN rows
  BY OverRows, Zenon
<1>3. \A r \in DOMAIN (W ++ rows) : RowOK(r, (W ++ rows)[r])
  BY <1>1, RowsOver, Zenon
<1>4. \A r \in DOMAIN W : (W ++ rows)[r] = W[r]
  BY OverRows, Zenon
<1>5. \A r \in DOMAIN rows \ DOMAIN W : (W ++ rows)[r] = rows[r]
  BY OverRows
<1>6. DOMAIN (W ++ rows) = Rows
  BY <1>1, <1>2
<1>7. RowsOK(W ++ rows)
  BY <1>3, <1>6, Zenon DEF RowsOK
<1> QED
  BY <1>1, <1>4, <1>5, <1>7, Zenon

(* The content of no document changes, and no failure is forgotten. *)
LEMMA OthersWrite ==
    ASSUME SourceInv, RowsOK(db'), \A f \in Files : db'[Doc(f)] = db[Doc(f)],
           FailuresAlone => \A w \in Watches : Failed(db[Watch(w)]) => Failed(db'[Watch(w)]),
           UNCHANGED <<provider, tx, outcome>>
    PROVE  SourceInv'
<1>1. remote' = remote /\ feed' = feed /\ skipped' = skipped /\ tx' = tx /\ outcome' = outcome
  BY DEF provider
<1>2. ProviderOK' /\ Apart' /\ DOMAIN tx' = Txs
  BY <1>1 DEF SourceInv, ProviderOK, Apart
<1>3. OutcomeOK'
  BY <1>1 DEF SourceInv, OutcomeOK
<1>4. ASSUME NEW t \in Txs PROVE TxOK(tx[t], db')
  <2>1. TxOK(tx[t], db)
    BY DEF SourceInv
  <2>2. \A f \in Files : db'[Doc(f)].sha = db[Doc(f)].sha
    OBVIOUS
  <2> QED
    BY <2>1, <2>2, OthersChangeRows
<1>5. \A t \in Txs : TxOK(tx[t], db)'
  BY <1>1, <1>4
<1>6. RowsOK(db)'
  OBVIOUS
<1> QED
  BY <1>2, <1>3, <1>5, <1>6 DEF SourceInv

(* ... when the rows of W are written, all of them watches or the connection. *)
LEMMA UserWrites ==
    ASSUME SourceInv, NEW W, db' = W ++ db, DOMAIN W \subseteq Rows,
           \A r \in DOMAIN W : RowOK(r, W[r]),
           \A f \in Files : Doc(f) \notin DOMAIN W,
           \A w \in Watches : Watch(w) \in DOMAIN W /\ Failed(db[Watch(w)]) =>
                                  Failed(W[Watch(w)]),
           UNCHANGED <<provider, tx, outcome>>
    PROVE  SourceInv'
<1>1. RowsOK(db)
  BY DEF SourceInv
<1>2. /\ RowsOK(W ++ db)
      /\ \A r \in DOMAIN W : (W ++ db)[r] = W[r]
      /\ \A r \in Rows \ DOMAIN W : (W ++ db)[r] = db[r]
  BY <1>1, RowsPut
<1>3. RowsOK(db')
  BY <1>2, Zenon
<1>4. \A f \in Files : db'[Doc(f)] = db[Doc(f)]
  BY <1>2, RowSets
<1>5. \A w \in Watches : Failed(db[Watch(w)]) => Failed(db'[Watch(w)])
  <2> SUFFICES ASSUME NEW w \in Watches, Failed(db[Watch(w)]) PROVE Failed(db'[Watch(w)])
    OBVIOUS
  <2>1. CASE Watch(w) \in DOMAIN W
    <3>1. db'[Watch(w)] = W[Watch(w)]
      BY <2>1, <1>2
    <3> QED
      BY <3>1, <2>1
  <2>2. CASE Watch(w) \notin DOMAIN W
    <3>1. db'[Watch(w)] = db[Watch(w)]
      BY <2>2, <1>2, RowSets
    <3> QED
      BY <3>1
  <2> QED
    BY <2>1, <2>2
<1> QED
  BY <1>3, <1>4, <1>5, OthersWrite

(* ... and when one row is. *)
LEMMA OneRowWritten ==
    ASSUME SourceInv, NEW r \in Rows, NEW value, RowOK(r, value),
           db' = [db EXCEPT ![r] = value],
           \A f \in Files : r # Doc(f),
           \A w \in Watches : r = Watch(w) /\ Failed(db[Watch(w)]) => Failed(value),
           UNCHANGED <<provider, tx, outcome>>
    PROVE  SourceInv'
<1>1. DOMAIN db = Rows /\ \A q \in Rows : RowOK(q, db[q])
  BY DEF SourceInv, RowsOK
<1>2. DOMAIN db' = Rows /\ db'[r] = value /\ \A q \in Rows : q # r => db'[q] = db[q]
  BY <1>1
<1>3. RowsOK(db')
  BY <1>1, <1>2 DEF RowsOK
<1>4. \A f \in Files : db'[Doc(f)] = db[Doc(f)]
  BY <1>2, RowSets
<1>5. \A w \in Watches : Failed(db[Watch(w)]) => Failed(db'[Watch(w)])
  BY <1>2, RowSets
<1> QED
  BY <1>3, <1>4, <1>5, OthersWrite

-----------------------------------------------------------------------------
(* The provider, the clock and the user                                    *)

LEMMA EditStep ==
    ASSUME SourceInv, NEW f \in Files, NEW c \in Contents \cup {NoContent}, Edit(f, c)
    PROVE  SourceInv'
<1>1. remote' = [remote EXCEPT ![f] = c] /\ Len(feed) < MaxChanges
      /\ feed' = Append(feed, [file |-> f, deleted |-> c = NoContent])
      /\ skipped' = skipped /\ db' = db /\ tx' = tx /\ outcome' = outcome
  BY DEF Edit, ghosts
<1>2. ProviderOK'
  <2>1. [file |-> f, deleted |-> c = NoContent] \in [file : Files, deleted : BOOLEAN]
    OBVIOUS
  <2> QED
    BY <1>1, <2>1, SourceSyncAssumption DEF SourceInv, ProviderOK
<1>3. RowsOK(db)' /\ DOMAIN tx' = Txs /\ Apart' /\ OutcomeOK'
      /\ \A t \in Txs : TxOK(tx[t], db)'
  BY <1>1 DEF SourceInv, RowsOK, Apart, OutcomeOK
<1> QED
  BY <1>2, <1>3 DEF SourceInv

LEMMA TickStep ==
    ASSUME SourceInv, NEW f \in Files, Tick(f)
    PROVE  SourceInv'
<1> DEFINE row == db[Watch(f)]
<1>1. DOMAIN db = Rows /\ Watch(f) \in Rows /\ f \in Watches /\ WatchOK(row)
  BY RowSets, RowKinds DEF SourceInv, RowsOK
<1>2. UNCHANGED <<provider, tx, outcome>>
  BY DEF Tick, ghosts
<1>3. PICK value : /\ value \in {[row EXCEPT !.due = TRUE], [row EXCEPT !.late = TRUE]}
                   /\ db' = [db EXCEPT ![Watch(f)] = value]
  BY DEF Tick
<1>4. WatchOK(value) /\ (Failed(row) => Failed(value))
  BY <1>1, <1>3, RewrittenWatch, Zenon
<1>5. RowOK(Watch(f), value)
  BY <1>1, <1>4, RowKinds
<1> HIDE DEF row
<1>6. \A g \in Files : Watch(f) # Doc(g)
  BY RowNames
<1>7. \A w \in Watches : Watch(f) = Watch(w) /\ Failed(db[Watch(w)]) => Failed(value)
  BY <1>4 DEF row
<1> QED
  BY <1>1, <1>2, <1>3, <1>5, <1>6, <1>7, OneRowWritten

LEMMA TokenExpiresStep ==
    ASSUME SourceInv, TokenExpires
    PROVE  SourceInv'
<1> DEFINE value == [db[Conn] EXCEPT !.token = "expired"]
<1>1. db[Conn] \in ConnRow /\ Conn \in Rows
  BY RowSets, RowKinds DEF SourceInv, RowsOK
<1>2. RowOK(Conn, value)
  BY <1>1, ConnectionRows, RowKinds
<1>3. db' = [db EXCEPT ![Conn] = value] /\ UNCHANGED <<provider, tx, outcome>>
  BY DEF TokenExpires, ghosts
<1>4. /\ \A f \in Files : Conn # Doc(f)
      /\ \A w \in Watches : Conn = Watch(w) /\ Failed(db[Watch(w)]) => Failed(value)
  BY RowNames
<1> HIDE DEF value
<1> QED
  BY <1>1, <1>2, <1>3, <1>4, OneRowWritten

LEMMA ReconnectStep ==
    ASSUME SourceInv, Reconnect
    PROVE  SourceInv'
<1> DEFINE value == [db[Conn] EXCEPT !.status = "connected", !.token = "live"]
<1>1. db[Conn] \in ConnRow /\ Conn \in Rows /\ DOMAIN db = Rows
  BY RowSets, RowKinds DEF SourceInv, RowsOK
<1>2. RowOK(Conn, value)
  BY <1>1, ConnectionRows, RowKinds
<1>3. db' = [db EXCEPT ![Conn] = value] /\ UNCHANGED <<provider, tx, outcome>>
  BY <1>1 DEF Reconnect
<1>4. /\ \A f \in Files : Conn # Doc(f)
      /\ \A w \in Watches : Conn = Watch(w) /\ Failed(db[Watch(w)]) => Failed(value)
  BY RowNames
<1> HIDE DEF value
<1> QED
  BY <1>1, <1>2, <1>3, <1>4, OneRowWritten

LEMMA SetEnabledStep ==
    ASSUME SourceInv, NEW w \in Watches, NEW value \in BOOLEAN, SetEnabled(w, value)
    PROVE  SourceInv'
<1> DEFINE row == db[Watch(w)]
           due == row.due \/ value
           status == IF ~value THEN "paused"
                     ELSE IF row.status = "paused" THEN "pending" ELSE row.status
           new == [row EXCEPT !.enabled = value, !.due = due, !.status = status]
<1>1. Watch(w) \in Rows /\ WatchOK(row)
  BY RowSets, RowKinds DEF SourceInv, RowsOK
<1>2. db' = [db EXCEPT ![Watch(w)] = new] /\ UNCHANGED <<provider, tx, outcome>>
  BY DEF SetEnabled
<1>3. due \in BOOLEAN
  OBVIOUS
<1>4. WatchOK(new) /\ (Failed(row) => Failed(new))
  <2> HIDE DEF row, due
  <2> QED
    BY <1>1, <1>3, EnabledWatch
<1>5. RowOK(Watch(w), new)
  BY <1>4, RowKinds
<1>6. \A f \in Files : Watch(w) # Doc(f)
  BY RowNames
<1> HIDE DEF new
<1>7. \A v \in Watches : Watch(w) = Watch(v) /\ Failed(db[Watch(v)]) => Failed(new)
  BY <1>4
<1> QED
  BY <1>1, <1>2, <1>5, <1>6, <1>7, OneRowWritten

LEMMA WatchFolderStep ==
    ASSUME SourceInv, WatchFolder
    PROVE  SourceInv'
<1> DEFINE V == {Folder} \cup {f \in Files : remote[f] # NoContent}
           R == {Watch(w) : w \in V}
           W == [r \in R |-> Watched(db[r])]
<1>1. V \subseteq Watches
  BY DEF Watches
<1>2. db' = W ++ db /\ UNCHANGED <<provider, tx, outcome>>
  BY Zenon DEF WatchFolder
<1> HIDE DEF V
<1>3. DOMAIN W \subseteq Rows /\ \A f \in Files : Doc(f) \notin DOMAIN W
  BY <1>1, RowSets, RowNames
<1>4. \A w \in Watches : WatchOK(db[Watch(w)])
  BY RowSets, RowKinds DEF SourceInv, RowsOK
<1>5. \A r \in DOMAIN W : RowOK(r, W[r])
  <2> SUFFICES ASSUME NEW w \in V PROVE RowOK(Watch(w), Watched(db[Watch(w)]))
    OBVIOUS
  <2> QED
    BY <1>1, <1>4, NewWatches, RowKinds
<1>6. \A w \in Watches : Watch(w) \in DOMAIN W /\ Failed(db[Watch(w)]) => Failed(W[Watch(w)])
  BY <1>4, RewrittenWatch
<1> HIDE DEF W
<1> QED
  BY <1>2, <1>3, <1>5, <1>6, UserWrites

LEMMA AskHealthStep ==
    ASSUME SourceInv, AskHealth
    PROVE  SourceInv'
<1> DEFINE V == {g \in Files : Stale(db[Watch(g)])}
           R == {Watch(f) : f \in V}
           W == [r \in R |-> StaleMarked(db[r])]
<1>1. V \subseteq Watches
  BY DEF Watches
<1>2. db' = W ++ db /\ UNCHANGED <<provider, tx, outcome>>
  BY Zenon DEF AskHealth, ghosts
<1>3. \A r \in R : db[r].status = "fresh"
  BY DEF Stale
<1> HIDE DEF V
<1>4. DOMAIN W \subseteq Rows /\ \A f \in Files : Doc(f) \notin DOMAIN W
  BY <1>1, RowSets, RowNames
<1>5. \A w \in Watches : WatchOK(db[Watch(w)])
  BY RowSets, RowKinds DEF SourceInv, RowsOK
<1>6. \A r \in DOMAIN W : RowOK(r, W[r])
  <2> SUFFICES ASSUME NEW w \in V PROVE RowOK(Watch(w), StaleMarked(db[Watch(w)]))
    OBVIOUS
  <2> QED
    BY <1>1, <1>5, NewWatches, RowKinds
<1>7. \A w \in Watches : Watch(w) \in DOMAIN W /\ Failed(db[Watch(w)]) => Failed(W[Watch(w)])
  BY <1>3 DEF Failed
<1> HIDE DEF W
<1> QED
  BY <1>2, <1>4, <1>6, <1>7, UserWrites

LEMMA DisconnectStep ==
    ASSUME SourceInv, Disconnect
    PROVE  SourceInv'
<1> DEFINE V == {v \in Watches : db[Watch(v)].exists}
           R == {Watch(w) : w \in V}
           conn == [db[Conn] EXCEPT !.status = "disconnected", !.token = "none"]
           paused == [r \in R |-> [db[r] EXCEPT !.enabled = FALSE, !.status = "paused"]]
           W == Only(Conn, conn) ++ paused
<1>1. V \subseteq Watches
  OBVIOUS
<1>2. db' = Only(Conn, conn) ++ paused ++ db /\ UNCHANGED <<provider, tx, outcome>>
  BY Zenon DEF Disconnect
<1>3. \A w \in Watches : WatchOK(db[Watch(w)])
  BY RowSets, RowKinds DEF SourceInv, RowsOK
<1>4. RowOK(Conn, conn)
  <2>1. db[Conn] \in ConnRow
    BY RowSets, RowKinds DEF SourceInv, RowsOK
  <2> QED
    BY <2>1, ConnectionRows, RowKinds
<1> HIDE DEF V, conn
<1>5. \A r \in DOMAIN paused : RowOK(r, paused[r])
  <2> SUFFICES ASSUME NEW w \in V
               PROVE  RowOK(Watch(w), [db[Watch(w)] EXCEPT !.enabled = FALSE, !.status = "paused"])
    OBVIOUS
  <2> QED
    BY <1>1, <1>3, RewrittenWatch, RowKinds
<1>6. \A w \in Watches : Watch(w) \in DOMAIN paused /\ Failed(db[Watch(w)]) =>
                             Failed(paused[Watch(w)])
  BY <1>3, RewrittenWatch
<1>7. DOMAIN paused = R
  OBVIOUS
<1> HIDE DEF paused
<1>8. DOMAIN Only(Conn, conn) = {Conn} /\ Only(Conn, conn)[Conn] = conn
  BY OnlyRow
<1> DEFINE first == Only(Conn, conn)
<1> HIDE DEF first
<1>9. /\ DOMAIN (first ++ paused) = DOMAIN first \cup DOMAIN paused
      /\ \A r \in DOMAIN first : (first ++ paused)[r] = first[r]
      /\ \A r \in DOMAIN paused \ DOMAIN first : (first ++ paused)[r] = paused[r]
  <2>1. DOMAIN (first ++ paused) = DOMAIN first \cup DOMAIN paused
    BY OverRows
  <2>2. \A r \in DOMAIN first : (first ++ paused)[r] = first[r]
    BY OverRows
  <2>3. \A r \in DOMAIN paused \ DOMAIN first : (first ++ paused)[r] = paused[r]
    BY OverRows
  <2> QED
    BY <2>1, <2>2, <2>3
<1>10. W = first ++ paused
  BY Zenon DEF first
<1>11. DOMAIN first = {Conn} /\ first[Conn] = conn
  BY <1>8 DEF first
<1> HIDE DEF W
<1>12. DOMAIN W \subseteq Rows /\ \A f \in Files : Doc(f) \notin DOMAIN W
  BY <1>1, <1>7, <1>9, <1>10, <1>11, RowSets, RowNames
<1>13. \A r \in DOMAIN W : RowOK(r, W[r])
  BY <1>4, <1>5, <1>9, <1>10, <1>11
<1>14. \A w \in Watches : Watch(w) \in DOMAIN W /\ Failed(db[Watch(w)]) => Failed(W[Watch(w)])
  BY <1>6, <1>9, <1>10, <1>11, RowNames
<1>15. db' = W ++ db
  BY <1>2 DEF W
<1> QED
  BY <1>2, <1>12, <1>13, <1>14, <1>15, UserWrites

-----------------------------------------------------------------------------
(* The beginning of a transaction                                          *)

BegunAs(x, kind, stage, todo, at) ==
    /\ DOMAIN x = TxFields
    /\ x.kind = kind /\ x.stage = stage /\ x.todo = todo /\ x.at = at
    /\ x.first \in BOOLEAN /\ x.more = FALSE /\ x.held = Connected /\ x.content = NoContent
    /\ x.same = FALSE /\ x.seen = 0 /\ x.writes = <<>> /\ x.locks = {}
    /\ x.results = <<>>

LEMMA BegunIsOK ==
    ASSUME NEW kind \in Kinds, NEW stage \in {"next", "page", "refresh"},
           NEW todo \in Seq(Op), NEW at \in 0..MaxChanges,
           stage # "next" => kind = "delta" /\ todo = <<>>,
           NEW x, BegunAs(x, kind, stage, todo, at), NEW rows
    PROVE  TxOK(x, rows) /\ x.locks = {}
<1>1. DOMAIN x = TxFields
  BY DEF BegunAs
<1>2. /\ x.kind = kind /\ x.stage = stage /\ x.todo = todo /\ x.at = at
      /\ x.first \in BOOLEAN /\ x.more = FALSE /\ x.held = Connected /\ x.content = NoContent
      /\ x.same = FALSE /\ x.seen = 0 /\ x.writes = <<>> /\ x.locks = {}
      /\ x.results = <<>>
  BY DEF BegunAs
<1>3. IsTx(x)
  <2>1. x.seen \in 0..MaxChanges /\ DOMAIN x.results = {} /\ x.held \in ConnRow
    BY <1>2, NoRows, ConnectedRow, SourceSyncAssumption
  <2> QED
    BY <1>1, <1>2, <2>1 DEF IsTx
<1>4. LocksOK(x)
  BY <1>2, NoRows DEF LocksOK, Checking
<1>5. WritesOK(x) /\ NotedOK(x)
  BY <1>2, NoRows DEF WritesOK, NotedOK
<1>6. ReadOK(x, rows)
  BY <1>2, NoRows DEF ReadOK
<1> QED
  BY <1>2, <1>3, <1>4, <1>5, <1>6 DEF TxOK

LEMMA SyncOps ==
    /\ \A w \in Watches : SyncOf(w) \in Op
    /\ \A f \in Files : SyncOf(f) \in Op
    /\ "delta" \in Kinds => \A f \in Files, op \in {"sync", "adopt", "drop"} :
                                [op |-> op, file |-> f] \in Op
BY DEF Op, SyncOf, Watches

(* A transaction that begins has nothing to share. *)
LEMMA Begins ==
    ASSUME SourceInv, NEW t \in Txs, NEW x, tx' = [tx EXCEPT ![t] = x],
           TxOK(x, db) /\ x.locks = {}, UNCHANGED <<provider, db, outcome>>
    PROVE  SourceInv'
BY OneMoves

LEMMA BeginManualStep ==
    ASSUME SourceInv, NEW t \in Txs, NEW f \in Files, BeginManual(t, f)
    PROVE  SourceInv'
<1> DEFINE todo == <<SyncOf(f)>>
           x == [Idle EXCEPT !.kind = "manual", !.stage = "next", !.todo = todo]
<1>1. "manual" \in Kinds /\ todo \in Seq(Op) /\ 0 \in 0..MaxChanges
  BY SyncOps, SourceSyncAssumption DEF BeginManual
<1>3. tx' = [tx EXCEPT ![t] = x]
  BY Zenon DEF BeginManual
<1>4. UNCHANGED <<provider, db, outcome>>
  BY DEF BeginManual, ghosts
<1> HIDE DEF todo
<1>2. BegunAs(x, "manual", "next", todo, 0)
  BY DEF BegunAs, Idle, TxFields
<1>5. TxOK(x, db) /\ x.locks = {}
  <2> HIDE DEF x
  <2> QED
    BY <1>1, <1>2, BegunIsOK
<1> HIDE DEF x
<1> QED
  BY <1>3, <1>4, <1>5, Begins

LEMMA BeginDeltaStep ==
    ASSUME SourceInv, NEW t \in Txs, BeginDelta(t)
    PROVE  SourceInv'
<1> DEFINE at == db[Conn].cursor
           stage == IF db[Conn].token = "expired" THEN "refresh" ELSE "page"
           first == FromNow /\ ~db[Conn].begun
           x == [Idle EXCEPT !.kind = "delta", !.at = at, !.first = first, !.stage = stage]
<1>1. db[Conn] \in ConnRow
  BY RowSets, RowKinds DEF SourceInv, RowsOK
<1>2. at \in 0..MaxChanges /\ "delta" \in Kinds
  BY <1>1 DEF ConnRow, BeginDelta
<1>3. stage \in {"next", "page", "refresh"} /\ <<>> \in Seq(Op) /\ first \in BOOLEAN
  OBVIOUS
<1>4. tx' = [tx EXCEPT ![t] = x]
  BY Zenon DEF BeginDelta
<1>5. UNCHANGED <<provider, db, outcome>>
  BY DEF BeginDelta, ghosts
<1> HIDE DEF at, stage, first
<1>6. BegunAs(x, "delta", stage, <<>>, at)
  BY <1>3 DEF BegunAs, Idle, TxFields
<1> HIDE DEF x
<1>7. TxOK(x, db) /\ x.locks = {}
  BY <1>2, <1>3, <1>6, BegunIsOK
<1> QED
  BY <1>4, <1>5, <1>7, Begins

LEMMA BeginBatchStep ==
    ASSUME SourceInv, NEW t \in Txs, NEW kind \in Kinds, BeginBatch(t, kind)
    PROVE  SourceInv'
<1> DEFINE all == IF kind = "worker" THEN Watches ELSE Files
           due == {w \in all :
                     db[Watch(w)].exists /\ db[Watch(w)].enabled /\ db[Watch(w)].due}
           Limit(order) == IF Len(order) <= BatchLimit THEN Len(order) ELSE BatchLimit
           Ops(order) == [i \in 1..Limit(order) |-> SyncOf(order[i])]
           X(order) == [Idle EXCEPT !.kind = kind, !.stage = "next", !.todo = Ops(order)]
<1>1. PICK order \in SetToSeqs(due) : tx' = [tx EXCEPT ![t] = X(order)]
  BY Zenon DEF BeginBatch
<1>2. UNCHANGED <<provider, db, outcome>>
  BY DEF BeginBatch, ghosts
<1>3. due \subseteq Watches /\ IsFiniteSet(due)
  <2>1. IsFiniteSet(Watches)
    BY FS_Singleton, FS_Union, SourceSyncAssumption DEF Watches
  <2>2. due \subseteq Watches
    BY DEF Watches
  <2> HIDE DEF due
  <2> QED
    BY <2>1, <2>2, FS_Subset
<1> HIDE DEF due
<1>4. order \in Seq(Watches)
  <2>1. Cardinality(due) \in Nat
    BY <1>3, FS_CardinalityType
  <2>2. order \in [1..Cardinality(due) -> due]
    BY <1>1, Zenon DEF SetToSeqs
  <2> QED
    BY <2>1, <2>2, <1>3
<1> DEFINE todo == Ops(order)
           x == [Idle EXCEPT !.kind = kind, !.stage = "next", !.todo = todo]
<1>5. todo \in Seq(Op)
  <2>1. Limit(order) \in Nat /\ Limit(order) <= Len(order)
    BY <1>4, SourceSyncAssumption
  <2>2. \A i \in 1..Limit(order) : SyncOf(order[i]) \in Op
    BY <2>1, <1>4, SyncOps
  <2> QED
    BY <2>1, <2>2
<1>6. tx' = [tx EXCEPT ![t] = x]
  BY <1>1
<1> HIDE DEF todo
<1>7. BegunAs(x, kind, "next", todo, 0)
  BY DEF BegunAs, Idle, TxFields
<1>8. 0 \in 0..MaxChanges
  BY SourceSyncAssumption
<1> HIDE DEF x
<1>9. TxOK(x, db) /\ x.locks = {}
  BY <1>5, <1>7, <1>8, BegunIsOK
<1> QED
  BY <1>2, <1>6, <1>9, Begins

-----------------------------------------------------------------------------
(* The end of a transaction                                                *)

(* An error: of a check that failed only the result is known, and a caller   *)
(* other than the worker has it.                                            *)
LEMMA RolledBack ==
    ASSUME SourceInv, NEW t \in Txs, NEW results, Rollback(t, results),
           DOMAIN results \subseteq Watches, \A w \in DOMAIN results : results[w] \in Result,
           FailuresAlone => DOMAIN results = {},
           UNCHANGED provider
    PROVE  SourceInv'
<1>1. tx' = [tx EXCEPT ![t] = Idle] /\ outcome' = results ++ outcome /\ db' = db
      /\ remote' = remote /\ feed' = feed /\ skipped' = skipped
  BY DEF Rollback, provider
<1>2. DOMAIN tx' = Txs /\ tx'[t] = Idle /\ \A u \in Txs : u # t => tx'[u] = tx[u]
  BY <1>1 DEF SourceInv
<1>3. Idle.locks = {}
  BY DEF Idle
<1>4. ProviderOK' /\ RowsOK(db)'
  BY <1>1 DEF SourceInv, ProviderOK, RowsOK
<1>5. \A u \in Txs : TxOK(tx'[u], db')
  <2> SUFFICES ASSUME NEW u \in Txs PROVE TxOK(tx'[u], db)
    BY <1>1
  <2>1. TxOK(tx[u], db)
    BY DEF SourceInv
  <2> QED
    BY <2>1, <1>2, IdleIsOK
<1>6. Apart'
  <2> SUFFICES ASSUME NEW u \in Txs, NEW v \in Txs, u # v
               PROVE  tx'[u].locks \cap tx'[v].locks = {}
    BY DEF Apart
  <2>1. tx[u].locks \cap tx[v].locks = {}
    BY DEF SourceInv, Apart
  <2> QED
    BY <2>1, <1>2, <1>3
<1>7. outcome \in [Watches -> Result \cup {"none"}]
  BY DEF SourceInv, OutcomeOK
<1>8. /\ DOMAIN (results ++ outcome) = DOMAIN results \cup DOMAIN outcome
      /\ \A w \in DOMAIN results : (results ++ outcome)[w] = results[w]
      /\ \A w \in DOMAIN outcome \ DOMAIN results : (results ++ outcome)[w] = outcome[w]
  <2>1. DOMAIN (results ++ outcome) = DOMAIN results \cup DOMAIN outcome
    BY OverRows
  <2>2. \A w \in DOMAIN results : (results ++ outcome)[w] = results[w]
    BY OverRows
  <2>3. \A w \in DOMAIN outcome \ DOMAIN results : (results ++ outcome)[w] = outcome[w]
    BY OverRows
  <2> QED
    BY <2>1, <2>2, <2>3
<1>9. outcome' \in [Watches -> Result \cup {"none"}]
  <2>1. (results ++ outcome) = [w \in DOMAIN results \cup DOMAIN outcome |-> (results ++ outcome)[w]]
    BY DEF ++
  <2> QED
    BY <2>1, <1>1, <1>7, <1>8
<1>10. FailuresAlone => \A w \in Watches : outcome'[w] = outcome[w]
  BY <1>1, <1>7, <1>8
<1>11. OutcomeOK'
  BY <1>1, <1>9, <1>10 DEF SourceInv, OutcomeOK
<1> QED
  BY <1>2, <1>4, <1>5, <1>6, <1>11 DEF SourceInv

LEMMA Committed ==
    ASSUME SourceInv, NEW t \in Txs, NEW W, Commit(t, W), DOMAIN W \subseteq Rows,
           \A r \in DOMAIN W : RowOK(r, W[r]),
           \A f \in Files : Doc(f) \notin DOMAIN W,
           \A w \in Watches : Watch(w) \in DOMAIN W => Row(t, Watch(w)).status = "fresh",
           UNCHANGED provider
    PROVE  SourceInv'
<1> DEFINE writes == tx[t].writes
           all == W ++ writes
           results == tx[t].results
<1>1. db' = W ++ writes ++ db /\ tx' = [tx EXCEPT ![t] = Idle]
      /\ outcome' = results ++ outcome /\ remote' = remote /\ feed' = feed /\ skipped' = skipped
  BY DEF Commit, provider
<1>2. IsTx(tx[t]) /\ LocksOK(tx[t]) /\ WritesOK(tx[t]) /\ ReadOK(tx[t], db) /\ NotedOK(tx[t])
  BY DEF SourceInv, TxOK
<1>3. DOMAIN all = DOMAIN W \cup DOMAIN writes
  BY OverRows
<1>4. \A r \in DOMAIN W : all[r] = W[r]
  BY OverRows
<1>5. \A r \in DOMAIN writes \ DOMAIN W : all[r] = writes[r]
  BY OverRows
<1>6. DOMAIN writes \subseteq tx[t].locks /\ tx[t].locks \subseteq Rows
  BY <1>2 DEF IsTx, LocksOK
<1>7. DOMAIN all \subseteq Rows
  BY <1>3, <1>6
<1>8. \A r \in DOMAIN all : RowOK(r, all[r])
  BY <1>2, <1>3, <1>4, <1>5 DEF WritesOK
<1>9. db' = all ++ db
  BY <1>1
<1> HIDE DEF all, writes, results
<1>10. /\ RowsOK(all ++ db)
       /\ \A r \in DOMAIN all : (all ++ db)[r] = all[r]
       /\ \A r \in Rows \ DOMAIN all : (all ++ db)[r] = db[r]
  <2>1. RowsOK(db)
    BY DEF SourceInv
  <2> QED
    BY <2>1, <1>7, <1>8, RowsPut
<1>11. DOMAIN tx' = Txs /\ tx'[t] = Idle /\ \A u \in Txs : u # t => tx'[u] = tx[u]
  BY <1>1 DEF SourceInv
<1>12. Idle.locks = {}
  BY DEF Idle
<1>13. ProviderOK' /\ RowsOK(db)'
  BY <1>1, <1>9, <1>10 DEF SourceInv, ProviderOK
<1>14. ASSUME NEW u \in Txs PROVE TxOK(tx'[u], db')
  <2>1. CASE u = t
    BY <2>1, <1>11, IdleIsOK
  <2>2. CASE u # t
    <3>1. TxOK(tx[u], db) /\ tx'[u] = tx[u]
      BY <2>2, <1>11 DEF SourceInv
    <3>2. tx[u].locks \cap tx[t].locks = {}
      BY <2>2 DEF SourceInv, Apart
    <3>3. ASSUME NEW f \in Files, Doc(f) \in tx[u].locks \/ Watch(f) \in tx[u].locks
          PROVE  db'[Doc(f)].sha = db[Doc(f)].sha
      <4>1. CASE Doc(f) \notin DOMAIN all
        BY <4>1, <1>9, <1>10, RowSets
      <4>2. CASE Doc(f) \in DOMAIN all
        <5>1. Doc(f) \in DOMAIN writes /\ Doc(f) \notin DOMAIN W
          BY <4>2, <1>3
        <5>2. db'[Doc(f)] = writes[Doc(f)]
          BY <5>1, <4>2, <1>5, <1>9, <1>10
        <5>3. Watch(f) \notin tx[t].locks
          BY <5>1, <3>2, <3>3, <1>6
        <5>4. writes[Doc(f)].sha = db[Doc(f)].sha
          BY <5>1, <5>3, <1>2 DEF ReadOK, writes
        <5> QED
          BY <5>2, <5>4
      <4> QED
        BY <4>1, <4>2
    <3>4. TxOK(tx[u], db')
      BY <3>1, <3>3, OthersChangeRows
    <3> QED
      BY <3>1, <3>4
  <2> QED
    BY <2>1, <2>2
<1>15. Apart'
  <2> SUFFICES ASSUME NEW u \in Txs, NEW v \in Txs, u # v
               PROVE  tx'[u].locks \cap tx'[v].locks = {}
    BY DEF Apart
  <2>1. tx[u].locks \cap tx[v].locks = {}
    BY DEF SourceInv, Apart
  <2> QED
    BY <2>1, <1>11, <1>12
<1>16. outcome \in [Watches -> Result \cup {"none"}]
       /\ (FailuresAlone => \A w \in Watches : outcome[w] = "failed" => Failed(db[Watch(w)]))
  BY DEF SourceInv, OutcomeOK
<1>17. DOMAIN results \subseteq Watches /\ \A w \in DOMAIN results : results[w] \in Result
  BY <1>2 DEF IsTx, results
<1>18. /\ DOMAIN (results ++ outcome) = DOMAIN results \cup DOMAIN outcome
       /\ \A w \in DOMAIN results : (results ++ outcome)[w] = results[w]
       /\ \A w \in DOMAIN outcome \ DOMAIN results : (results ++ outcome)[w] = outcome[w]
  <2>1. DOMAIN (results ++ outcome) = DOMAIN results \cup DOMAIN outcome
    BY OverRows
  <2>2. \A w \in DOMAIN results : (results ++ outcome)[w] = results[w]
    BY OverRows
  <2>3. \A w \in DOMAIN outcome \ DOMAIN results : (results ++ outcome)[w] = outcome[w]
    BY OverRows
  <2> QED
    BY <2>1, <2>2, <2>3
<1>19. outcome' \in [Watches -> Result \cup {"none"}]
  <2>1. (results ++ outcome) = [w \in DOMAIN results \cup DOMAIN outcome |-> (results ++ outcome)[w]]
    BY DEF ++
  <2> QED
    BY <2>1, <1>1, <1>16, <1>17, <1>18
<1>20. ASSUME FailuresAlone, NEW w \in Watches, outcome'[w] = "failed"
       PROVE  Failed(db'[Watch(w)])
  <2>1. /\ w \in DOMAIN results <=> Watch(w) \in DOMAIN writes
        /\ w \in DOMAIN results /\ results[w] = "failed" => Failed(writes[Watch(w)])
    BY <1>2, <1>20, Zenon DEF NotedOK, results, writes
  <2>2. Failed(Row(t, Watch(w)))
    <3>1. CASE w \in DOMAIN results
      <4>1. results[w] = "failed"
        BY <3>1, <1>1, <1>18, <1>20
      <4>2. Row(t, Watch(w)) = writes[Watch(w)]
        BY <2>1, <3>1 DEF Row, writes
      <4> QED
        BY <2>1, <3>1, <4>1, <4>2
    <3>2. CASE w \notin DOMAIN results
      <4>1. outcome[w] = "failed"
        BY <3>2, <1>1, <1>16, <1>18, <1>20
      <4>2. Row(t, Watch(w)) = db[Watch(w)]
        BY <2>1, <3>2 DEF Row, writes
      <4> QED
        BY <4>1, <4>2, <1>16, <1>20
    <3> QED
      BY <3>1, <3>2
  <2>3. Watch(w) \notin DOMAIN W
    BY <2>2 DEF Failed
  <2>4. db'[Watch(w)] = Row(t, Watch(w))
    <3>1. CASE Watch(w) \in DOMAIN writes
      BY <3>1, <2>3, <1>3, <1>5, <1>9, <1>10 DEF Row, writes
    <3>2. CASE Watch(w) \notin DOMAIN writes
      <4>1. Watch(w) \in Rows \ DOMAIN all
        BY <3>2, <2>3, <1>3, RowSets
      <4> QED
        BY <4>1, <3>2, <1>9, <1>10 DEF Row, writes
    <3> QED
      BY <3>1, <3>2
  <2> QED
    BY <2>2, <2>4
<1>21. OutcomeOK'
  BY <1>19, <1>20 DEF OutcomeOK
<1> QED
  BY <1>11, <1>13, <1>14, <1>15, <1>21 DEF SourceInv

(* The row of a watch that was checked, and those of two other writes. *)
LEMMA RowsAfterCheck ==
    ASSUME NEW f, f \in Watches, NEW row, WatchOK(row), NEW B, NEW W,
           \A r \in DOMAIN B : RowOK(r, B[r]), \A r \in DOMAIN W : RowOK(r, W[r])
    PROVE  LET all == Only(Watch(f), row) ++ B ++ W IN
           /\ DOMAIN all = {Watch(f)} \cup DOMAIN B \cup DOMAIN W
           /\ all[Watch(f)] = row
           /\ \A r \in DOMAIN all : RowOK(r, all[r])
<1> DEFINE A == Only(Watch(f), row)
           AB == A ++ B
<1>1. DOMAIN A = {Watch(f)} /\ A[Watch(f)] = row
  BY OnlyRow
<1> HIDE DEF A
<1>2. DOMAIN AB = DOMAIN A \cup DOMAIN B
  BY OverRows
<1>3. \A r \in DOMAIN A : AB[r] = A[r]
  BY OverRows
<1>4. \A r \in DOMAIN A : RowOK(r, A[r])
  BY <1>1, RowKinds
<1>5. \A r \in DOMAIN AB : RowOK(r, AB[r])
  BY <1>4, RowsOver, Zenon
<1> HIDE DEF AB
<1>6. DOMAIN (AB ++ W) = DOMAIN AB \cup DOMAIN W
  BY OverRows
<1>7. \A r \in DOMAIN AB : (AB ++ W)[r] = AB[r]
  BY OverRows
<1>8. \A r \in DOMAIN (AB ++ W) : RowOK(r, (AB ++ W)[r])
  BY <1>5, RowsOver, Zenon
<1>9. DOMAIN (AB ++ W) = {Watch(f)} \cup DOMAIN B \cup DOMAIN W
  BY <1>1, <1>2, <1>6
<1>10. (AB ++ W)[Watch(f)] = row
  BY <1>1, <1>2, <1>3, <1>7
<1> QED
  BY <1>8, <1>9, <1>10 DEF AB, A

LEMMA CheckedFile ==
    ASSUME SourceInv, NEW t \in Txs, Checking(tx[t])
    PROVE  /\ tx[t].todo # <<>> /\ HeadFile(t) \in Watches
           /\ Watch(HeadFile(t)) \in tx[t].locks
           /\ tx[t].kind \in Kinds
           /\ DOMAIN tx[t].writes \subseteq tx[t].locks /\ tx[t].locks \subseteq Rows
           /\ tx[t].stage = "store" => HeadFile(t) \in Files /\ tx[t].content \in Contents
<1>1. IsTx(tx[t]) /\ LocksOK(tx[t])
  BY DEF SourceInv, TxOK
<1>2. tx[t].todo # <<>> /\ Watch(HeadFile(t)) \in tx[t].locks
      /\ DOMAIN tx[t].writes \subseteq tx[t].locks
      /\ (tx[t].stage = "store" => HeadFile(t) \in Files /\ tx[t].content \in Contents)
  BY <1>1 DEF LocksOK, HeadFile
<1>3. tx[t].todo \in Seq(Op) /\ tx[t].locks \subseteq Rows
  BY <1>1 DEF IsTx
<1>4. Head(tx[t].todo) \in Op
  BY <1>2, <1>3
<1>5. HeadFile(t) \in Watches
  BY <1>4 DEF Op, HeadFile, Watches
<1>6. tx[t].kind \in Kinds
  BY <1>1 DEF IsTx, Checking
<1> QED
  BY <1>2, <1>3, <1>5, <1>6

LEMMA CheckEndsStep ==
    ASSUME SourceInv, NEW t \in Txs, Checking(tx[t]),
           NEW W, NEW result, result \in Result, tx' = [tx EXCEPT ![t] = Checked(t, W, result)],
           DOMAIN W \subseteq Rows, Watch(HeadFile(t)) \in DOMAIN W,
           \A r \in DOMAIN W : RowOK(r, W[r]),
           \A f \in Files : Doc(f) \in DOMAIN W => f = HeadFile(t),
           \A w \in Watches : Watch(w) \in DOMAIN W => w = HeadFile(t),
           FailuresAlone /\ result = "failed" => Failed(W[Watch(HeadFile(t))]),
           \A u \in Txs \ {t} : (tx[t].locks \cup DOMAIN W) \cap tx[u].locks = {},
           UNCHANGED <<provider, db, outcome>>
    PROVE  SourceInv'
<1> DEFINE x == Checked(t, W, result)
<1>1. TxOK(x, db) /\ x.locks = tx[t].locks \cup DOMAIN W
  BY CheckEnds
<1> HIDE DEF x
<1>4. tx' = [tx EXCEPT ![t] = x]
  BY DEF x
<1>5. \A u \in Txs \ {t} : x.locks \cap tx[u].locks = {}
  BY <1>1
<1> QED
  BY <1>1, <1>4, <1>5, OneMoves

(* The catch clauses, with the rows of W written before. *)
LEMMA CheckFails ==
    ASSUME SourceInv, NEW t \in Txs, Checking(tx[t]), NEW W, NEW reauth \in BOOLEAN,
           Fail(t, W, reauth), UNCHANGED provider,
           NEW locks, tx[t].locks \cup DOMAIN W \subseteq locks,
           reauth /\ V1(t) => Conn \in locks,
           \A u \in Txs \ {t} : locks \cap tx[u].locks = {},
           DOMAIN W \subseteq Rows,
           V1(t) \/ tx[t].kind = "batch" => \A r \in DOMAIN W : RowOK(r, W[r]),
           \A w \in Watches : Watch(w) \notin DOMAIN W,
           \A f \in Files : Doc(f) \in DOMAIN W => f = HeadFile(t)
    PROVE  SourceInv'
<1> DEFINE f == HeadFile(t)
           row == [Row(t, Watch(f)) EXCEPT !.status = "error", !.due = FALSE,
                                           !.run = "failed"]
           alert == IF reauth THEN "reauth_required" ELSE "sync_failed"
           conn == [Row(t, Conn) EXCEPT !.status = "reauth_required"]
           told == [row EXCEPT !.alerts = @ \cup {alert}]
           B == IF reauth THEN Only(Conn, conn) ELSE <<>>
           first == Only(Watch(f), told) ++ B ++ W
           second == Only(Watch(f), row) ++ W
<1>1. f \in Watches /\ Watch(f) \in tx[t].locks /\ tx[t].kind \in Kinds
  BY CheckedFile
<1>2. WatchOK(Row(t, Watch(f))) /\ Row(t, Conn) \in ConnRow
  BY <1>1, RowIsOK
<1>3. WatchOK(row) /\ Failed(row) /\ WatchOK(told) /\ Failed(told)
  <2>1. {alert} \in SUBSET {"sync_failed", "reauth_required"}
    OBVIOUS
  <2> DEFINE old == Row(t, Watch(f))
             S == {alert}
  <2> HIDE DEF old, S
  <2>2. WatchOK(old) /\ S \in SUBSET {"sync_failed", "reauth_required"}
    BY <1>2, <2>1 DEF old, S
  <2>3. LET new == [old EXCEPT !.status = "error", !.due = FALSE, !.run = "failed"]
            with == [new EXCEPT !.alerts = @ \cup S] IN
        WatchOK(new) /\ Failed(new) /\ WatchOK(with) /\ Failed(with)
    BY <2>2, FailedWatch
  <2> QED
    BY <2>3 DEF old, S
<1>4. RowOK(Conn, conn)
  BY <1>2, ConnectionRows, RowKinds
<1>5. /\ V1(t) => /\ tx' = [tx EXCEPT ![t] = Checked(t, first, "failed")]
                  /\ UNCHANGED <<db, outcome>>
      /\ ~V1(t) /\ tx[t].kind = "batch" =>
            /\ tx' = [tx EXCEPT ![t] = Checked(t, second, "failed")]
            /\ UNCHANGED <<db, outcome>>
      /\ ~V1(t) /\ tx[t].kind # "batch" => Rollback(t, Only(f, "failed"))
  BY Zenon DEF Fail, V1
<1> HIDE DEF row, told, conn, f
<1>6. CASE V1(t)
  <2>1. DOMAIN B \subseteq {Conn} /\ (\A r \in DOMAIN B : RowOK(r, B[r]))
        /\ (reauth \/ DOMAIN B = {})
    <3>1. CASE reauth
      <4>1. B = Only(Conn, conn)
        BY <3>1
      <4>2. DOMAIN Only(Conn, conn) = {Conn} /\ Only(Conn, conn)[Conn] = conn
        BY OnlyRow
      <4> HIDE DEF B
      <4>3. DOMAIN B = {Conn} /\ B[Conn] = conn
        BY <4>1, <4>2
      <4> QED
        BY <4>3, <3>1, <1>4
    <3>2. CASE ~reauth
      <4>1. B = <<>>
        BY <3>2
      <4> QED
        BY <4>1, NoRows
    <3> QED
      BY <3>1, <3>2
  <2> HIDE DEF B, first
  <2>2. first = Only(Watch(f), told) ++ B ++ W
    BY DEF first
  <2>3. /\ DOMAIN first = {Watch(f)} \cup DOMAIN B \cup DOMAIN W
        /\ first[Watch(f)] = told
        /\ \A r \in DOMAIN first : RowOK(r, first[r])
    <3>1. \A r \in DOMAIN W : RowOK(r, W[r])
      BY <1>6
    <3>2. WatchOK(told)
      BY <1>3
    <3>3. f \in Watches /\ \A r \in DOMAIN B : RowOK(r, B[r])
      BY <1>1, <2>1, <2>2
    <3>4. LET all == Only(Watch(f), told) ++ B ++ W IN
          /\ DOMAIN all = {Watch(f)} \cup DOMAIN B \cup DOMAIN W
          /\ all[Watch(f)] = told
          /\ \A r \in DOMAIN all : RowOK(r, all[r])
      BY <3>1, <3>2, <3>3, RowsAfterCheck
    <3> QED
      BY <3>4, <2>2
  <2>8. DOMAIN first \subseteq Rows
    BY <1>1, <2>1, <2>3, NoRows, RowSets
  <2>4. \A u \in Txs \ {t} : (tx[t].locks \cup DOMAIN first) \cap tx[u].locks = {}
    BY <1>1, <1>6, <2>1, <2>3
  <2>5. "failed" \in Result /\ Watch(HeadFile(t)) \in DOMAIN first
        /\ Failed(first[Watch(HeadFile(t))])
    BY <1>3, <2>3 DEF Result, f
  <2>6. /\ \A g \in Files : Doc(g) \in DOMAIN first => g = HeadFile(t)
        /\ \A w \in Watches : Watch(w) \in DOMAIN first => w = HeadFile(t)
    BY <2>1, <2>3, NoRows, RowNames DEF f
  <2>7. tx' = [tx EXCEPT ![t] = Checked(t, first, "failed")]
        /\ UNCHANGED <<provider, db, outcome>>
    BY <1>5, <1>6
  <2> QED
    BY <2>3, <2>4, <2>5, <2>6, <2>7, <2>8, CheckEndsStep
<1>7. CASE ~V1(t) /\ tx[t].kind = "batch"
  <2> HIDE DEF second
  <2>1. second = Only(Watch(f), row) ++ <<>> ++ W
    <3>1. Only(Watch(f), row) ++ <<>> = Only(Watch(f), row)
      BY NoRows DEF ++, Only
    <3> QED
      BY <3>1 DEF second
  <2>2. DOMAIN <<>> \subseteq {Conn} /\ \A r \in DOMAIN <<>> : RowOK(r, <<>>[r])
    BY NoRows
  <2>3. /\ DOMAIN second = {Watch(f)} \cup DOMAIN <<>> \cup DOMAIN W
        /\ second[Watch(f)] = row
        /\ \A r \in DOMAIN second : RowOK(r, second[r])
    <3>1. \A r \in DOMAIN W : RowOK(r, W[r])
      BY <1>7
    <3>2. WatchOK(row)
      BY <1>3
    <3>3. f \in Watches /\ \A r \in DOMAIN <<>> : RowOK(r, <<>>[r])
      BY <1>1, <2>1, <2>2
    <3>4. LET all == Only(Watch(f), row) ++ <<>> ++ W IN
          /\ DOMAIN all = {Watch(f)} \cup DOMAIN <<>> \cup DOMAIN W
          /\ all[Watch(f)] = row
          /\ \A r \in DOMAIN all : RowOK(r, all[r])
      BY <3>1, <3>2, <3>3, RowsAfterCheck
    <3> QED
      BY <3>4, <2>1
  <2>8. DOMAIN second \subseteq Rows
    BY <1>1, <2>1, <2>3, NoRows, RowSets
  <2>4. \A u \in Txs \ {t} : (tx[t].locks \cup DOMAIN second) \cap tx[u].locks = {}
    BY <1>1, <2>3, NoRows
  <2>5. "failed" \in Result /\ Watch(HeadFile(t)) \in DOMAIN second
        /\ Failed(second[Watch(HeadFile(t))])
    BY <1>3, <2>3 DEF Result, f
  <2>6. /\ \A g \in Files : Doc(g) \in DOMAIN second => g = HeadFile(t)
        /\ \A w \in Watches : Watch(w) \in DOMAIN second => w = HeadFile(t)
    BY <2>1, <2>3, NoRows, RowNames DEF f
  <2>7. tx' = [tx EXCEPT ![t] = Checked(t, second, "failed")]
        /\ UNCHANGED <<provider, db, outcome>>
    BY <1>5, <1>7
  <2> QED
    BY <2>3, <2>4, <2>5, <2>6, <2>7, <2>8, CheckEndsStep
<1>8. CASE ~V1(t) /\ tx[t].kind # "batch"
  <2>1. Rollback(t, Only(f, "failed"))
    BY <1>5, <1>8
  <2>2. DOMAIN Only(f, "failed") = {f} /\ Only(f, "failed")[f] = "failed"
    BY OnlyRow
  <2>3. ~FailuresAlone
    BY <1>1, <1>8 DEF FailuresAlone, WorkerAlone, V1
  <2> DEFINE results == Only(f, "failed")
  <2> HIDE DEF results
  <2>4. DOMAIN results \subseteq Watches /\ \A w \in DOMAIN results : results[w] \in Result
    BY <2>2, <1>1 DEF results, Result
  <2>5. Rollback(t, results)
    BY <2>1 DEF results
  <2> QED
    BY <2>3, <2>4, <2>5, RolledBack
<1> QED
  BY <1>6, <1>7, <1>8

-----------------------------------------------------------------------------
(* The steps of a check                                                    *)

(* A step of one transaction, by what it makes of it. *)
LEMMA Moves ==
    ASSUME SourceInv, NEW t \in Txs, DOMAIN tx' = Txs,
           \A u \in Txs : u # t => tx'[u] = tx[u],
           TxOK(tx'[t], db), \A u \in Txs \ {t} : tx'[t].locks \cap tx[u].locks = {},
           UNCHANGED <<provider, db, outcome>>
    PROVE  SourceInv'
<1>1. remote' = remote /\ feed' = feed /\ skipped' = skipped /\ db' = db /\ outcome' = outcome
  BY DEF provider
<1>2. ProviderOK' /\ RowsOK(db)' /\ OutcomeOK'
  BY <1>1 DEF SourceInv, ProviderOK, RowsOK, OutcomeOK
<1>3. ASSUME NEW u \in Txs PROVE TxOK(tx'[u], db')
  BY <1>1 DEF SourceInv
<1>4. ASSUME NEW u \in Txs, NEW v \in Txs, u # v PROVE tx'[u].locks \cap tx'[v].locks = {}
  <2>1. tx[u].locks \cap tx[v].locks = {}
    BY <1>4 DEF SourceInv, Apart
  <2> QED
    BY <2>1, <1>4
<1> QED
  BY <1>2, <1>3, <1>4 DEF SourceInv, Apart

LEMMA LockWatchStep ==
    ASSUME SourceInv, NEW t \in Txs, LockWatch(t)
    PROVE  SourceInv'
<1> DEFINE x == tx'[t]
           held == IF V1(t) THEN Row(t, Conn) ELSE tx[t].held
           locks == tx[t].locks \cup {Watch(HeadFile(t))}
<1>1. TxOK(tx[t], db) /\ IsTx(tx[t]) /\ LocksOK(tx[t]) /\ DOMAIN tx = Txs
  BY DEF SourceInv, TxOK
<1>2. tx' = [tx EXCEPT ![t].stage = "authorize", ![t].held = held, ![t].locks = locks]
      /\ UNCHANGED <<provider, db, outcome>>
  BY Zenon DEF LockWatch, ghosts
<1>3. BlockedBy(t) = {} /\ tx[t].stage = "next" /\ tx[t].todo # <<>> /\ HeadOp(t) = "sync"
  BY DEF LockWatch, CurrentOp, At
<1> HIDE DEF held, locks
<1>4. DOMAIN tx' = Txs /\ \A u \in Txs : u # t => tx'[u] = tx[u]
  BY <1>1, <1>2
<1>5. DOMAIN tx[t] = TxFields
  BY <1>1 DEF IsTx
<1>6. /\ DOMAIN x = TxFields
      /\ x.kind = tx[t].kind /\ x.stage = "authorize" /\ x.todo = tx[t].todo
      /\ x.at = tx[t].at /\ x.first = tx[t].first /\ x.more = tx[t].more /\ x.held = held
      /\ x.content = tx[t].content /\ x.same = tx[t].same /\ x.seen = tx[t].seen
      /\ x.writes = tx[t].writes /\ x.locks = locks /\ x.results = tx[t].results
  BY <1>1, <1>2, <1>5 DEF TxFields
<1> HIDE DEF x
<1>7. HeadFile(t) \in Watches
  <2>1. Head(tx[t].todo) \in Op
    BY <1>1, <1>3 DEF IsTx
  <2> QED
    BY <2>1 DEF Op, HeadFile, Watches
<1>8. held \in ConnRow
  BY <1>1, RowIsOK DEF held, IsTx
<1>9. locks \subseteq Rows
  BY <1>1, <1>7, RowSets DEF locks, IsTx
<1>10. IsTx(x)
  <2>1. x.todo \in Seq(Op) /\ x.at \in 0..MaxChanges /\ x.first \in BOOLEAN /\ x.more \in BOOLEAN /\ x.kind \in Kinds
        /\ x.content \in Contents \cup {NoContent} /\ x.seen \in 0..MaxChanges
        /\ (x.more => x.kind = "delta")
    BY <1>1, <1>3, <1>6 DEF IsTx
  <2>2. DOMAIN x.results \subseteq Watches /\ \A w \in DOMAIN x.results : x.results[w] \in Result
    BY <1>1, <1>6 DEF IsTx
  <2> QED
    BY <1>6, <1>8, <1>9, <2>1, <2>2 DEF IsTx
<1>11. LocksOK(x)
  BY <1>1, <1>3, <1>6 DEF LocksOK, locks, HeadFile
<1>12. TxOK(x, db)
  <2>1. tx[t].locks \subseteq x.locks
    BY <1>6 DEF locks
  <2> QED
    BY <1>1, <1>6, <1>10, <1>11, <2>1, NothingWritten
<1>13. \A u \in Txs \ {t} : x.locks \cap tx[u].locks = {}
  <2>1. Watch(HeadFile(t)) \in Wants(t)
    BY <1>3 DEF Wants, CurrentOp, At
  <2>2. locks \subseteq tx[t].locks \cup Wants(t)
    BY <2>1 DEF locks
  <2> QED
    BY <1>3, <1>6, <2>2, WantedRows
<1> QED
  BY <1>2, <1>4, <1>12, <1>13, Moves DEF x

(* A check that fails having written nothing. *)
LEMMA NothingToKeep ==
    ASSUME SourceInv, NEW t \in Txs, Checking(tx[t]), Fail(t, <<>>, FALSE), UNCHANGED provider
    PROVE  SourceInv'
<1>1. \A u \in Txs \ {t} : tx[t].locks \cap tx[u].locks = {}
  BY OwnRows
<1> DEFINE W == <<>>
<1>2. /\ Fail(t, W, FALSE) /\ FALSE \in BOOLEAN /\ tx[t].locks \cup DOMAIN W \subseteq tx[t].locks
      /\ DOMAIN W \subseteq Rows /\ (\A r \in DOMAIN W : RowOK(r, W[r]))
      /\ (\A w \in Watches : Watch(w) \notin DOMAIN W)
      /\ (\A f \in Files : Doc(f) \in DOMAIN W => f = HeadFile(t))
  BY NoRows
<1> HIDE DEF W
<1> QED
  BY <1>1, <1>2, CheckFails

LEMMA AuthorizeStep ==
    ASSUME SourceInv, NEW t \in Txs, Authorize(t)
    PROVE  SourceInv'
<1> DEFINE conn == IF V1(t) THEN tx[t].held ELSE Row(t, Conn)
           stage == IF conn.token = "live" THEN "fetch" ELSE "refresh"
<1>1. tx[t].stage = "authorize" /\ BlockedBy(t) = {} /\ UNCHANGED provider
  BY DEF Authorize, Unblocked, At, provider
<1>2. Checking(tx[t])
  BY <1>1 DEF Checking
<1>3. V1(t) /\ conn.token = "none" => Conn \in Wants(t)
  BY <1>1 DEF Wants, CurrentOp, At
<1>4. DOMAIN <<>> = {}
  BY NoRows
<1>5. CASE Fail(t, <<>>, FALSE)
  BY <1>1, <1>2, <1>5, NothingToKeep
<1>6. CASE conn.token = "none" /\ Fail(t, <<>>, TRUE)
  <2> DEFINE locks == tx[t].locks \cup Wants(t)
             W == <<>>
  <2>1. \A u \in Txs \ {t} : locks \cap tx[u].locks = {}
    BY <1>1, WantedRows
  <2>2. /\ Fail(t, W, TRUE) /\ TRUE \in BOOLEAN /\ tx[t].locks \cup DOMAIN W \subseteq locks
        /\ DOMAIN W \subseteq Rows /\ (\A r \in DOMAIN W : RowOK(r, W[r]))
        /\ (\A w \in Watches : Watch(w) \notin DOMAIN W)
        /\ (\A f \in Files : Doc(f) \in DOMAIN W => f = HeadFile(t))
        /\ (V1(t) => Conn \in locks)
    BY <1>3, <1>4, <1>6
  <2> HIDE DEF W, locks
  <2> QED
    BY <1>1, <1>2, <2>1, <2>2, CheckFails
<1>7. CASE /\ tx' = [tx EXCEPT ![t].held = Connected, ![t].stage = stage]
           /\ UNCHANGED <<db, outcome>>
  <2> DEFINE x == tx'[t]
  <2>1. TxOK(tx[t], db) /\ IsTx(tx[t]) /\ LocksOK(tx[t]) /\ DOMAIN tx = Txs
    BY DEF SourceInv, TxOK
  <2>2. stage \in {"fetch", "refresh"}
    OBVIOUS
  <2> HIDE DEF stage
  <2>3. DOMAIN tx' = Txs /\ \A u \in Txs : u # t => tx'[u] = tx[u]
    BY <2>1, <1>7
  <2>4. DOMAIN tx[t] = TxFields
    BY <2>1 DEF IsTx
  <2>5. /\ DOMAIN x = TxFields
        /\ x.kind = tx[t].kind /\ x.stage = stage /\ x.todo = tx[t].todo
        /\ x.at = tx[t].at /\ x.first = tx[t].first /\ x.more = tx[t].more /\ x.held = Connected
        /\ x.content = tx[t].content /\ x.same = tx[t].same /\ x.seen = tx[t].seen
        /\ x.writes = tx[t].writes /\ x.locks = tx[t].locks /\ x.results = tx[t].results
    BY <1>7, <2>1, <2>4 DEF TxFields
  <2> HIDE DEF x
  <2>6. tx[t].todo # <<>> /\ tx[t].kind \in Kinds
    BY <1>2, CheckedFile
  <2>7. IsTx(x)
    <3>1. x.todo \in Seq(Op) /\ x.at \in 0..MaxChanges /\ x.first \in BOOLEAN /\ x.more \in BOOLEAN /\ x.kind \in Kinds
          /\ x.content \in Contents \cup {NoContent} /\ x.seen \in 0..MaxChanges
          /\ (x.more => x.kind = "delta") /\ x.locks \subseteq Rows
      BY <2>1, <2>5, <2>6 DEF IsTx
    <3>2. DOMAIN x.results \subseteq Watches /\ \A w \in DOMAIN x.results : x.results[w] \in Result
      BY <2>1, <2>5 DEF IsTx
    <3> QED
      BY <2>2, <2>5, <2>6, <3>1, <3>2, ConnectedRow DEF IsTx
  <2>8. LocksOK(x)
    BY <1>2, <2>1, <2>2, <2>5 DEF LocksOK
  <2>9. TxOK(x, db)
    BY <2>1, <2>2, <2>5, <2>7, <2>8, NothingWritten
  <2>10. \A u \in Txs \ {t} : x.locks \cap tx[u].locks = {}
    BY <2>5, OwnRows
  <2>11. UNCHANGED <<provider, db, outcome>>
    BY <1>1, <1>7
  <2> QED
    BY <2>3, <2>9, <2>10, <2>11, Moves DEF x
<1> QED
  BY <1>5, <1>6, <1>7, Zenon DEF Authorize

LEMMA FetchStep ==
    ASSUME SourceInv, NEW t \in Txs, Fetch(t)
    PROVE  SourceInv'
<1> DEFINE f == HeadFile(t)
           content == remote[f]
           same == (Row(t, Doc(f)).sha = remote[f])
           seen == Len(feed)
           x == tx'[t]
<1>1. TxOK(tx[t], db) /\ IsTx(tx[t]) /\ LocksOK(tx[t]) /\ DOMAIN tx = Txs /\ ProviderOK
  BY DEF SourceInv, TxOK
<1>2. tx[t].stage = "fetch" /\ Available(f) /\ UNCHANGED <<provider, db, outcome>>
      /\ tx' = [tx EXCEPT ![t].stage = "store", ![t].content = content,
                          ![t].same = same, ![t].seen = seen]
  BY Zenon DEF Fetch, At, ghosts
<1>3. f \in Files /\ content \in Contents
  BY <1>1, <1>2 DEF Available, ProviderOK
<1>4. seen \in 0..MaxChanges
  BY <1>1, SourceSyncAssumption DEF ProviderOK
<1>5. Checking(tx[t])
  BY <1>2 DEF Checking
<1>6. tx[t].todo # <<>> /\ tx[t].kind \in Kinds
  BY <1>5, CheckedFile
<1> HIDE DEF content, same, seen
<1>7. DOMAIN tx' = Txs /\ \A u \in Txs : u # t => tx'[u] = tx[u]
  BY <1>1, <1>2
<1>8. DOMAIN tx[t] = TxFields
  BY <1>1 DEF IsTx
<1>9. /\ DOMAIN x = TxFields
      /\ x.kind = tx[t].kind /\ x.stage = "store" /\ x.todo = tx[t].todo
      /\ x.at = tx[t].at /\ x.first = tx[t].first /\ x.more = tx[t].more /\ x.held = tx[t].held
      /\ x.content = content /\ x.same = same /\ x.seen = seen
      /\ x.writes = tx[t].writes /\ x.locks = tx[t].locks /\ x.results = tx[t].results
  BY <1>1, <1>2, <1>8 DEF TxFields
<1> HIDE DEF x
<1>10. IsTx(x)
  <2>1. x.todo \in Seq(Op) /\ x.at \in 0..MaxChanges /\ x.first \in BOOLEAN /\ x.more \in BOOLEAN /\ x.kind \in Kinds
        /\ (x.more => x.kind = "delta") /\ x.locks \subseteq Rows /\ x.held \in ConnRow
    BY <1>1, <1>6, <1>9 DEF IsTx
  <2>2. DOMAIN x.results \subseteq Watches /\ \A w \in DOMAIN x.results : x.results[w] \in Result
    BY <1>1, <1>9 DEF IsTx
  <2> QED
    BY <1>3, <1>4, <1>9, <2>1, <2>2 DEF IsTx
<1>11. LocksOK(x)
  BY <1>1, <1>3, <1>5, <1>6, <1>9 DEF LocksOK, HeadFile
<1>12. x.same = (Read(x, db, Doc(Head(x.todo).file)).sha = x.content)
  <2>1. Head(x.todo).file = f
    BY <1>9 DEF HeadFile
  <2>2. Read(x, db, Doc(f)) = Row(t, Doc(f))
    BY <1>9, Zenon DEF Read, Row
  <2> HIDE DEF f
  <2> QED
    BY <1>9, <2>1, <2>2, Zenon DEF same, content
<1>13. TxOK(x, db)
  BY <1>1, <1>9, <1>10, <1>11, <1>12, NothingWritten
<1>14. \A u \in Txs \ {t} : x.locks \cap tx[u].locks = {}
  BY <1>9, OwnRows
<1> QED
  BY <1>2, <1>7, <1>13, <1>14, Moves DEF x

LEMMA FetchFailsStep ==
    ASSUME SourceInv, NEW t \in Txs, Missing(t) \/ FetchFails(t)
    PROVE  SourceInv'
<1>1. tx[t].stage = "fetch" /\ Fail(t, <<>>, FALSE) /\ UNCHANGED provider
  BY DEF Missing, FetchFails, At
<1>2. Checking(tx[t])
  BY <1>1 DEF Checking
<1> QED
  BY <1>1, <1>2, NothingToKeep

LEMMA NotedKept ==
    ASSUME NEW x, NotedOK(x), NEW W, NEW y, y.writes = W ++ x.writes, y.results = x.results,
           \A w \in Watches : Watch(w) \notin DOMAIN W
    PROVE  NotedOK(y)
<1> SUFFICES ASSUME FailuresAlone, NEW w \in Watches
             PROVE  /\ w \in DOMAIN y.results <=> Watch(w) \in DOMAIN y.writes
                    /\ w \in DOMAIN y.results /\ y.results[w] = "failed" =>
                          Failed(y.writes[Watch(w)])
  BY DEF NotedOK
<1>1. /\ w \in DOMAIN x.results <=> Watch(w) \in DOMAIN x.writes
      /\ w \in DOMAIN x.results /\ x.results[w] = "failed" => Failed(x.writes[Watch(w)])
  BY DEF NotedOK
<1> DEFINE old == x.writes
<1>2. y.writes = W ++ old
  OBVIOUS
<1> HIDE DEF old
<1>3. DOMAIN (W ++ old) = DOMAIN W \cup DOMAIN old
  BY OverRows
<1>4. \A r \in DOMAIN old \ DOMAIN W : (W ++ old)[r] = old[r]
  BY OverRows
<1>5. Watch(w) \in DOMAIN y.writes <=> Watch(w) \in DOMAIN old
  BY <1>2, <1>3
<1>6. Watch(w) \in DOMAIN old => y.writes[Watch(w)] = old[Watch(w)]
  BY <1>2, <1>4
<1> QED
  BY <1>1, <1>5, <1>6 DEF old

(* The connection alone is written. *)
LEMMA ConnectionOnly ==
    ASSUME NEW conn, conn \in ConnRow
    PROVE  LET W == Only(Conn, conn) IN
           /\ DOMAIN W = {Conn} /\ DOMAIN W \subseteq Rows
           /\ \A r \in DOMAIN W : RowOK(r, W[r])
           /\ \A w \in Watches : Watch(w) \notin DOMAIN W
           /\ \A f \in Files : Doc(f) \notin DOMAIN W
<1> DEFINE W == Only(Conn, conn)
<1>1. DOMAIN W = {Conn} /\ W[Conn] = conn
  BY OnlyRow
<1> HIDE DEF W
<1>2. \A r \in DOMAIN W : RowOK(r, W[r])
  BY <1>1, RowKinds
<1>3. DOMAIN W \subseteq Rows
  BY <1>1, RowSets
<1>4. \A w : Watch(w) \notin DOMAIN W /\ Doc(w) \notin DOMAIN W
  BY <1>1, RowNames
<1> QED
  BY <1>1, <1>2, <1>3, <1>4 DEF W

LEMMA RefreshGrantedStep ==
    ASSUME SourceInv, NEW t \in Txs, RefreshGranted(t)
    PROVE  SourceInv'
<1> DEFINE W == Only(Conn, Refreshed(t))
           y == Having(t, W)
           stage == IF tx[t].todo = <<>> THEN "page" ELSE "fetch"
           x == [y EXCEPT !.stage = stage]
<1>1. TxOK(tx[t], db) /\ IsTx(tx[t]) /\ LocksOK(tx[t]) /\ NotedOK(tx[t])
  BY DEF SourceInv, TxOK
<1>2. tx[t].stage = "refresh" /\ BlockedBy(t) = {} /\ UNCHANGED <<provider, db, outcome>>
  BY DEF RefreshGranted, Unblocked, At, ghosts
<1>3. tx' = [tx EXCEPT ![t] = x]
  BY Zenon DEF RefreshGranted
<1>4. Refreshed(t) \in ConnRow
  <2>1. Row(t, Conn) \in ConnRow
    BY RowIsOK
  <2>2. CASE V1(t)
    <3>1. Row(t, Conn).status = Row(t, Conn).status
      OBVIOUS
    <3>2. Refreshed(t) = [Row(t, Conn) EXCEPT !.token = "live", !.status = Row(t, Conn).status]
      BY <2>2, <2>1 DEF Refreshed, ConnRow
    <3> QED
      BY <2>1, <3>2 DEF ConnRow
  <2>3. CASE ~V1(t)
    <3>1. Refreshed(t) = [Row(t, Conn) EXCEPT !.token = "live", !.status = "connected"]
      BY <2>3 DEF Refreshed
    <3> QED
      BY <2>1, <3>1, ConnectionRows
  <2> QED
    BY <2>2, <2>3
<1>5. /\ DOMAIN W = {Conn} /\ DOMAIN W \subseteq Rows
      /\ \A r \in DOMAIN W : RowOK(r, W[r])
      /\ \A w \in Watches : Watch(w) \notin DOMAIN W
      /\ \A f \in Files : Doc(f) \notin DOMAIN W
  BY <1>4, ConnectionOnly
<1> HIDE DEF W
<1>6. DOMAIN tx[t] = TxFields
  BY <1>1 DEF IsTx
<1>7. /\ DOMAIN y = TxFields
      /\ y.writes = W ++ tx[t].writes /\ y.locks = tx[t].locks \cup DOMAIN W
      /\ y.kind = tx[t].kind /\ y.todo = tx[t].todo
      /\ y.at = tx[t].at /\ y.first = tx[t].first /\ y.more = tx[t].more /\ y.held = tx[t].held
      /\ y.content = tx[t].content /\ y.same = tx[t].same /\ y.seen = tx[t].seen
      /\ y.results = tx[t].results
  BY <1>6, HavingFields
<1>8. stage \in {"page", "fetch"} /\ (stage = "page" <=> tx[t].todo = <<>>)
  OBVIOUS
<1> HIDE DEF y, stage
<1>9. /\ DOMAIN x = TxFields /\ x.stage = stage
      /\ x.writes = y.writes /\ x.locks = y.locks /\ x.kind = y.kind /\ x.todo = y.todo
      /\ x.at = y.at /\ x.first = y.first /\ x.more = y.more /\ x.held = y.held
      /\ x.content = y.content /\ x.same = y.same /\ x.seen = y.seen
      /\ x.results = y.results
  BY <1>7 DEF TxFields
<1> HIDE DEF x
<1>10. IsTx(x)
  <2>1. x.todo \in Seq(Op) /\ x.at \in 0..MaxChanges /\ x.first \in BOOLEAN /\ x.more \in BOOLEAN /\ x.kind \in Kinds
        /\ x.content \in Contents \cup {NoContent} /\ x.seen \in 0..MaxChanges
        /\ (x.more => x.kind = "delta") /\ x.held \in ConnRow
    BY <1>1, <1>2, <1>7, <1>9 DEF IsTx
  <2>2. DOMAIN x.results \subseteq Watches /\ \A w \in DOMAIN x.results : x.results[w] \in Result
    BY <1>1, <1>7, <1>9 DEF IsTx
  <2>3. x.locks \subseteq Rows
    BY <1>1, <1>5, <1>7, <1>9 DEF IsTx
  <2>4. x.stage = "page" => x.kind = "delta"
    BY <1>1, <1>2, <1>7, <1>8, <1>9 DEF IsTx
  <2> QED
    BY <1>8, <1>9, <2>1, <2>2, <2>3, <2>4 DEF IsTx
<1>11. NotedOK(x)
  BY <1>1, <1>5, <1>7, <1>9, NotedKept
<1>12. Checking(x) => x.todo # <<>> /\ Watch(Head(x.todo).file) \in x.locks
  BY <1>1, <1>2, <1>7, <1>8, <1>9 DEF LocksOK, Checking
<1>13. x.stage \notin {"idle", "store"}
  BY <1>8, <1>9
<1>14. x.writes = W ++ tx[t].writes /\ x.locks = tx[t].locks \cup DOMAIN W
  BY <1>7, <1>9
<1>15. TxOK(x, db)
  BY <1>5, <1>10, <1>11, <1>12, <1>13, <1>14, RowsWritten
<1>16. \A u \in Txs \ {t} : x.locks \cap tx[u].locks = {}
  <2>1. Conn \in Wants(t)
    BY <1>2 DEF Wants, CurrentOp, At
  <2>2. x.locks \subseteq tx[t].locks \cup Wants(t)
    BY <1>5, <1>14, <2>1
  <2> QED
    BY <1>2, <2>2, WantedRows
<1> QED
  BY <1>2, <1>3, <1>15, <1>16, OneMoves

LEMMA RefreshDeniedStep ==
    ASSUME SourceInv, NEW t \in Txs, RefreshDenied(t)
    PROVE  SourceInv'
<1> DEFINE conn == [Row(t, Conn) EXCEPT !.status = "reauth_required"]
           W == Only(Conn, conn)
<1>1. tx[t].stage = "refresh" /\ BlockedBy(t) = {} /\ UNCHANGED provider
  BY DEF RefreshDenied, Unblocked, At
<1>2. CASE tx[t].todo = <<>>
  <2> DEFINE results == <<>>
  <2>1. Rollback(t, results)
    BY <1>2, Zenon DEF RefreshDenied
  <2>2. DOMAIN results = {}
    BY NoRows
  <2> HIDE DEF results
  <2> QED
    BY <1>1, <2>1, <2>2, RolledBack
<1>3. CASE tx[t].todo # <<>>
  <2>1. Fail(t, W, TRUE)
    BY <1>3, Zenon DEF RefreshDenied
  <2>2. Checking(tx[t])
    BY <1>1, <1>3 DEF Checking
  <2>3. conn \in ConnRow
    BY RowIsOK, ConnectionRows
  <2>4. /\ DOMAIN W = {Conn} /\ DOMAIN W \subseteq Rows
        /\ \A r \in DOMAIN W : RowOK(r, W[r])
        /\ \A w \in Watches : Watch(w) \notin DOMAIN W
        /\ \A f \in Files : Doc(f) \notin DOMAIN W
    BY <2>3, ConnectionOnly
  <2> DEFINE locks == tx[t].locks \cup Wants(t)
  <2>5. \A u \in Txs \ {t} : locks \cap tx[u].locks = {}
    BY <1>1, WantedRows
  <2>6. Conn \in Wants(t)
    BY <1>1 DEF Wants, CurrentOp, At
  <2>7. tx[t].locks \cup DOMAIN W \subseteq locks /\ Conn \in locks
    BY <2>4, <2>6
  <2> HIDE DEF W, locks
  <2> QED
    BY <1>1, <2>1, <2>2, <2>4, <2>5, <2>7, CheckFails
<1> QED
  BY <1>2, <1>3

(* What a check that stores has in hand. *)
LEMMA StoringFile ==
    ASSUME SourceInv, NEW t \in Txs, Unblocked(t, "store")
    PROVE  /\ Checking(tx[t]) /\ BlockedBy(t) = {} /\ tx[t].stage = "store"
           /\ HeadFile(t) \in Files /\ HeadFile(t) \in Watches
           /\ Watch(HeadFile(t)) \in tx[t].locks
           /\ tx[t].kind \in Kinds /\ tx[t].content \in Contents
           /\ tx[t].same = (Row(t, Doc(HeadFile(t))).sha = tx[t].content)
           /\ V1(t) => Conn \in Wants(t)
           /\ ~tx[t].same => Doc(HeadFile(t)) \in Wants(t)
           /\ tx[t].locks \subseteq Rows
           /\ IsTx(tx[t])
<1>1. tx[t].stage = "store" /\ BlockedBy(t) = {}
  BY DEF Unblocked, At
<1>2. Checking(tx[t])
  BY <1>1 DEF Checking
<1>3. IsTx(tx[t]) /\ ReadOK(tx[t], db)
  BY DEF SourceInv, TxOK
<1>4. tx[t].same = (Row(t, Doc(HeadFile(t))).sha = tx[t].content)
  <2>1. tx[t].same = (Read(tx[t], db, Doc(Head(tx[t].todo).file)).sha = tx[t].content)
    BY <1>1, <1>3, Zenon DEF ReadOK
  <2> QED
    BY <2>1, Zenon DEF Read, Row, HeadFile
<1>5. Wants(t) = (IF tx[t].same THEN {} ELSE {Doc(HeadFile(t))})
                     \cup (IF V1(t) THEN {Conn} ELSE {})
  BY <1>1 DEF Wants, CurrentOp, At
<1> QED
  BY <1>1, <1>2, <1>3, <1>4, <1>5, CheckedFile, RowSets

LEMMA ConnectionWritten ==
    ASSUME SourceInv, NEW t \in Txs
    PROVE  /\ DOMAIN ConnWritten(t) \subseteq (IF V1(t) THEN {Conn} ELSE {})
           /\ \A r \in DOMAIN ConnWritten(t) : RowOK(r, ConnWritten(t)[r])
<1> DEFINE conn == [Row(t, Conn) EXCEPT !.status = "connected"]
<1>1. conn \in ConnRow
  BY RowIsOK, ConnectionRows
<1>2. CASE V1(t)
  <2>1. ConnWritten(t) = Only(Conn, conn)
    BY <1>2 DEF ConnWritten
  <2> HIDE DEF conn
  <2>2. LET W == Only(Conn, conn) IN
        /\ DOMAIN W = {Conn} /\ \A r \in DOMAIN W : RowOK(r, W[r])
    BY <1>1, ConnectionOnly
  <2> QED
    BY <2>1, <2>2, <1>2
<1>3. CASE ~V1(t)
  <2>1. ConnWritten(t) = <<>>
    BY <1>3 DEF ConnWritten
  <2> QED
    BY <2>1, NoRows
<1> QED
  BY <1>2, <1>3

LEMMA UnchangedStep ==
    ASSUME SourceInv, NEW t \in Txs, Unchanged(t)
    PROVE  SourceInv'
<1> DEFINE f == HeadFile(t)
           row == Fresh(t, "unchanged")
           B == ConnWritten(t)
           W == Only(Watch(f), row) ++ B
<1>1. Unblocked(t, "store") /\ UNCHANGED <<provider, db, outcome>>
      /\ tx' = [tx EXCEPT ![t] = Checked(t, W, "unchanged")]
  BY Zenon DEF Unchanged, ghosts
<1>2. /\ Checking(tx[t]) /\ BlockedBy(t) = {} /\ tx[t].stage = "store"
      /\ f \in Watches /\ Watch(f) \in tx[t].locks
      /\ (V1(t) => Conn \in Wants(t)) /\ IsTx(tx[t])
  BY <1>1, StoringFile
<1>3. WatchOK(row)
  <2>1. WatchOK(Row(t, Watch(f)))
    BY <1>2, RowIsOK
  <2> QED
    BY <1>2, <2>1, FreshWatch
<1>4. DOMAIN B \subseteq (IF V1(t) THEN {Conn} ELSE {}) /\ \A r \in DOMAIN B : RowOK(r, B[r])
  BY ConnectionWritten
<1> HIDE DEF row, B, f
<1>5. LET all == Only(Watch(f), row) ++ B ++ <<>> IN
      /\ DOMAIN all = {Watch(f)} \cup DOMAIN B \cup DOMAIN <<>>
      /\ all[Watch(f)] = row
      /\ \A r \in DOMAIN all : RowOK(r, all[r])
  <2>1. \A r \in DOMAIN <<>> : RowOK(r, <<>>[r])
    BY NoRows
  <2> QED
    BY <1>2, <1>3, <1>4, <2>1, RowsAfterCheck
<1>6. W ++ <<>> = W
  BY NoRows DEF ++
<1>7. DOMAIN W = {Watch(f)} \cup DOMAIN B /\ \A r \in DOMAIN W : RowOK(r, W[r])
  BY <1>5, <1>6, NoRows
<1> HIDE DEF W
<1>8. DOMAIN W \subseteq Rows /\ Watch(f) \in DOMAIN W
  BY <1>2, <1>4, <1>7, RowSets
<1>9. /\ \A g \in Files : Doc(g) \in DOMAIN W => g = f
      /\ \A w \in Watches : Watch(w) \in DOMAIN W => w = f
  BY <1>4, <1>7, RowNames
<1>10. \A u \in Txs \ {t} : (tx[t].locks \cup DOMAIN W) \cap tx[u].locks = {}
  <2>1. tx[t].locks \cup DOMAIN W \subseteq tx[t].locks \cup Wants(t)
    BY <1>2, <1>4, <1>7
  <2> QED
    BY <1>2, <2>1, WantedRows
<1>11. "unchanged" \in Result /\ "unchanged" # "failed"
  BY DEF Result
<1> QED
  BY <1>1, <1>2, <1>7, <1>8, <1>9, <1>10, <1>11, CheckEndsStep DEF f

LEMMA ChangedStep ==
    ASSUME SourceInv, NEW t \in Txs, Changed(t)
    PROVE  SourceInv'
<1> DEFINE f == HeadFile(t)
           row == Fresh(t, "changed")
           doc == Row(t, Doc(f))
           D == Only(Doc(f), Imported(t, doc))
           B == ConnWritten(t)
           W == Only(Watch(f), row) ++ D ++ B
<1>1. Unblocked(t, "store") /\ ~tx[t].same /\ UNCHANGED <<provider, db, outcome>>
      /\ tx' = [tx EXCEPT ![t] = Checked(t, W, "changed")]
  BY Zenon DEF Changed, ghosts
<1>2. /\ Checking(tx[t]) /\ BlockedBy(t) = {} /\ tx[t].stage = "store"
      /\ f \in Watches /\ f \in Files /\ Watch(f) \in tx[t].locks
      /\ (V1(t) => Conn \in Wants(t)) /\ Doc(f) \in Wants(t) /\ IsTx(tx[t])
      /\ tx[t].kind \in Kinds /\ tx[t].content \in Contents
      /\ tx[t].same = (doc.sha = tx[t].content)
  BY <1>1, StoringFile
<1>3. WatchOK(row)
  <2>1. WatchOK(Row(t, Watch(f)))
    BY <1>2, RowIsOK
  <2> QED
    BY <1>2, <2>1, FreshWatch
<1>4. DOMAIN B \subseteq (IF V1(t) THEN {Conn} ELSE {}) /\ \A r \in DOMAIN B : RowOK(r, B[r])
  BY ConnectionWritten
<1>5. DocOK(Imported(t, doc))
  <2>1. DocOK(doc)
    BY <1>2, RowIsOK
  <2>2. doc.sha # tx[t].content
    BY <1>1, <1>2
  <2> HIDE DEF doc
  <2> QED
    BY <1>2, <2>1, <2>2, ImportedDocument
<1>6. DOMAIN D = {Doc(f)} /\ \A r \in DOMAIN D : RowOK(r, D[r])
  <2>1. DOMAIN D = {Doc(f)} /\ D[Doc(f)] = Imported(t, doc)
    BY OnlyRow
  <2>2. RowOK(Doc(f), Imported(t, doc))
    BY <1>2, <1>5, RowKinds
  <2> HIDE DEF D
  <2> QED
    BY <2>1, <2>2
<1> HIDE DEF row, B, D, f
<1>7. LET all == Only(Watch(f), row) ++ D ++ B IN
      /\ DOMAIN all = {Watch(f)} \cup DOMAIN D \cup DOMAIN B
      /\ all[Watch(f)] = row
      /\ \A r \in DOMAIN all : RowOK(r, all[r])
  BY <1>2, <1>3, <1>4, <1>6, RowsAfterCheck
<1>8. DOMAIN W = {Watch(f), Doc(f)} \cup DOMAIN B /\ \A r \in DOMAIN W : RowOK(r, W[r])
  BY <1>6, <1>7
<1> HIDE DEF W
<1>9. DOMAIN W \subseteq Rows /\ Watch(f) \in DOMAIN W
  BY <1>2, <1>4, <1>8, RowSets
<1>10. /\ \A g \in Files : Doc(g) \in DOMAIN W => g = f
       /\ \A w \in Watches : Watch(w) \in DOMAIN W => w = f
  BY <1>4, <1>8, RowNames
<1>11. \A u \in Txs \ {t} : (tx[t].locks \cup DOMAIN W) \cap tx[u].locks = {}
  <2>1. tx[t].locks \cup DOMAIN W \subseteq tx[t].locks \cup Wants(t)
    BY <1>2, <1>4, <1>8
  <2> QED
    BY <1>2, <2>1, WantedRows
<1>12. "changed" \in Result /\ "changed" # "failed"
  BY DEF Result
<1> QED
  BY <1>1, <1>2, <1>8, <1>9, <1>10, <1>11, <1>12, CheckEndsStep DEF f

LEMMA UploadFailsStep ==
    ASSUME SourceInv, NEW t \in Txs, UploadFails(t)
    PROVE  SourceInv'
<1> DEFINE f == HeadFile(t)
           doc == Row(t, Doc(f))
           left == IF doc.sha = NoContent THEN [doc EXCEPT !.objects = @ + 1]
                   ELSE Advanced(t, doc)
           W == Only(Doc(f), left)
           locks == tx[t].locks \cup Wants(t)
<1>1. Unblocked(t, "store") /\ ~tx[t].same /\ "upload" \in Failures
      /\ Fail(t, W, FALSE) /\ UNCHANGED provider
  BY Zenon DEF UploadFails, Fault
<1>2. /\ Checking(tx[t]) /\ BlockedBy(t) = {} /\ f \in Files /\ Doc(f) \in Wants(t)
      /\ tx[t].kind \in Kinds
  BY <1>1, StoringFile
<1>3. DocOK(doc)
  BY <1>2, RowIsOK
<1>4. V1(t) \/ tx[t].kind = "batch" => DocOK(left)
  <2> HIDE DEF doc
  <2> QED
    BY <1>1, <1>2, <1>3, HalfImportedDocument
<1> HIDE DEF left
<1>5. DOMAIN W = {Doc(f)} /\ W[Doc(f)] = left
  BY OnlyRow
<1> HIDE DEF W
<1>6. V1(t) \/ tx[t].kind = "batch" => \A r \in DOMAIN W : RowOK(r, W[r])
  BY <1>2, <1>4, <1>5, RowKinds
<1>7. /\ DOMAIN W \subseteq Rows
      /\ \A w \in Watches : Watch(w) \notin DOMAIN W
      /\ \A g \in Files : Doc(g) \in DOMAIN W => g = HeadFile(t)
  BY <1>2, <1>5, RowSets, RowNames
<1>8. \A u \in Txs \ {t} : locks \cap tx[u].locks = {}
  BY <1>2, WantedRows
<1>9. tx[t].locks \cup DOMAIN W \subseteq locks /\ FALSE \in BOOLEAN
  BY <1>2, <1>5
<1> HIDE DEF locks
<1> QED
  BY <1>1, <1>2, <1>6, <1>7, <1>8, <1>9, CheckFails

LEMMA RefusedStep ==
    ASSUME SourceInv, NEW t \in Txs, Refused(t)
    PROVE  SourceInv'
<1> DEFINE f == HeadFile(t)
           results == Only(f, "failed")
<1>1. Unblocked(t, "store") /\ tx[t].content \in Poison /\ Rollback(t, results)
      /\ UNCHANGED provider
  BY Zenon DEF Refused
<1>2. f \in Watches
  BY <1>1, StoringFile
<1>3. DOMAIN results = {f} /\ results[f] = "failed"
  BY OnlyRow
<1> HIDE DEF results
<1>4. DOMAIN results \subseteq Watches /\ \A w \in DOMAIN results : results[w] \in Result
  BY <1>2, <1>3 DEF Result
<1>5. ~FailuresAlone
  BY <1>1 DEF FailuresAlone
<1> QED
  BY <1>1, <1>4, <1>5, RolledBack

-----------------------------------------------------------------------------
(* The steps between checks                                                *)

LEMMA EndBatchStep ==
    ASSUME SourceInv, NEW t \in Txs, EndBatch(t)
    PROVE  SourceInv'
<1> DEFINE marked == [r \in StaleRows(t) |-> StaleMarked(Row(t, r))]
           W == IF V1(t) THEN marked ELSE <<>>
<1>1. Commit(t, W) /\ UNCHANGED provider
  BY Zenon DEF EndBatch
<1>2. \A r \in StaleRows(t) : \E w \in Watches : r = Watch(w) /\ Row(t, r).status = "fresh"
  BY DEF StaleRows, Stale
<1>3. \A r \in StaleRows(t) : RowOK(r, StaleMarked(Row(t, r)))
  <2> SUFFICES ASSUME NEW r \in StaleRows(t) PROVE RowOK(r, StaleMarked(Row(t, r)))
    OBVIOUS
  <2>1. PICK w \in Watches : r = Watch(w)
    BY <1>2
  <2>2. WatchOK(StaleMarked(Row(t, Watch(w))))
    BY RowIsOK, NewWatches
  <2> QED
    BY <2>1, <2>2, RowKinds
<1>4. DOMAIN marked = StaleRows(t) /\ \A r \in DOMAIN marked : RowOK(r, marked[r])
  BY <1>3
<1> HIDE DEF marked
<1>5. /\ DOMAIN W \subseteq StaleRows(t)
      /\ \A r \in DOMAIN W : RowOK(r, W[r])
  <2>1. CASE V1(t)
    BY <1>4, <2>1
  <2>2. CASE ~V1(t)
    BY <2>2, NoRows
  <2> QED
    BY <2>1, <2>2
<1> HIDE DEF W
<1>6. /\ DOMAIN W \subseteq Rows
      /\ \A f \in Files : Doc(f) \notin DOMAIN W
      /\ \A w \in Watches : Watch(w) \in DOMAIN W => Row(t, Watch(w)).status = "fresh"
  BY <1>2, <1>5, RowSets, RowNames
<1> QED
  BY <1>1, <1>5, <1>6, Committed

LEMMA EndDeltaStep ==
    ASSUME SourceInv, NEW t \in Txs, EndDelta(t)
    PROVE  SourceInv'
<1> DEFINE conn == [Row(t, Conn) EXCEPT !.begun = TRUE, !.cursor = tx[t].at]
           W == Only(Conn, conn)
<1>1. Commit(t, W) /\ UNCHANGED provider
  BY Zenon DEF EndDelta, NewCursor
<1>2. conn \in ConnRow
  <2>1. tx[t].at \in 0..MaxChanges
    BY DEF SourceInv, TxOK, IsTx
  <2> QED
    BY <2>1, RowIsOK, ConnectionCursor
<1> HIDE DEF conn
<1>3. /\ DOMAIN W = {Conn} /\ DOMAIN W \subseteq Rows
      /\ \A r \in DOMAIN W : RowOK(r, W[r])
      /\ \A w \in Watches : Watch(w) \notin DOMAIN W
      /\ \A f \in Files : Doc(f) \notin DOMAIN W
  BY <1>2, ConnectionOnly
<1> HIDE DEF W
<1> QED
  BY <1>1, <1>3, Committed

LEMMA FailedCallStep ==
    ASSUME SourceInv, NEW t \in Txs, PageFails(t) \/ DeadlockVictim(t) \/ Exit(t)
    PROVE  SourceInv'
<1> DEFINE results == <<>>
<1>1. Rollback(t, results) /\ UNCHANGED provider
  BY Zenon DEF PageFails, DeadlockVictim, Exit
<1>2. DOMAIN results = {}
  BY NoRows
<1> HIDE DEF results
<1> QED
  BY <1>1, <1>2, RolledBack

LEMMA NextPageStep ==
    ASSUME SourceInv, NEW t \in Txs, NextPage(t)
    PROVE  SourceInv'
<1> DEFINE x == tx'[t]
<1>1. TxOK(tx[t], db) /\ IsTx(tx[t]) /\ LocksOK(tx[t]) /\ DOMAIN tx = Txs
  BY DEF SourceInv, TxOK
<1>2. tx[t].stage = "next" /\ tx[t].todo = <<>> /\ tx[t].more
      /\ tx' = [tx EXCEPT ![t].stage = "page"] /\ UNCHANGED <<provider, db, outcome>>
  BY DEF NextPage, At, ghosts
<1>3. DOMAIN tx' = Txs /\ \A u \in Txs : u # t => tx'[u] = tx[u]
  BY <1>1, <1>2
<1>4. DOMAIN tx[t] = TxFields
  BY <1>1 DEF IsTx
<1>5. /\ DOMAIN x = TxFields
      /\ x.kind = tx[t].kind /\ x.stage = "page" /\ x.todo = tx[t].todo
      /\ x.at = tx[t].at /\ x.first = tx[t].first /\ x.more = tx[t].more /\ x.held = tx[t].held
      /\ x.content = tx[t].content /\ x.same = tx[t].same /\ x.seen = tx[t].seen
      /\ x.writes = tx[t].writes /\ x.locks = tx[t].locks /\ x.results = tx[t].results
  BY <1>1, <1>2, <1>4 DEF TxFields
<1> HIDE DEF x
<1>6. IsTx(x)
  <2>1. x.todo \in Seq(Op) /\ x.at \in 0..MaxChanges /\ x.first \in BOOLEAN /\ x.more \in BOOLEAN /\ x.kind \in Kinds
        /\ x.content \in Contents \cup {NoContent} /\ x.seen \in 0..MaxChanges
        /\ x.kind = "delta" /\ x.locks \subseteq Rows /\ x.held \in ConnRow
    BY <1>1, <1>2, <1>5 DEF IsTx
  <2>2. DOMAIN x.results \subseteq Watches /\ \A w \in DOMAIN x.results : x.results[w] \in Result
    BY <1>1, <1>5 DEF IsTx
  <2> QED
    BY <1>5, <2>1, <2>2 DEF IsTx
<1>7. LocksOK(x)
  BY <1>1, <1>5 DEF LocksOK, Checking
<1>8. TxOK(x, db)
  BY <1>1, <1>5, <1>6, <1>7, NothingWritten
<1>9. \A u \in Txs \ {t} : x.locks \cap tx[u].locks = {}
  BY <1>5, OwnRows
<1> QED
  BY <1>2, <1>3, <1>8, <1>9, Moves DEF x

LEMMA OpsOfChange ==
    ASSUME NEW t, NEW change \in [file : Files, deleted : BOOLEAN], NEW first \in BOOLEAN,
           "delta" \in Kinds
    PROVE  OpsOf(t, change, first) \in Seq(Op)
<1> DEFINE f == change.file
           own == IF Row(t, Watch(f)).enabled
                    THEN <<[op |-> IF change.deleted THEN "drop" ELSE "sync", file |-> f]>>
                    ELSE <<>>
           folder == IF Row(t, Watch(Folder)).enabled /\ ~change.deleted
                       THEN <<[op |-> "adopt", file |-> f], SyncOf(f)>> ELSE <<>>
<1>1. f \in Files
  OBVIOUS
<1>2. [op |-> "adopt", file |-> f] \in Op /\ [op |-> "drop", file |-> f] \in Op
      /\ [op |-> "sync", file |-> f] \in Op /\ SyncOf(f) \in Op
  BY <1>1, SyncOps
<1>3. own \in Seq(Op)
  BY <1>2
<1>4. folder \in Seq(Op)
  BY <1>2
<1>5. OpsOf(t, change, first) = IF first THEN folder \o own ELSE own \o folder
  BY Zenon DEF OpsOf
<1> HIDE DEF own, folder
<1> QED
  BY <1>3, <1>4, <1>5

LEMMA Elements ==
    ASSUME NEW S, NEW seq \in Seq(S)
    PROVE  \A i \in 1..Len(seq) : seq[i] \in S
OBVIOUS

LEMMA ReadPageStep ==
    ASSUME SourceInv, NEW t \in Txs, ReadPage(t)
    PROVE  SourceInv'
<1> DEFINE at == PageEnd(t)
           more == PageEnd(t) < Len(feed)
           n == PageEnd(t) - tx[t].at
           x == tx'[t]
<1>1. TxOK(tx[t], db) /\ IsTx(tx[t]) /\ LocksOK(tx[t]) /\ DOMAIN tx = Txs /\ ProviderOK
  BY DEF SourceInv, TxOK
<1>2. tx[t].stage = "page" /\ UNCHANGED <<provider, db, outcome>>
  BY DEF ReadPage, At, ghosts
<1>3. PICK first \in BOOLEAN :
         tx' = [tx EXCEPT ![t].stage = "next", ![t].at = at, ![t].more = more,
                  ![t].todo = FlattenSeq([i \in 1..n |-> OpsOf(t, feed[tx[t].at + i], first)])]
  BY Zenon DEF ReadPage
<1> DEFINE seqs == [i \in 1..n |-> OpsOf(t, feed[tx[t].at + i], first)]
           todo == FlattenSeq(seqs)
<1>4. tx[t].kind = "delta" /\ "delta" \in Kinds /\ tx[t].at \in 0..MaxChanges
  BY <1>1, <1>2 DEF IsTx
<1>5. Len(feed) \in Nat /\ Len(feed) <= MaxChanges /\ MaxChanges \in Nat /\ BatchLimit \in Nat
      /\ PageLimit \in Nat \ {0} /\ feed \in Seq([file : Files, deleted : BOOLEAN])
  BY <1>1, SourceSyncAssumption DEF ProviderOK
<1>6. at \in 0..MaxChanges /\ at <= Len(feed) /\ more \in BOOLEAN /\ n \in Int
  BY <1>4, <1>5 DEF PageEnd
<1>7. seqs \in Seq(Seq(Op))
  <2>1. ASSUME NEW i \in 1..n PROVE OpsOf(t, feed[tx[t].at + i], first) \in Seq(Op)
    <3>1. tx[t].at + i \in 1..Len(feed)
      BY <1>4, <1>5, <1>6
    <3>2. \A j \in 1..Len(feed) : feed[j] \in [file : Files, deleted : BOOLEAN]
      BY <1>5, Elements, Zenon
    <3>3. feed[tx[t].at + i] \in [file : Files, deleted : BOOLEAN]
      BY <3>1, <3>2
    <3> QED
      BY <3>3, <1>4, OpsOfChange
  <2> DEFINE m == IF n >= 0 THEN n ELSE 0
  <2>2. m \in Nat /\ 1..n = 1..m
    BY <1>6
  <2> HIDE DEF n
  <2>3. seqs \in [1..m -> Seq(Op)]
    BY <2>1, <2>2
  <2> HIDE DEF m, seqs
  <2> QED
    BY <2>2, <2>3
<1>8. todo \in Seq(Op)
  <2> HIDE DEF seqs, todo
  <2>1. FlattenSeq(seqs) \in Seq(Op)
    BY <1>7, FlattenType
  <2> QED
    BY <2>1 DEF todo
<1>9. tx' = [tx EXCEPT ![t].stage = "next", ![t].at = at, ![t].more = more, ![t].todo = todo]
  BY <1>3
<1> HIDE DEF at, more, todo
<1>10. DOMAIN tx' = Txs /\ \A u \in Txs : u # t => tx'[u] = tx[u]
  BY <1>1, <1>9
<1>11. DOMAIN tx[t] = TxFields
  BY <1>1 DEF IsTx
<1>12. /\ DOMAIN x = TxFields
       /\ x.kind = tx[t].kind /\ x.stage = "next" /\ x.todo = todo
       /\ x.at = at /\ x.first = tx[t].first /\ x.more = more /\ x.held = tx[t].held
       /\ x.content = tx[t].content /\ x.same = tx[t].same /\ x.seen = tx[t].seen
       /\ x.writes = tx[t].writes /\ x.locks = tx[t].locks /\ x.results = tx[t].results
  BY <1>1, <1>9, <1>11 DEF TxFields
<1> HIDE DEF x
<1>13. IsTx(x)
  <2>1. x.kind = "delta" /\ x.kind \in Kinds /\ x.first \in BOOLEAN
        /\ x.content \in Contents \cup {NoContent} /\ x.seen \in 0..MaxChanges
        /\ x.locks \subseteq Rows /\ x.held \in ConnRow
    BY <1>1, <1>4, <1>12 DEF IsTx
  <2>2. DOMAIN x.results \subseteq Watches /\ \A w \in DOMAIN x.results : x.results[w] \in Result
    BY <1>1, <1>12 DEF IsTx
  <2> QED
    BY <1>6, <1>8, <1>12, <2>1, <2>2 DEF IsTx
<1>14. LocksOK(x)
  BY <1>1, <1>12 DEF LocksOK, Checking
<1>15. TxOK(x, db)
  BY <1>1, <1>12, <1>13, <1>14, NothingWritten
<1>16. \A u \in Txs \ {t} : x.locks \cap tx[u].locks = {}
  BY <1>12, OwnRows
<1> QED
  BY <1>2, <1>10, <1>15, <1>16, Moves DEF x

(* The transaction that has a start page token: no change, nothing to do. *)
Started(t, x) ==
    /\ DOMAIN x = TxFields
    /\ x.kind = tx[t].kind /\ x.stage = "next" /\ x.todo = tx[t].todo
    /\ x.at = Len(feed) /\ x.first = FALSE /\ x.more = tx[t].more /\ x.held = tx[t].held
    /\ x.content = tx[t].content /\ x.same = tx[t].same /\ x.seen = tx[t].seen
    /\ x.writes = tx[t].writes /\ x.locks = tx[t].locks /\ x.results = tx[t].results

LEMMA StartedFields ==
    ASSUME SourceInv, NEW t \in Txs, StartPage(t)
    PROVE  /\ tx[t].stage = "page" /\ DOMAIN tx = Txs /\ DOMAIN tx' = Txs
           /\ \A u \in Txs : u # t => tx'[u] = tx[u]
           /\ Started(t, tx'[t])
           /\ skipped' = skipped \cup 1..Len(feed) /\ remote' = remote /\ feed' = feed
           /\ db' = db /\ outcome' = outcome
<1> DEFINE n == Len(feed)
           x == tx'[t]
<1>1. tx[t].stage = "page" /\ skipped' = skipped \cup 1..Len(feed) /\ remote' = remote
      /\ feed' = feed /\ db' = db /\ outcome' = outcome
      /\ tx' = [tx EXCEPT ![t].stage = "next", ![t].at = n, ![t].first = FALSE]
  BY DEF StartPage, At, ghosts
<1>2. DOMAIN tx = Txs /\ DOMAIN tx[t] = TxFields
  BY DEF SourceInv, TxOK, IsTx
<1> HIDE DEF n
<1>3. DOMAIN tx' = Txs /\ \A u \in Txs : u # t => tx'[u] = tx[u]
  BY <1>1, <1>2
<1>4. /\ DOMAIN x = TxFields
      /\ x.kind = tx[t].kind /\ x.stage = "next" /\ x.todo = tx[t].todo
      /\ x.at = n /\ x.first = FALSE /\ x.more = tx[t].more /\ x.held = tx[t].held
      /\ x.content = tx[t].content /\ x.same = tx[t].same /\ x.seen = tx[t].seen
      /\ x.writes = tx[t].writes /\ x.locks = tx[t].locks /\ x.results = tx[t].results
  BY <1>1, <1>2 DEF TxFields
<1> QED
  BY <1>1, <1>2, <1>3, <1>4 DEF Started, n

LEMMA StartPageStep ==
    ASSUME SourceInv, NEW t \in Txs, StartPage(t)
    PROVE  SourceInv'
<1> DEFINE x == tx'[t]
<1>1. TxOK(tx[t], db) /\ IsTx(tx[t]) /\ LocksOK(tx[t]) /\ ProviderOK
  BY DEF SourceInv, TxOK
<1>2. /\ tx[t].stage = "page" /\ DOMAIN tx' = Txs /\ \A u \in Txs : u # t => tx'[u] = tx[u]
      /\ skipped' = skipped \cup 1..Len(feed) /\ remote' = remote /\ feed' = feed
      /\ db' = db /\ outcome' = outcome
  BY StartedFields
<1>3. Started(t, x)
  BY StartedFields
<1> HIDE DEF x
<1>4. IsTx(x)
  <2>1. x.todo \in Seq(Op) /\ x.at \in 0..MaxChanges /\ x.first \in BOOLEAN /\ x.more \in BOOLEAN
        /\ x.kind \in Kinds /\ x.content \in Contents \cup {NoContent} /\ x.seen \in 0..MaxChanges
        /\ x.kind = "delta" /\ x.locks \subseteq Rows /\ x.held \in ConnRow
    <3>1. tx[t].kind = "delta" /\ tx[t].kind \in Kinds /\ Len(feed) \in 0..MaxChanges
      BY <1>1, <1>2, SourceSyncAssumption DEF IsTx, ProviderOK
    <3> QED
      BY <1>1, <1>3, <3>1 DEF IsTx, Started
  <2>2. DOMAIN x.results \subseteq Watches /\ \A w \in DOMAIN x.results : x.results[w] \in Result
    BY <1>1, <1>3 DEF IsTx, Started
  <2> QED
    BY <1>3, <2>1, <2>2 DEF IsTx, Started
<1>5. LocksOK(x)
  BY <1>1, <1>3 DEF LocksOK, Checking, Started
<1>6. TxOK(x, db)
  BY <1>1, <1>3, <1>4, <1>5, NothingWritten DEF Started
<1>7. \A u \in Txs \ {t} : x.locks \cap tx[u].locks = {}
  BY <1>3, OwnRows DEF Started
<1>8. ProviderOK' /\ RowsOK(db)' /\ OutcomeOK'
  BY <1>1, <1>2 DEF SourceInv, ProviderOK, RowsOK, OutcomeOK
<1>9. ASSUME NEW u \in Txs PROVE TxOK(tx'[u], db')
  BY <1>2, <1>6 DEF SourceInv, x
<1>10. ASSUME NEW u \in Txs, NEW v \in Txs, u # v PROVE tx'[u].locks \cap tx'[v].locks = {}
  <2>1. tx[u].locks \cap tx[v].locks = {}
    BY <1>10 DEF SourceInv, Apart
  <2> QED
    BY <2>1, <1>2, <1>7, <1>10 DEF x
<1> QED
  BY <1>2, <1>8, <1>9, <1>10 DEF SourceInv, Apart

(* Adopt and Drop: the rows of W are written and the operation is done. *)
LEMMA OperationDone ==
    ASSUME SourceInv, NEW t \in Txs, tx[t].stage = "next", tx[t].todo # <<>>,
           HeadOp(t) \in {"adopt", "drop"}, BlockedBy(t) = {}, NEW W,
           tx' = [tx EXCEPT ![t] = [Having(t, W) EXCEPT !.todo = Tail(@)]],
           DOMAIN W \subseteq Rows, DOMAIN W \subseteq Wants(t),
           \A r \in DOMAIN W : RowOK(r, W[r]),
           \A f \in Files : Doc(f) \in DOMAIN W => W[Doc(f)].sha = Row(t, Doc(f)).sha,
           UNCHANGED <<provider, db, outcome>>
    PROVE  SourceInv'
<1> DEFINE y == Having(t, W)
           todo == Tail(y.todo)
           x == [y EXCEPT !.todo = todo]
<1>1. TxOK(tx[t], db) /\ IsTx(tx[t]) /\ LocksOK(tx[t]) /\ NotedOK(tx[t])
  BY DEF SourceInv, TxOK
<1>2. tx' = [tx EXCEPT ![t] = x]
  OBVIOUS
<1>3. DOMAIN tx[t] = TxFields
  BY <1>1 DEF IsTx
<1> HIDE DEF x
<1>4. /\ DOMAIN y = TxFields
      /\ y.writes = W ++ tx[t].writes /\ y.locks = tx[t].locks \cup DOMAIN W
      /\ y.kind = tx[t].kind /\ y.stage = tx[t].stage /\ y.todo = tx[t].todo
      /\ y.at = tx[t].at /\ y.first = tx[t].first /\ y.more = tx[t].more /\ y.held = tx[t].held
      /\ y.content = tx[t].content /\ y.same = tx[t].same /\ y.seen = tx[t].seen
      /\ y.results = tx[t].results
  BY <1>3, HavingFields, Zenon
<1>5. todo = Tail(tx[t].todo)
  BY <1>4
<1> HIDE DEF y, todo
<1>6. /\ DOMAIN x = TxFields /\ x.todo = todo
      /\ x.writes = y.writes /\ x.locks = y.locks /\ x.kind = y.kind /\ x.stage = y.stage
      /\ x.at = y.at /\ x.first = y.first /\ x.more = y.more /\ x.held = y.held
      /\ x.content = y.content /\ x.same = y.same /\ x.seen = y.seen
      /\ x.results = y.results
  BY <1>4 DEF TxFields, x
<1>7. "delta" \in Kinds
  <2>1. Head(tx[t].todo) \in Op
    BY <1>1 DEF IsTx
  <2> QED
    BY <2>1 DEF Op, HeadOp
<1>8. IsTx(x)
  <2>1. x.todo \in Seq(Op)
    BY <1>1, <1>5, <1>6 DEF IsTx
  <2>2. x.at \in 0..MaxChanges /\ x.first \in BOOLEAN /\ x.more \in BOOLEAN /\ x.kind \in Kinds
        /\ x.content \in Contents \cup {NoContent} /\ x.seen \in 0..MaxChanges
        /\ (x.more => x.kind = "delta") /\ x.held \in ConnRow /\ x.stage = "next"
    BY <1>1, <1>4, <1>6 DEF IsTx
  <2>3. DOMAIN x.results \subseteq Watches /\ \A w \in DOMAIN x.results : x.results[w] \in Result
    BY <1>1, <1>4, <1>6 DEF IsTx
  <2>4. x.locks \subseteq Rows
    BY <1>1, <1>4, <1>6 DEF IsTx
  <2> QED
    BY <1>6, <2>1, <2>2, <2>3, <2>4 DEF IsTx
<1>9. NotedOK(x)
  BY <1>7 DEF NotedOK, FailuresAlone, WorkerAlone
<1>10. x.writes = W ++ tx[t].writes /\ x.locks = tx[t].locks \cup DOMAIN W /\ x.stage = "next"
  BY <1>4, <1>6
<1>11. TxOK(x, db)
  <2>1. ~Checking(x) /\ x.stage \notin {"idle", "store"}
    BY <1>10 DEF Checking
  <2> QED
    BY <1>8, <1>9, <1>10, <2>1, RowsWritten
<1>12. \A u \in Txs \ {t} : x.locks \cap tx[u].locks = {}
  <2>1. x.locks \subseteq tx[t].locks \cup Wants(t)
    BY <1>10
  <2> QED
    BY <2>1, WantedRows
<1> QED
  BY <1>2, <1>11, <1>12, OneMoves

LEMMA NextFile ==
    ASSUME SourceInv, NEW t \in Txs, tx[t].todo # <<>>, HeadOp(t) \in {"adopt", "drop"}
    PROVE  HeadFile(t) \in Files /\ HeadFile(t) \in Watches
<1>1. Head(tx[t].todo) \in Op
  BY DEF SourceInv, TxOK, IsTx
<1> QED
  BY <1>1 DEF Op, HeadOp, HeadFile, Watches

LEMMA AdoptStep ==
    ASSUME SourceInv, NEW t \in Txs, Adopt(t)
    PROVE  SourceInv'
<1> DEFINE f == HeadFile(t)
           r == Watch(f)
           row == Watched(Row(t, r))
           W == Only(r, row)
<1>1. tx[t].stage = "next" /\ tx[t].todo # <<>> /\ HeadOp(t) = "adopt" /\ BlockedBy(t) = {}
      /\ UNCHANGED provider
  BY DEF Adopt, CurrentOp, At
<1>2. CASE Row(t, Conn).status = "disconnected"
  <2> DEFINE results == <<>>
  <2>1. Rollback(t, results)
    BY <1>2, Zenon DEF Adopt
  <2>2. DOMAIN results = {}
    BY NoRows
  <2> HIDE DEF results
  <2> QED
    BY <1>1, <2>1, <2>2, RolledBack
<1>3. CASE Row(t, Conn).status # "disconnected"
  <2>1. tx' = [tx EXCEPT ![t] = [Having(t, W) EXCEPT !.todo = Tail(@)]]
        /\ UNCHANGED <<db, outcome>>
    BY <1>3, Zenon DEF Adopt
  <2>2. f \in Watches
    BY <1>1, NextFile
  <2>3. WatchOK(row)
    BY <2>2, RowIsOK, NewWatches
  <2>4. RowOK(r, row)
    BY <2>2, <2>3, RowKinds
  <2>5. DOMAIN W = {r} /\ W[r] = row
    BY OnlyRow
  <2>6. r \in Wants(t)
    BY <1>1 DEF Wants, CurrentOp, At
  <2>7. \A g \in Files : Doc(g) # r
    BY RowNames
  <2>8. r \in Rows
    BY <2>2, RowSets
  <2> HIDE DEF W, r, row
  <2>9. DOMAIN W \subseteq Rows /\ DOMAIN W \subseteq Wants(t)
        /\ \A q \in DOMAIN W : RowOK(q, W[q])
    BY <2>4, <2>5, <2>6, <2>8
  <2>10. \A g \in Files : Doc(g) \notin DOMAIN W
    BY <2>5, <2>7
  <2> QED
    BY <1>1, <2>1, <2>9, <2>10, OperationDone
<1> QED
  BY <1>2, <1>3

LEMMA DropStep ==
    ASSUME SourceInv, NEW t \in Txs, Drop(t)
    PROVE  SourceInv'
<1> DEFINE f == HeadFile(t)
           r == Doc(f)
           doc == Row(t, r)
           dropped == [doc EXCEPT !.current = FALSE]
           some == Only(r, dropped)
           W == IF doc.sha = NoContent THEN <<>> ELSE some
<1>1. tx[t].stage = "next" /\ tx[t].todo # <<>> /\ HeadOp(t) = "drop" /\ BlockedBy(t) = {}
      /\ UNCHANGED <<provider, db, outcome>>
  BY DEF Drop, CurrentOp, At, ghosts
<1>2. tx' = [tx EXCEPT ![t] = [Having(t, W) EXCEPT !.todo = Tail(@)]]
  BY Zenon DEF Drop
<1>3. f \in Files
  BY <1>1, NextFile
<1>4. DocOK(doc)
  BY <1>3, RowIsOK
<1>5. DocOK(dropped) /\ dropped.sha = doc.sha
  <2> HIDE DEF doc
  <2> QED
    BY <1>4, DroppedDocument
<1>6. Wants(t) = IF doc.sha = NoContent THEN {} ELSE {r}
  BY <1>1 DEF Wants, CurrentOp, At
<1> HIDE DEF dropped
<1>7. DOMAIN some = {r} /\ some[r] = dropped
  BY OnlyRow
<1>8. RowOK(r, dropped)
  BY <1>3, <1>5, RowKinds
<1>9. r \in Rows /\ \A g \in Files : Doc(g) = r => Row(t, Doc(g)) = doc
  BY <1>3, RowSets
<1> HIDE DEF r, doc, some
<1>10. /\ DOMAIN W \subseteq Rows /\ DOMAIN W \subseteq Wants(t)
       /\ \A q \in DOMAIN W : RowOK(q, W[q])
       /\ \A g \in Files : Doc(g) \in DOMAIN W => W[Doc(g)].sha = Row(t, Doc(g)).sha
  <2>1. CASE doc.sha = NoContent
    BY <2>1, NoRows
  <2>2. CASE doc.sha # NoContent
    <3>1. W = some
      BY <2>2
    <3> HIDE DEF W
    <3> QED
      BY <2>2, <3>1, <1>5, <1>6, <1>7, <1>8, <1>9
  <2> QED
    BY <2>1, <2>2
<1> HIDE DEF W
<1> QED
  BY <1>1, <1>2, <1>10, OperationDone

-----------------------------------------------------------------------------
(* The invariant                                                           *)

LEMMA InitHolds == Init => SourceInv
<1> SUFFICES ASSUME Init PROVE SourceInv
  OBVIOUS
<1> DEFINE watches == [r \in {Watch(w) : w \in Watches} |-> NoWatch]
           docs == [r \in {Doc(f) : f \in Files} |-> NoDoc]
<1>0. PICK begun \in {FALSE, FromNow} :
         db = Only(Conn, [Connected EXCEPT !.begun = begun]) ++ watches ++ docs
  BY Zenon DEF Init
<1> DEFINE conn == [Connected EXCEPT !.begun = begun]
           A == Only(Conn, conn)
           AB == A ++ watches
<1>1. /\ remote \in [Files -> Contents] /\ feed = <<>> /\ skipped = {} /\ tx = [t \in Txs |-> Idle]
      /\ outcome = [w \in Watches |-> "none"] /\ db = AB ++ docs
  BY <1>0 DEF Init
<1>2. ProviderOK
  BY <1>1, SourceSyncAssumption DEF ProviderOK
<1>3. DOMAIN A = {Conn} /\ \A r \in DOMAIN A : RowOK(r, A[r])
  <2>1. conn \in ConnRow
    BY ConnectedRow, SourceSyncAssumption DEF ConnRow
  <2> HIDE DEF conn
  <2>2. DOMAIN A = {Conn} /\ A[Conn] = conn
    BY OnlyRow
  <2> HIDE DEF A
  <2> QED
    BY <2>1, <2>2, RowKinds
<1>4. DOMAIN watches = {Watch(w) : w \in Watches} /\ \A r \in DOMAIN watches : RowOK(r, watches[r])
  BY NewWatches, RowKinds
<1>5. DOMAIN docs = {Doc(f) : f \in Files} /\ \A r \in DOMAIN docs : RowOK(r, docs[r])
  BY NewDocument, RowKinds
<1> HIDE DEF A, watches, docs
<1>6. DOMAIN AB = DOMAIN A \cup DOMAIN watches
  BY OverRows
<1>7. \A r \in DOMAIN AB : RowOK(r, AB[r])
  BY <1>3, <1>4, RowsOver, Zenon
<1> HIDE DEF AB
<1>8. DOMAIN (AB ++ docs) = DOMAIN AB \cup DOMAIN docs
  BY OverRows
<1>9. \A r \in DOMAIN (AB ++ docs) : RowOK(r, (AB ++ docs)[r])
  BY <1>5, <1>7, RowsOver, Zenon
<1>10. DOMAIN (AB ++ docs) = Rows
  BY <1>3, <1>4, <1>5, <1>6, <1>8 DEF Rows
<1>11. RowsOK(db)
  BY <1>1, <1>9, <1>10 DEF RowsOK
<1>12. \A t \in Txs : TxOK(tx[t], db)
  BY <1>1, IdleIsOK
<1>13. Apart
  BY <1>1 DEF Apart, Idle
<1>14. OutcomeOK
  BY <1>1 DEF OutcomeOK
<1> QED
  BY <1>1, <1>2, <1>11, <1>12, <1>13, <1>14 DEF SourceInv

LEMMA NextHolds == SourceInv /\ [Next]_vars => SourceInv'
<1> SUFFICES ASSUME SourceInv, [Next]_vars PROVE SourceInv'
  OBVIOUS
<1>1. CASE User
  BY <1>1, WatchFolderStep, SetEnabledStep, DisconnectStep, ReconnectStep, AskHealthStep,
     BeginManualStep DEF User
<1>2. CASE World
  BY <1>2, TokenExpiresStep, EditStep DEF World
<1>3. CASE \E f \in Files : Tick(f)
  BY <1>3, TickStep
<1>4. ASSUME NEW t \in Txs, Scheduler(t) PROVE SourceInv'
  BY <1>4, BeginBatchStep, BeginDeltaStep DEF Scheduler
<1>5. ASSUME NEW t \in Txs, Step(t) PROVE SourceInv'
  BY <1>5, LockWatchStep, AuthorizeStep, RefreshGrantedStep, FetchStep, FetchFailsStep,
     UnchangedStep, ChangedStep, RefusedStep, EndBatchStep, StartPageStep, ReadPageStep, AdoptStep, DropStep,
     NextPageStep, EndDeltaStep DEF Step
<1>6. ASSUME NEW t \in Txs, Failure(t) PROVE SourceInv'
  BY <1>6, RefreshDeniedStep, FetchFailsStep, UploadFailsStep, FailedCallStep DEF Failure
<1>7. CASE UNCHANGED vars
  <2>1. remote' = remote /\ feed' = feed /\ skipped' = skipped /\ db' = db /\ tx' = tx /\ outcome' = outcome
    BY <1>7 DEF vars
  <2> QED
    BY <2>1 DEF SourceInv, ProviderOK, RowsOK, Apart, OutcomeOK
<1> QED
  BY <1>1, <1>2, <1>3, <1>4, <1>5, <1>6, <1>7 DEF Next

(* The rows keep their types and the locks are apart, however the callers, the *)
(* user and the failures interleave; and all that follows.                    *)
LEMMA InvariantHolds == Spec => []SourceInv
BY InitHolds, NextHolds, PTL DEF Spec

-----------------------------------------------------------------------------
(* Every row has its type, and the rows a transaction wrote are locked by it *)
(* and by no other (withTransaction over PostgreSQL's row locks), for any    *)
(* number of files and transactions.                                        *)
THEOREM RowsAndLocks == Spec => []TypeOK
<1>1. SourceInv => TypeOK
  <2> SUFFICES ASSUME SourceInv PROVE TypeOK
    OBVIOUS
  <2>1. ProviderOK /\ RowsOK(db) /\ OutcomeOK
    BY DEF SourceInv
  <2>2. \A w \in Watches : db[Watch(w)] \in WatchRow
    BY <2>1, RowKinds, RowSets DEF RowsOK, WatchOK
  <2>3. ASSUME NEW f \in Files PROVE IsDoc(db[Doc(f)])
    <3> DEFINE doc == db[Doc(f)]
    <3>1. DocOK(doc)
      BY <2>1, RowKinds, RowSets DEF RowsOK
    <3> HIDE DEF doc
    <3>2. doc.artifacts \in Seq(Contents)
      BY <3>1, DocumentFields
    <3>3. DOMAIN doc.artifacts = 1..Len(doc.artifacts)
      BY <3>2
    <3>4. IsDoc(doc)
      BY <3>1, <3>3, DocumentFields DEF IsDoc, DocOK
    <3> QED
      BY <3>4 DEF doc
  <2>4. db[Conn] \in ConnRow /\ DOMAIN db = Rows
    BY <2>1, RowKinds, RowSets DEF RowsOK
  <2>5. \A t \in Txs : DOMAIN tx[t].writes \subseteq tx[t].locks \cap Rows
    BY DEF SourceInv, TxOK, IsTx, LocksOK
  <2> QED
    BY <2>1, <2>2, <2>3, <2>4, <2>5 DEF SourceInv, TypeOK, ProviderOK, Apart, OutcomeOK, Result
<1> QED
  BY <1>1, InvariantHolds, PTL

(* Checks of one file that run at the same time, whoever began them, never   *)
(* register the same content twice in a row: the row lock on the watch.      *)
THEOREM RevisionsDiffer == Spec => []NoDuplicateRevision
<1>1. SourceInv => NoDuplicateRevision
  <2> SUFFICES ASSUME SourceInv, NEW f \in Files PROVE NoTwice(db[Doc(f)].artifacts)
    BY DEF NoDuplicateRevision, NoTwice
  <2>1. DocOK(db[Doc(f)])
    BY RowKinds, RowSets DEF SourceInv, RowsOK
  <2> QED
    BY <2>1 DEF DocOK
<1> QED
  BY <1>1, InvariantHolds, PTL

(* A document that was imported has exactly one artifact in use, and it is   *)
(* the content the next check compares with: where no batch of the dispatcher *)
(* goes on after a failed upload (NoHalfImports).                           *)
THEOREM CurrentArtifactIsSingle == ASSUME NoHalfImports PROVE Spec => []OneCurrentArtifact
<1>1. SourceInv => OneCurrentArtifact
  <2> SUFFICES ASSUME SourceInv, NEW f \in Files, db[Doc(f)].sha # NoContent
               PROVE  \E i \in DOMAIN db[Doc(f)].artifacts :
                          db[Doc(f)].live = {i} /\ db[Doc(f)].artifacts[i] = db[Doc(f)].sha
    BY DEF OneCurrentArtifact
  <2> DEFINE doc == db[Doc(f)]
  <2>1. DocOK(doc)
    BY RowKinds, RowSets DEF SourceInv, RowsOK
  <2>2. /\ doc.artifacts # <<>> /\ doc.artifacts[Len(doc.artifacts)] = doc.sha
        /\ doc.live = {Len(doc.artifacts)} /\ doc.artifacts \in Seq(Contents)
    BY <2>1, DocumentFields DEF DocOK, ImportOK
  <2>3. Len(doc.artifacts) \in DOMAIN doc.artifacts
    BY <2>2
  <2> QED
    BY <2>2, <2>3
<1> QED
  BY <1>1, InvariantHolds, PTL

(* Every version before the current one has a row in cko_versions, while one *)
(* version of the synchronization is in use (OneVersion).                   *)
THEOREM VersionsAreRecorded == ASSUME OneVersion PROVE Spec => []HistoryComplete
<1>1. SourceInv => HistoryComplete
  <2> SUFFICES ASSUME SourceInv, NEW f \in Files
               PROVE  1..(db[Doc(f)].version - 1) \subseteq db[Doc(f)].snapshots
    BY DEF HistoryComplete
  <2>1. DocOK(db[Doc(f)])
    BY RowKinds, RowSets DEF SourceInv, RowsOK
  <2> QED
    BY <2>1 DEF DocOK
<1> QED
  BY <1>1, InvariantHolds, PTL

(* A source that is fresh has no open alert that says otherwise, while the   *)
(* worker alone synchronizes (WorkerAlone): only it resolves what was open.  *)
THEOREM FreshMeansHealthy == ASSUME WorkerAlone PROVE Spec => []HealthIsResolved
<1>1. SourceInv => HealthIsResolved
  <2> SUFFICES ASSUME SourceInv, NEW w \in Watches, db[Watch(w)].status = "fresh"
               PROVE  db[Watch(w)].alerts \subseteq {"source_recovered"}
    BY DEF HealthIsResolved
  <2>1. WatchOK(db[Watch(w)])
    BY RowKinds, RowSets DEF SourceInv, RowsOK
  <2> QED
    BY <2>1 DEF WatchOK
<1> QED
  BY <1>1, InvariantHolds, PTL

(* A check that failed leaves a failed run behind, and a source that is not  *)
(* shown as fresh, while the worker alone synchronizes and PostgreSQL can    *)
(* store what it reads (FailuresAlone).                                      *)
THEOREM FailuresAreKept == ASSUME FailuresAlone PROVE Spec => []FailureIsDurable
<1>1. SourceInv => FailureIsDurable
  BY DEF FailureIsDurable, SourceInv, OutcomeOK, Failed
<1> QED
  BY <1>1, InvariantHolds, PTL

-----------------------------------------------------------------------------
(* The cursor of the delta: the inductive invariant, as named parts.       *)

(* No user pauses a source or disconnects the account. *)
NothingPaused == UserOps \cap {"pause", "disconnect"} = {}

(* The row answers for the i-th change of its file. *)
AnswersFor(row, i) == row.enabled => row.asOf >= i \/ row.due \/ row.status = "error"

(* A transaction reads file f, or has read it, after the i-th change. *)
ReadLater(x, f, i) == x.stage = "store" /\ Head(x.todo).file = f => x.seen >= i

(* ... and leaves nothing of it that would not answer for the change. *)
LeavesAnswer(x, f, i) == ReadLater(x, f, i) /\ (Watch(f) \in DOMAIN x.writes => AnswersFor(x.writes[Watch(f)], i))

(* ... or answers for it itself, when it commits. *)
WillAnswer(x, f, i) ==
    /\ ReadLater(x, f, i)
    /\ \/ SyncOf(f) \in Range(x.todo)
       \/ Watch(f) \in DOMAIN x.writes /\ AnswersFor(x.writes[Watch(f)], i)

(* A page of the feed lists the i-th change, and the file is still there. *)
Listed(i) == ~feed[i].deleted /\ i \notin skipped

(* Whoever commits next, the i-th change is answered for. *)
Answered(i) ==
    /\ AnswersFor(db[Watch(feed[i].file)], i)
    /\ \A t \in Txs : LeavesAnswer(tx[t], feed[i].file, i)

(* ... which a cursor may pass. *)
MayPass(n) == n <= Len(feed) /\ \A i \in 1..n : Listed(i) => Answered(i)

(* The folder is watched before any file is, and as long. *)
FolderSide(x, rows) ==
    /\ x.todo # <<>> => rows[Watch(Folder)].enabled
    /\ \A w \in Watches : Watch(w) \in DOMAIN x.writes => rows[Watch(Folder)].enabled
    /\ Watch(Folder) \in DOMAIN x.writes => x.writes[Watch(Folder)].enabled

FolderFirst(rows) ==
    \A w \in Watches : rows[Watch(w)].exists \/ rows[Watch(w)].enabled => rows[Watch(Folder)].enabled

(* What a transaction has read of the feed. *)
HasRead(x) ==
    /\ x.stage = "page" => x.todo = <<>>
    /\ x.at <= Len(feed)
    /\ \A i \in 1..x.at : Listed(i) => Answered(i) \/ WillAnswer(x, feed[i].file, i)

CursorInv ==
    /\ FolderFirst(db) /\ MayPass(db[Conn].cursor)
    /\ \A t \in Txs : /\ FolderSide(tx[t], db) /\ HasRead(tx[t])
                      /\ Conn \in DOMAIN tx[t].writes => MayPass(tx[t].writes[Conn].cursor)

-----------------------------------------------------------------------------
(* Rows of watches, and what answers for a change                          *)

LEMMA AnswersKept ==
    ASSUME NEW row, WatchOK(row), NEW i \in Nat
    PROVE  /\ AnswersFor(Watched(row), i)
           /\ Stale(row) /\ AnswersFor(row, i) => AnswersFor(StaleMarked(row), i)
           /\ AnswersFor(row, i) => AnswersFor([row EXCEPT !.due = TRUE], i)
           /\ AnswersFor(row, i) => AnswersFor([row EXCEPT !.late = TRUE], i)
           /\ Watched(row).enabled
           /\ StaleMarked(row).enabled = row.enabled /\ StaleMarked(row).exists = row.exists
<1>1. row \in WatchRow
  BY DEF WatchOK
<1>2. AnswersFor(Watched(row), i) /\ Watched(row).enabled
  BY <1>1 DEF WatchRow, Watched, AnswersFor
<1>3. /\ StaleMarked(row).enabled = row.enabled /\ StaleMarked(row).exists = row.exists
      /\ StaleMarked(row).asOf = row.asOf /\ StaleMarked(row).due = row.due
  BY <1>1 DEF WatchRow, StaleMarked
<1>4. Stale(row) => row.status # "error"
  BY DEF Stale
<1>5. AnswersFor(row, i) => AnswersFor([row EXCEPT !.due = TRUE], i)
  BY <1>1 DEF WatchRow, AnswersFor
<1>6. AnswersFor(row, i) => AnswersFor([row EXCEPT !.late = TRUE], i)
  BY <1>1 DEF WatchRow, AnswersFor
<1> QED
  BY <1>2, <1>3, <1>4, <1>5, <1>6 DEF AnswersFor

(* What is to be shown of the feed has a type. *)
LEMMA Changes ==
    ASSUME SourceInv, NEW i \in 1..Len(feed)
    PROVE  i \in Nat /\ feed[i].file \in Files /\ feed[i].file \in Watches
<1>1. feed \in Seq([file : Files, deleted : BOOLEAN])
  BY DEF SourceInv, ProviderOK
<1>2. feed[i] \in [file : Files, deleted : BOOLEAN]
  BY <1>1, Elements
<1> QED
  BY <1>2 DEF Watches

LEMMA CursorType ==
    ASSUME SourceInv
    PROVE  /\ Len(feed) \in Nat /\ db[Conn].cursor \in Nat
           /\ \A t \in Txs : /\ tx[t].at \in Nat /\ tx[t].todo \in Seq(Op) /\ tx[t].seen \in Nat
                             /\ Row(t, Conn).cursor \in Nat
                             /\ Conn \in DOMAIN tx[t].writes => tx[t].writes[Conn].cursor \in Nat
<1>1. Len(feed) \in Nat
  BY DEF SourceInv, ProviderOK
<1>2. db[Conn].cursor \in Nat
  <2>1. db[Conn] \in ConnRow
    BY RowSets, RowKinds DEF SourceInv, RowsOK
  <2> QED
    BY <2>1 DEF ConnRow
<1>3. ASSUME NEW t \in Txs
      PROVE  /\ tx[t].at \in Nat /\ tx[t].todo \in Seq(Op) /\ tx[t].seen \in Nat /\ Row(t, Conn).cursor \in Nat
             /\ Conn \in DOMAIN tx[t].writes => tx[t].writes[Conn].cursor \in Nat
  <2>1. tx[t].at \in Nat /\ tx[t].todo \in Seq(Op) /\ tx[t].seen \in Nat
    BY DEF SourceInv, TxOK, IsTx
  <2>2. Row(t, Conn) \in ConnRow
    BY RowIsOK
  <2>3. Conn \in DOMAIN tx[t].writes => tx[t].writes[Conn] = Row(t, Conn)
    BY DEF Row
  <2>4. Row(t, Conn).cursor \in Nat
    BY <2>2 DEF ConnRow
  <2> QED
    BY <2>1, <2>3, <2>4
<1> QED
  BY <1>1, <1>2, <1>3

(* What a transaction would read of a watch or of the connection is as good *)
(* as what is committed.                                                    *)
LEMMA ReadsAnswer ==
    ASSUME CursorInv, NEW t \in Txs
    PROVE  /\ MayPass(Row(t, Conn).cursor)
           /\ Row(t, Watch(Folder)).enabled => db[Watch(Folder)].enabled
           /\ db[Watch(Folder)].enabled => Row(t, Watch(Folder)).enabled
           /\ \A w \in Watches : Row(t, Watch(w)).enabled \/ Row(t, Watch(w)).exists => db[Watch(Folder)].enabled
           /\ \A f, i : AnswersFor(db[Watch(f)], i) /\ LeavesAnswer(tx[t], f, i) => AnswersFor(Row(t, Watch(f)), i)
<1>1. FolderFirst(db) /\ MayPass(db[Conn].cursor) /\ FolderSide(tx[t], db)
      /\ (Conn \in DOMAIN tx[t].writes => MayPass(tx[t].writes[Conn].cursor))
  BY DEF CursorInv
<1>2. MayPass(Row(t, Conn).cursor)
  BY <1>1, Zenon DEF Row
<1>3. Folder \in Watches
  BY RowSets
<1>4. \A w \in Watches : Row(t, Watch(w)).enabled \/ Row(t, Watch(w)).exists => db[Watch(Folder)].enabled
  <2> TAKE w \in Watches
  <2>1. CASE Watch(w) \in DOMAIN tx[t].writes
    BY <2>1, <1>1 DEF FolderSide
  <2>2. CASE Watch(w) \notin DOMAIN tx[t].writes
    <3>1. Row(t, Watch(w)) = db[Watch(w)]
      BY <2>2 DEF Row
    <3> QED
      BY <3>1, <1>1 DEF FolderFirst
  <2> QED
    BY <2>1, <2>2
<1>5. db[Watch(Folder)].enabled => Row(t, Watch(Folder)).enabled
  BY <1>1 DEF FolderSide, Row
<1>6. \A f, i : AnswersFor(db[Watch(f)], i) /\ LeavesAnswer(tx[t], f, i) => AnswersFor(Row(t, Watch(f)), i)
  BY DEF LeavesAnswer, Row
<1> QED
  BY <1>2, <1>3, <1>4, <1>5, <1>6

-----------------------------------------------------------------------------
(* The shapes of steps                                                     *)

(* A transaction has passed what its first answer of the feed left out. *)
Skips(y) == y.stage # "page" /\ y.at <= Len(feed) /\ 1..y.at \subseteq skipped'

(* A step of transaction t that ends nothing, by what it makes of it. *)
LEMMA OneActs ==
    ASSUME SourceInv, CursorInv, NEW t \in Txs,
           feed' = feed, skipped \subseteq skipped', db' = db,
           \A u \in Txs : u # t => tx'[u] = tx[u],
           NEW y, tx'[t] = y, y.at \in Nat,
           \A i \in 1..Len(feed) :
               AnswersFor(db[Watch(feed[i].file)], i) /\ LeavesAnswer(tx[t], feed[i].file, i) =>
                   LeavesAnswer(y, feed[i].file, i),
           HasRead(y) \/ Skips(y), FolderSide(y, db),
           Conn \in DOMAIN y.writes => y.writes[Conn].cursor = Row(t, Conn).cursor
    PROVE  CursorInv'
<1>0. \A i : Listed(i)' => Listed(i)
  BY DEF Listed
<1>1. \A i \in 1..Len(feed) : Answered(i) => Answered(i)'
  <2> SUFFICES ASSUME NEW i \in 1..Len(feed), Answered(i) PROVE Answered(i)'
    OBVIOUS
  <2>1. AnswersFor(db[Watch(feed[i].file)], i) /\ \A u \in Txs : LeavesAnswer(tx[u], feed[i].file, i)
    BY DEF Answered
  <2>2. \A u \in Txs : LeavesAnswer(tx'[u], feed[i].file, i)
    BY <2>1
  <2> QED
    BY <2>1, <2>2 DEF Answered
<1>2. \A n \in Nat : MayPass(n) => MayPass(n)'
  <2> TAKE n \in Nat
  <2> HAVE MayPass(n)
  <2>1. n <= Len(feed) /\ Len(feed) \in Nat
    BY CursorType DEF MayPass
  <2>2. \A i \in 1..n : i \in 1..Len(feed)
    BY <2>1
  <2> QED
    BY <1>0, <1>1, <2>1, <2>2 DEF MayPass
<1>3. \A x : x.at \in Nat /\ HasRead(x) => HasRead(x)'
  <2> SUFFICES ASSUME NEW x, x.at \in Nat, HasRead(x) PROVE HasRead(x)'
    OBVIOUS
  <2>1. x.at <= Len(feed) /\ Len(feed) \in Nat
    BY CursorType DEF HasRead
  <2>2. \A i \in 1..x.at : i \in 1..Len(feed)
    BY <2>1
  <2> QED
    BY <1>0, <1>1, <2>1, <2>2 DEF HasRead
<1>4. FolderFirst(db)' /\ MayPass(db[Conn].cursor)'
  <2>1. PICK n \in Nat : n = db[Conn].cursor
    BY CursorType
  <2>2. MayPass(n)'
    BY <1>2, <2>1 DEF CursorInv
  <2>3. FolderFirst(db)'
    BY DEF CursorInv, FolderFirst
  <2> QED
    BY <2>1, <2>2, <2>3
<1>5. ASSUME NEW u \in Txs
      PROVE  /\ FolderSide(tx[u], db)' /\ HasRead(tx[u])'
             /\ (Conn \in DOMAIN tx[u].writes)' => MayPass(tx[u].writes[Conn].cursor)'
  <2>1. CASE u # t
    <3>1. PICK x : x = tx[u]
      OBVIOUS
    <3>2. tx'[u] = x /\ x.at \in Nat
      BY <2>1, <3>1, CursorType
    <3>3. FolderSide(x, db) /\ HasRead(x)'
      BY <1>3, <3>1, <3>2 DEF CursorInv
    <3>4. FolderSide(x, db)'
      BY <3>3 DEF FolderSide
    <3>5. ASSUME Conn \in DOMAIN x.writes PROVE MayPass(x.writes[Conn].cursor)'
      <4>1. x.writes[Conn].cursor \in Nat /\ MayPass(x.writes[Conn].cursor)
        BY <3>1, <3>5, CursorType DEF CursorInv
      <4> QED
        BY <1>2, <4>1
    <3> QED
      BY <3>2, <3>3, <3>4, <3>5
  <2>2. CASE u = t
    <3>1. HasRead(y)'
      <4>1. y.at <= Len(feed) /\ Len(feed) \in Nat
        BY CursorType DEF HasRead, Skips
      <4>2. \A i \in 1..y.at : i \in 1..Len(feed)
        BY <4>1
      <4>3. CASE HasRead(y)
        BY <1>0, <1>1, <4>1, <4>2, <4>3 DEF HasRead
      <4>4. CASE Skips(y)
        BY <4>1, <4>4 DEF HasRead, Skips, Listed
      <4> QED
        BY <4>3, <4>4
    <3>2. FolderSide(y, db)'
      BY DEF FolderSide
    <3>3. ASSUME Conn \in DOMAIN y.writes PROVE MayPass(y.writes[Conn].cursor)'
      <4>1. PICK n \in Nat : n = Row(t, Conn).cursor
        BY CursorType
      <4>2. MayPass(n)'
        BY <1>2, <4>1, ReadsAnswer
      <4>3. y.writes[Conn].cursor = n
        BY <3>3, <4>1
      <4> QED
        BY <4>2, <4>3
    <3> QED
      BY <2>2, <3>1, <3>2, <3>3
  <2> QED
    BY <2>1, <2>2
<1> QED
  BY <1>4, <1>5 DEF CursorInv

(* ... it has nothing written: it begins, or is rolled back. *)
LEMMA NothingHeld ==
    ASSUME SourceInv, CursorInv, NEW t \in Txs,
           feed' = feed /\ skipped' = skipped, db' = db, \A u \in Txs : u # t => tx'[u] = tx[u],
           NEW y, tx'[t] = y, y.writes = <<>>, y.stage # "store",
           y.at \in Nat, MayPass(y.at), y.stage = "page" => y.todo = <<>>,
           y.todo # <<>> => db[Watch(Folder)].enabled
    PROVE  CursorInv'
<1>1. DOMAIN y.writes = {}
  BY NoRows
<1>2. \A f, i : LeavesAnswer(y, f, i)
  BY <1>1 DEF LeavesAnswer, ReadLater
<1>3. HasRead(y)
  BY DEF HasRead, MayPass
<1>4. FolderSide(y, db)
  BY <1>1 DEF FolderSide
<1>5. Conn \in DOMAIN y.writes => y.writes[Conn].cursor = Row(t, Conn).cursor
  BY <1>1
<1> QED
  BY <1>2, <1>3, <1>4, <1>5, OneActs

LEMMA CallRolledBack ==
    ASSUME SourceInv, CursorInv, NEW t \in Txs, NEW results, Rollback(t, results), UNCHANGED provider
    PROVE  CursorInv'
<1>1. tx' = [tx EXCEPT ![t] = Idle] /\ feed' = feed /\ skipped' = skipped /\ db' = db /\ DOMAIN tx = Txs
  BY DEF Rollback, provider, SourceInv
<1>2. \A u \in Txs : u # t => tx'[u] = tx[u]
  BY <1>1
<1>3. PICK y : y = Idle
  OBVIOUS
<1>4. tx'[t] = y
  BY <1>1, <1>3
<1>5. y.writes = <<>> /\ y.stage = "idle" /\ y.at = 0 /\ y.todo = <<>>
  BY <1>3 DEF Idle
<1>6. MayPass(0)
  BY CursorType DEF MayPass
<1>7. y.at \in Nat /\ MayPass(y.at) /\ y.stage # "store" /\ y.stage # "page"
  BY <1>5, <1>6
<1> QED
  BY <1>1, <1>2, <1>4, <1>5, <1>7, NothingHeld

(* ... it goes on with what it has to do and writes no watch. *)
LEMMA GoesOn ==
    ASSUME SourceInv, CursorInv, NEW t \in Txs,
           feed' = feed /\ skipped' = skipped, db' = db, \A u \in Txs : u # t => tx'[u] = tx[u],
           NEW y, tx'[t] = y, y.todo = tx[t].todo, y.at = tx[t].at,
           y.stage = "store" => y.seen = Len(feed),
           y.stage = "page" => y.todo = <<>>,
           \A w : Watch(w) \in DOMAIN y.writes <=> Watch(w) \in DOMAIN tx[t].writes,
           \A w : Watch(w) \in DOMAIN y.writes => y.writes[Watch(w)] = tx[t].writes[Watch(w)],
           Conn \in DOMAIN y.writes => y.writes[Conn].cursor = Row(t, Conn).cursor
    PROVE  CursorInv'
<1>1. \A f : \A i \in 1..Len(feed) : ReadLater(y, f, i)
  BY CursorType DEF ReadLater
<1>2. \A f : \A i \in 1..Len(feed) : LeavesAnswer(tx[t], f, i) => LeavesAnswer(y, f, i)
  BY <1>1 DEF LeavesAnswer
<1>3. \A f : \A i \in 1..Len(feed) : WillAnswer(tx[t], f, i) => WillAnswer(y, f, i)
  BY <1>1 DEF WillAnswer
<1>4. HasRead(tx[t]) /\ FolderSide(tx[t], db)
  BY DEF CursorInv
<1>5. HasRead(y)
  <2>1. tx[t].at <= Len(feed) /\ Len(feed) \in Nat /\ tx[t].at \in Nat
    BY <1>4, CursorType DEF HasRead
  <2>2. \A i \in 1..y.at : i \in 1..Len(feed)
    BY <2>1
  <2> QED
    BY <1>3, <1>4, <2>2 DEF HasRead
<1>6. FolderSide(y, db)
  BY <1>4 DEF FolderSide
<1>7. y.at \in Nat
  BY CursorType
<1>8. \A i \in 1..Len(feed) : LeavesAnswer(tx[t], feed[i].file, i) => LeavesAnswer(y, feed[i].file, i)
  BY <1>2
<1> QED
  BY <1>5, <1>6, <1>7, <1>8, OneActs

(* ... it is done with its first operation and has written the rows of W. *)
LEMMA OperationEnds ==
    ASSUME SourceInv, CursorInv, NEW t \in Txs, tx[t].todo # <<>>,
           feed' = feed /\ skipped' = skipped, db' = db, \A u \in Txs : u # t => tx'[u] = tx[u],
           NEW y, tx'[t] = y, NEW W, y.writes = W ++ tx[t].writes, y.todo = Tail(tx[t].todo),
           y.at = tx[t].at, y.stage = "next",
           \A w : Watch(w) \in DOMAIN W => w = HeadFile(t),
           Head(tx[t].todo) = SyncOf(HeadFile(t)) => Watch(HeadFile(t)) \in DOMAIN W,
           Watch(HeadFile(t)) \in DOMAIN W =>
               \A i \in 1..Len(feed) :
                   ReadLater(tx[t], HeadFile(t), i) => AnswersFor(W[Watch(HeadFile(t))], i),
           Watch(Folder) \in DOMAIN W /\ Row(t, Watch(Folder)).enabled => W[Watch(Folder)].enabled,
           Conn \in DOMAIN W => W[Conn].cursor = Row(t, Conn).cursor
    PROVE  CursorInv'
<1> DEFINE x == tx[t]
<1>1. HasRead(x) /\ FolderSide(x, db) /\ (Conn \in DOMAIN x.writes => MayPass(x.writes[Conn].cursor))
  BY DEF CursorInv
<1>2. x.todo \in Seq(Op) /\ x.at \in Nat /\ Len(feed) \in Nat
  BY CursorType
<1>3. Range(x.todo) = {Head(x.todo)} \cup Range(Tail(x.todo))
  BY <1>2, RangeOfTail, Zenon
<1>4. /\ \A r \in DOMAIN W : r \in DOMAIN y.writes /\ y.writes[r] = W[r]
      /\ \A r \in DOMAIN x.writes : r \in DOMAIN y.writes /\ (r \notin DOMAIN W => y.writes[r] = x.writes[r])
      /\ \A r \in DOMAIN y.writes : r \in DOMAIN W \/ r \in DOMAIN x.writes
  <2>1. PICK B : B = x.writes
    OBVIOUS
  <2>2. y.writes = W ++ B
    BY <2>1
  <2>3. /\ DOMAIN (W ++ B) = DOMAIN W \cup DOMAIN B
        /\ \A r \in DOMAIN W : (W ++ B)[r] = W[r]
        /\ \A r \in DOMAIN B \ DOMAIN W : (W ++ B)[r] = B[r]
    <3>1. DOMAIN (W ++ B) = DOMAIN W \cup DOMAIN B
      BY OverRows, Zenon
    <3>2. ASSUME NEW r \in DOMAIN W PROVE (W ++ B)[r] = W[r]
      BY OverRows, SMT
    <3>3. ASSUME NEW r \in DOMAIN B \ DOMAIN W PROVE (W ++ B)[r] = B[r]
      BY OverRows, SMT
    <3> QED
      BY <3>1, <3>2, <3>3
  <2> HIDE DEF x
  <2> QED
    BY <2>1, <2>2, <2>3
<1>5. \A f, i : ReadLater(y, f, i)
  BY DEF ReadLater
<1>6. ASSUME NEW i \in 1..Len(feed), NEW f, LeavesAnswer(x, f, i) PROVE LeavesAnswer(y, f, i)
  <2>1. CASE Watch(f) \in DOMAIN W
    <3>1. f = HeadFile(t) /\ ReadLater(x, f, i)
      BY <2>1, <1>6 DEF LeavesAnswer
    <3>2. y.writes[Watch(f)] = W[Watch(f)] /\ AnswersFor(W[Watch(f)], i)
      BY <3>1, <2>1, <1>4
    <3> QED
      BY <3>2, <1>5 DEF LeavesAnswer
  <2>2. CASE Watch(f) \notin DOMAIN W
    BY <2>2, <1>4, <1>5, <1>6 DEF LeavesAnswer
  <2> QED
    BY <2>1, <2>2
<1>7. ASSUME NEW i \in 1..Len(feed), NEW f, WillAnswer(x, f, i) PROVE WillAnswer(y, f, i)
  <2>1. ReadLater(x, f, i)
    BY <1>7 DEF WillAnswer
  <2>2. CASE Watch(f) \in DOMAIN W
    <3>1. f = HeadFile(t) /\ AnswersFor(W[Watch(f)], i)
      BY <2>1, <2>2
    <3> QED
      BY <3>1, <2>2, <1>4, <1>5 DEF WillAnswer
  <2>3. CASE Watch(f) \notin DOMAIN W /\ SyncOf(f) \in Range(x.todo)
    <3>1. SyncOf(f) # Head(x.todo)
      BY <2>3 DEF SyncOf, HeadFile
    <3>2. SyncOf(f) \in Range(Tail(x.todo))
      BY <3>1, <2>3, <1>3
    <3> QED
      BY <3>2, <1>5 DEF WillAnswer
  <2>4. CASE Watch(f) \notin DOMAIN W /\ SyncOf(f) \notin Range(x.todo)
    <3>1. Watch(f) \in DOMAIN x.writes /\ AnswersFor(x.writes[Watch(f)], i)
      BY <2>4, <1>7 DEF WillAnswer
    <3>2. Watch(f) \in DOMAIN y.writes /\ y.writes[Watch(f)] = x.writes[Watch(f)]
      BY <3>1, <2>4, <1>4
    <3> QED
      BY <3>1, <3>2, <1>5 DEF WillAnswer
  <2> QED
    BY <2>2, <2>3, <2>4
<1>8. HasRead(y)
  <2>1. x.at <= Len(feed)
    BY <1>1 DEF HasRead
  <2>2. \A i \in 1..y.at : i \in 1..Len(feed)
    BY <2>1, <1>2
  <2>3. \A i \in 1..y.at : Listed(i) => Answered(i) \/ WillAnswer(x, feed[i].file, i)
    BY <1>1 DEF HasRead
  <2> QED
    BY <1>7, <2>1, <2>2, <2>3 DEF HasRead
<1>9. FolderSide(y, db)
  <2>1. db[Watch(Folder)].enabled
    BY <1>1 DEF FolderSide
  <2>2. Row(t, Watch(Folder)).enabled
    BY <2>1, ReadsAnswer
  <2>3. ASSUME Watch(Folder) \in DOMAIN y.writes PROVE y.writes[Watch(Folder)].enabled
    <3>1. CASE Watch(Folder) \in DOMAIN W
      BY <3>1, <2>2, <1>4
    <3>2. CASE Watch(Folder) \notin DOMAIN W
      BY <3>2, <2>3, <1>1, <1>4 DEF FolderSide
    <3> QED
      BY <3>1, <3>2
  <2> QED
    BY <2>1, <2>3 DEF FolderSide
<1>10. ASSUME Conn \in DOMAIN y.writes PROVE y.writes[Conn].cursor = Row(t, Conn).cursor
  <2>1. CASE Conn \in DOMAIN W
    BY <2>1, <1>4
  <2>2. CASE Conn \notin DOMAIN W
    BY <2>2, <1>10, <1>4 DEF Row
  <2> QED
    BY <2>1, <2>2
<1>11. y.at \in Nat
  BY <1>2
<1>12. \A i \in 1..Len(feed) : LeavesAnswer(tx[t], feed[i].file, i) => LeavesAnswer(y, feed[i].file, i)
  BY <1>6
<1> HIDE DEF x
<1> QED
  BY <1>8, <1>9, <1>10, <1>11, <1>12, OneActs

-----------------------------------------------------------------------------
(* The end of a check                                                      *)

(* The rows written at the end of a check of file f: its watch, no other,  *)
(* and the connection with the cursor it had.                              *)
ChecksOnly(all, f, row, c) ==
    /\ Watch(f) \in DOMAIN all /\ all[Watch(f)] = row
    /\ \A w : Watch(w) \in DOMAIN all => w = f
    /\ Conn \in DOMAIN all => all[Conn].cursor = c

LEMMA RowsOfCheck ==
    ASSUME NEW f, NEW row, NEW B, NEW W, NEW c,
           \A w : Watch(w) \notin DOMAIN B /\ Watch(w) \notin DOMAIN W,
           Conn \in DOMAIN B => B[Conn].cursor = c,
           Conn \in DOMAIN W => W[Conn].cursor = c
    PROVE  /\ ChecksOnly(Only(Watch(f), row) ++ B, f, row, c)
           /\ ChecksOnly(Only(Watch(f), row) ++ B ++ W, f, row, c)
<1>1. PICK A : A = Only(Watch(f), row)
  OBVIOUS
<1>2. DOMAIN A = {Watch(f)} /\ A[Watch(f)] = row
  BY <1>1, OnlyRow
<1>3. PICK D : D = A ++ B
  OBVIOUS
<1>4. DOMAIN D = {Watch(f)} \cup DOMAIN B /\ D[Watch(f)] = row
      /\ (Conn \in DOMAIN D => D[Conn].cursor = c)
  <2>1. DOMAIN D = DOMAIN A \cup DOMAIN B
    BY <1>3, OverRows, Zenon
  <2>2. D[Watch(f)] = row
    BY <1>2, <1>3 DEF ++
  <2>3. ASSUME Conn \in DOMAIN D PROVE D[Conn].cursor = c
    <3>1. Conn \in DOMAIN B /\ Conn \notin DOMAIN A
      BY <1>2, <2>1, <2>3, RowNames
    <3>2. D[Conn] = B[Conn]
      BY <1>3, <3>1 DEF ++
    <3> QED
      BY <3>1, <3>2
  <2> QED
    BY <1>2, <2>1, <2>2, <2>3
<1>5. ChecksOnly(D, f, row, c)
  BY <1>4, RowNames DEF ChecksOnly
<1>6. ASSUME NEW all, all = D ++ W PROVE ChecksOnly(all, f, row, c)
  <2>1. DOMAIN all = DOMAIN D \cup DOMAIN W
    BY <1>6, OverRows, Zenon
  <2>2. all[Watch(f)] = row
    BY <1>4, <1>6 DEF ++
  <2>3. ASSUME Conn \in DOMAIN all PROVE all[Conn].cursor = c
    <3>1. CASE Conn \in DOMAIN D
      <4>1. all[Conn] = D[Conn]
        BY <1>6, <3>1 DEF ++
      <4> QED
        BY <1>4, <3>1, <4>1
    <3>2. CASE Conn \notin DOMAIN D
      <4>1. Conn \in DOMAIN W /\ all[Conn] = W[Conn]
        BY <1>6, <2>1, <2>3, <3>2 DEF ++
      <4> QED
        BY <4>1
    <3> QED
      BY <3>1, <3>2
  <2>4. \A w : Watch(w) \in DOMAIN all => w = f
    BY <1>4, <2>1, RowNames
  <2> QED
    BY <1>4, <2>1, <2>2, <2>3, <2>4 DEF ChecksOnly
<1> QED
  BY <1>1, <1>3, <1>5, <1>6

LEMMA CheckOver ==
    ASSUME SourceInv, CursorInv, NEW t \in Txs, Checking(tx[t]), NEW W, NEW result,
           tx' = [tx EXCEPT ![t] = Checked(t, W, result)], feed' = feed /\ skipped' = skipped, db' = db,
           Watch(HeadFile(t)) \in DOMAIN W, NEW row, W[Watch(HeadFile(t))] = row,
           row.enabled = Row(t, Watch(HeadFile(t))).enabled,
           row.status = "error" \/ (tx[t].stage = "store" /\ row.asOf = tx[t].seen),
           \A w : Watch(w) \in DOMAIN W => w = HeadFile(t),
           Conn \in DOMAIN W => W[Conn].cursor = Row(t, Conn).cursor
    PROVE  CursorInv'
<1>1. DOMAIN tx = Txs /\ DOMAIN tx[t] = TxFields
  BY DEF SourceInv, TxOK, IsTx
<1>2. PICK y : y = Checked(t, W, result)
  OBVIOUS
<1>3. tx'[t] = y /\ \A u \in Txs : u # t => tx'[u] = tx[u]
  BY <1>1, <1>2
<1>4. y.writes = W ++ tx[t].writes /\ y.todo = Tail(tx[t].todo) /\ y.at = tx[t].at /\ y.stage = "next"
  <2> DEFINE x == Checked(t, W, result)
  <2>1. /\ DOMAIN x = TxFields
        /\ x.writes = W ++ tx[t].writes /\ x.locks = tx[t].locks \cup DOMAIN W
        /\ x.kind = tx[t].kind /\ x.stage = "next" /\ x.todo = Tail(tx[t].todo)
        /\ x.at = tx[t].at /\ x.first = tx[t].first /\ x.more = tx[t].more /\ x.held = Connected
        /\ x.content = NoContent /\ x.same = FALSE /\ x.seen = 0
        /\ x.results = Only(HeadFile(t), result) ++ tx[t].results
    BY <1>1, CheckedFields, Zenon
  <2> HIDE DEF x
  <2> QED
    BY <2>1, <1>2 DEF x
<1>5. tx[t].todo # <<>> /\ HeadFile(t) = Head(tx[t].todo).file
  BY CheckedFile DEF HeadFile
<1>6. \A i \in 1..Len(feed) : ReadLater(tx[t], HeadFile(t), i) => AnswersFor(row, i)
  BY <1>5 DEF ReadLater, AnswersFor
<1>7. Watch(Folder) \in DOMAIN W /\ Row(t, Watch(Folder)).enabled => W[Watch(Folder)].enabled
  <2>1. Watch(Folder) \in DOMAIN W => HeadFile(t) = Folder
    OBVIOUS
  <2> QED
    BY <2>1
<1> QED
  BY <1>3, <1>4, <1>5, <1>6, <1>7, OperationEnds

LEMMA FailedRow ==
    ASSUME NEW row, WatchOK(row), NEW alert
    PROVE  LET new == [row EXCEPT !.status = "error", !.due = FALSE, !.run = "failed"]
               told == [new EXCEPT !.alerts = @ \cup {alert}] IN
           new.enabled = row.enabled /\ new.status = "error"
           /\ told.enabled = row.enabled /\ told.status = "error"
BY DEF WatchOK, WatchRow

LEMMA CursorOfRow ==
    ASSUME SourceInv, NEW t \in Txs
    PROVE  /\ [Row(t, Conn) EXCEPT !.status = "reauth_required"].cursor = Row(t, Conn).cursor
           /\ [Row(t, Conn) EXCEPT !.status = "connected"].cursor = Row(t, Conn).cursor
           /\ Refreshed(t).cursor = Row(t, Conn).cursor
<1>1. Row(t, Conn) \in ConnRow
  BY RowIsOK
<1>2. PICK conn : conn = Row(t, Conn)
  OBVIOUS
<1>3. /\ [conn EXCEPT !.status = "reauth_required"].cursor = conn.cursor
      /\ [conn EXCEPT !.status = "connected"].cursor = conn.cursor
      /\ \A s : [conn EXCEPT !.token = "live", !.status = s].cursor = conn.cursor
  BY <1>1, <1>2 DEF ConnRow
<1>4. Refreshed(t).cursor = Row(t, Conn).cursor
  BY <1>1 DEF Refreshed, ConnRow
<1> QED
  BY <1>2, <1>3, <1>4

LEMMA FailKeeps ==
    ASSUME SourceInv, CursorInv, NEW t \in Txs, Checking(tx[t]), NEW W, NEW reauth,
           Fail(t, W, reauth), UNCHANGED provider,
           \A w : Watch(w) \notin DOMAIN W,
           Conn \in DOMAIN W => W[Conn].cursor = Row(t, Conn).cursor
    PROVE  CursorInv'
<1> DEFINE f == HeadFile(t)
           old == Row(t, Watch(f))
           row == [old EXCEPT !.status = "error", !.due = FALSE, !.run = "failed"]
           alert == IF reauth THEN "reauth_required" ELSE "sync_failed"
           conn == [Row(t, Conn) EXCEPT !.status = "reauth_required"]
           told == [row EXCEPT !.alerts = @ \cup {alert}]
           B == IF reauth THEN Only(Conn, conn) ELSE <<>>
           first == Only(Watch(f), told) ++ B ++ W
           second == Only(Watch(f), row) ++ W
<1>1. f \in Watches /\ WatchOK(old)
  BY CheckedFile, RowIsOK
<1>2. row.enabled = old.enabled /\ row.status = "error" /\ told.enabled = old.enabled /\ told.status = "error"
  <2> HIDE DEF old, alert
  <2> QED
    BY <1>1, FailedRow
<1>3. /\ V1(t) => /\ tx' = [tx EXCEPT ![t] = Checked(t, first, "failed")]
                  /\ UNCHANGED <<db, outcome>>
      /\ ~V1(t) /\ tx[t].kind = "batch" =>
            /\ tx' = [tx EXCEPT ![t] = Checked(t, second, "failed")]
            /\ UNCHANGED <<db, outcome>>
      /\ ~V1(t) /\ tx[t].kind # "batch" => Rollback(t, Only(f, "failed"))
  BY Zenon DEF Fail, V1
<1>4. conn.cursor = Row(t, Conn).cursor
  BY CursorOfRow
<1>5. feed' = feed /\ skipped' = skipped
  BY DEF provider
<1> HIDE DEF row, told, conn, f, old
<1>6. CASE V1(t)
  <2>1. (Conn \in DOMAIN B => B[Conn].cursor = Row(t, Conn).cursor) /\ \A w : Watch(w) \notin DOMAIN B
    <3>1. CASE reauth
      <4>1. DOMAIN B = {Conn} /\ B[Conn] = conn
        BY <3>1, OnlyRow
      <4> QED
        BY <4>1, <1>4, RowNames
    <3>2. CASE ~reauth
      BY <3>2, NoRows
    <3> QED
      BY <3>1, <3>2
  <2> HIDE DEF B
  <2>2. PICK c : c = Row(t, Conn).cursor
    OBVIOUS
  <2>3. first = Only(Watch(f), told) ++ B ++ W
    OBVIOUS
  <2> HIDE DEF first
  <2>4. ChecksOnly(first, f, told, c)
    BY <2>1, <2>2, <2>3, RowsOfCheck, Zenon
  <2>5. tx' = [tx EXCEPT ![t] = Checked(t, first, "failed")] /\ db' = db
    BY <1>3, <1>6
  <2> QED
    BY <1>2, <1>5, <2>2, <2>4, <2>5, CheckOver DEF f, old, ChecksOnly
<1>7. CASE ~V1(t) /\ tx[t].kind = "batch"
  <2>1. PICK c : c = Row(t, Conn).cursor
    OBVIOUS
  <2>2. second = Only(Watch(f), row) ++ W
    OBVIOUS
  <2> HIDE DEF second
  <2>3. ChecksOnly(second, f, row, c)
    BY <2>1, <2>2, RowsOfCheck, Zenon
  <2>4. tx' = [tx EXCEPT ![t] = Checked(t, second, "failed")] /\ db' = db
    BY <1>3, <1>7
  <2> QED
    BY <1>2, <1>5, <2>1, <2>3, <2>4, CheckOver DEF f, old, ChecksOnly
<1>8. CASE ~V1(t) /\ tx[t].kind # "batch"
  BY <1>3, <1>8, CallRolledBack
<1> QED
  BY <1>6, <1>7, <1>8

LEMMA NothingKept ==
    ASSUME SourceInv, CursorInv, NEW t \in Txs, Checking(tx[t]), NEW reauth, Fail(t, <<>>, reauth),
           UNCHANGED provider
    PROVE  CursorInv'
<1>1. PICK W : W = <<>>
  OBVIOUS
<1>2. DOMAIN W = {}
  BY <1>1, NoRows
<1> QED
  BY <1>1, <1>2, FailKeeps

-----------------------------------------------------------------------------
(* The steps of a check                                                    *)

LEMMA LockWatchKeeps ==
    ASSUME SourceInv, CursorInv, NEW t \in Txs, LockWatch(t)
    PROVE  CursorInv'
<1> DEFINE held == IF V1(t) THEN Row(t, Conn) ELSE tx[t].held
           locks == tx[t].locks \cup {Watch(HeadFile(t))}
<1>1. DOMAIN tx = Txs /\ DOMAIN tx[t] = TxFields
  BY DEF SourceInv, TxOK, IsTx
<1>2. tx' = [tx EXCEPT ![t].stage = "authorize", ![t].held = held, ![t].locks = locks]
      /\ feed' = feed /\ skipped' = skipped /\ db' = db
  BY Zenon DEF LockWatch, provider
<1> HIDE DEF held, locks
<1>3. PICK y : y = tx'[t]
  OBVIOUS
<1>4. \A u \in Txs : u # t => tx'[u] = tx[u]
  BY <1>1, <1>2
<1>5. y.stage = "authorize" /\ y.todo = tx[t].todo /\ y.at = tx[t].at /\ y.writes = tx[t].writes
  BY <1>1, <1>2, <1>3 DEF TxFields
<1>6. Conn \in DOMAIN y.writes => y.writes[Conn].cursor = Row(t, Conn).cursor
  BY <1>5 DEF Row
<1> QED
  BY <1>2, <1>3, <1>4, <1>5, <1>6, GoesOn

LEMMA AuthorizeKeeps ==
    ASSUME SourceInv, CursorInv, NEW t \in Txs, Authorize(t)
    PROVE  CursorInv'
<1> DEFINE conn == IF V1(t) THEN tx[t].held ELSE Row(t, Conn)
           stage == IF conn.token = "live" THEN "fetch" ELSE "refresh"
<1>1. tx[t].stage = "authorize" /\ UNCHANGED provider
  BY DEF Authorize, Unblocked, At, provider
<1>2. Checking(tx[t])
  BY <1>1 DEF Checking
<1>3. CASE Fail(t, <<>>, FALSE)
  BY <1>1, <1>2, <1>3, NothingKept
<1>4. CASE Fail(t, <<>>, TRUE)
  BY <1>1, <1>2, <1>4, NothingKept
<1>5. CASE /\ tx' = [tx EXCEPT ![t].held = Connected, ![t].stage = stage]
           /\ UNCHANGED <<db, outcome>>
  <2>1. DOMAIN tx = Txs /\ DOMAIN tx[t] = TxFields
    BY DEF SourceInv, TxOK, IsTx
  <2>2. stage \in {"fetch", "refresh"}
    OBVIOUS
  <2> HIDE DEF stage
  <2>3. PICK y : y = tx'[t]
    OBVIOUS
  <2>4. \A u \in Txs : u # t => tx'[u] = tx[u]
    BY <1>5, <2>1
  <2>5. y.stage = stage /\ y.todo = tx[t].todo /\ y.at = tx[t].at /\ y.writes = tx[t].writes
    BY <1>5, <2>1, <2>3 DEF TxFields
  <2>6. Conn \in DOMAIN y.writes => y.writes[Conn].cursor = Row(t, Conn).cursor
    BY <2>5 DEF Row
  <2>7. feed' = feed /\ skipped' = skipped /\ db' = db /\ y.stage # "store" /\ y.stage # "page"
    BY <1>1, <1>5, <2>2, <2>5 DEF provider
  <2> QED
    BY <2>3, <2>4, <2>5, <2>6, <2>7, GoesOn
<1> QED
  BY <1>3, <1>4, <1>5, Zenon DEF Authorize

LEMMA RefreshGrantedKeeps ==
    ASSUME SourceInv, CursorInv, NEW t \in Txs, RefreshGranted(t)
    PROVE  CursorInv'
<1> DEFINE W == Only(Conn, Refreshed(t))
           z == Having(t, W)
           stage == IF tx[t].todo = <<>> THEN "page" ELSE "fetch"
           y == [z EXCEPT !.stage = stage]
<1>1. DOMAIN tx = Txs /\ DOMAIN tx[t] = TxFields
  BY DEF SourceInv, TxOK, IsTx
<1>2. feed' = feed /\ skipped' = skipped /\ db' = db /\ tx' = [tx EXCEPT ![t] = y]
  BY Zenon DEF RefreshGranted, provider
<1>3. DOMAIN W = {Conn} /\ W[Conn] = Refreshed(t)
  BY OnlyRow
<1> HIDE DEF W
<1>4. DOMAIN z = TxFields /\ z.writes = W ++ tx[t].writes /\ z.todo = tx[t].todo /\ z.at = tx[t].at
  BY <1>1, HavingFields
<1>5. stage # "store" /\ (stage = "page" => tx[t].todo = <<>>)
  OBVIOUS
<1> HIDE DEF z, stage
<1>6. y.writes = z.writes /\ y.todo = z.todo /\ y.at = z.at /\ y.stage = stage
  BY <1>4 DEF TxFields
<1> HIDE DEF y
<1>7. PICK B : B = tx[t].writes
  OBVIOUS
<1>8. DOMAIN y.writes = {Conn} \cup DOMAIN B
  <2>1. DOMAIN (W ++ B) = DOMAIN W \cup DOMAIN B
    BY OverRows, Zenon
  <2> QED
    BY <2>1, <1>3, <1>4, <1>6, <1>7
<1>9. \A w : Watch(w) \in DOMAIN y.writes <=> Watch(w) \in DOMAIN B
  BY <1>8, RowNames
<1>10. ASSUME NEW w, Watch(w) \in DOMAIN y.writes PROVE y.writes[Watch(w)] = B[Watch(w)]
  <2>1. Watch(w) \in DOMAIN B /\ Watch(w) \notin DOMAIN W
    BY <1>3, <1>9, <1>10, RowNames
  <2>2. (W ++ B)[Watch(w)] = B[Watch(w)]
    BY <2>1 DEF ++
  <2> QED
    BY <2>2, <1>4, <1>6, <1>7
<1>11. y.writes[Conn].cursor = Row(t, Conn).cursor
  <2>1. (W ++ B)[Conn] = W[Conn]
    BY <1>3 DEF ++
  <2> QED
    BY <2>1, <1>3, <1>4, <1>6, <1>7, CursorOfRow
<1>12. tx'[t] = y /\ \A u \in Txs : u # t => tx'[u] = tx[u]
  BY <1>1, <1>2
<1> QED
  BY <1>2, <1>4, <1>5, <1>6, <1>7, <1>9, <1>10, <1>11, <1>12, GoesOn

LEMMA RefreshDeniedKeeps ==
    ASSUME SourceInv, CursorInv, NEW t \in Txs, RefreshDenied(t)
    PROVE  CursorInv'
<1> DEFINE conn == [Row(t, Conn) EXCEPT !.status = "reauth_required"]
           W == Only(Conn, conn)
<1>1. tx[t].stage = "refresh" /\ UNCHANGED provider
  BY DEF RefreshDenied, Unblocked, At
<1>2. CASE tx[t].todo = <<>>
  <2>1. Rollback(t, <<>>)
    BY <1>2, Zenon DEF RefreshDenied
  <2> QED
    BY <1>1, <2>1, CallRolledBack
<1>3. CASE tx[t].todo # <<>>
  <2>1. Fail(t, W, TRUE)
    BY <1>3, Zenon DEF RefreshDenied
  <2>2. Checking(tx[t])
    BY <1>1, <1>3 DEF Checking
  <2>3. DOMAIN W = {Conn} /\ W[Conn] = conn
    BY OnlyRow
  <2>4. conn.cursor = Row(t, Conn).cursor
    BY CursorOfRow
  <2> HIDE DEF W, conn
  <2>5. \A w : Watch(w) \notin DOMAIN W
    BY <2>3, RowNames
  <2>6. PICK reauth : reauth = TRUE
    OBVIOUS
  <2>7. Fail(t, W, reauth) /\ (Conn \in DOMAIN W => W[Conn].cursor = Row(t, Conn).cursor)
    BY <2>1, <2>3, <2>4, <2>6
  <2> QED
    BY <1>1, <2>2, <2>5, <2>7, FailKeeps
<1> QED
  BY <1>2, <1>3

LEMMA FetchKeeps ==
    ASSUME SourceInv, CursorInv, NEW t \in Txs, Fetch(t)
    PROVE  CursorInv'
<1> DEFINE content == remote[HeadFile(t)]
           same == (Row(t, Doc(HeadFile(t))).sha = remote[HeadFile(t)])
           seen == Len(feed)
<1>1. DOMAIN tx = Txs /\ DOMAIN tx[t] = TxFields
  BY DEF SourceInv, TxOK, IsTx
<1>2. feed' = feed /\ skipped' = skipped /\ db' = db
      /\ tx' = [tx EXCEPT ![t].stage = "store", ![t].content = content,
                          ![t].same = same, ![t].seen = seen]
  BY Zenon DEF Fetch, provider
<1> HIDE DEF content, same, seen
<1>3. PICK y : y = tx'[t]
  OBVIOUS
<1>4. \A u \in Txs : u # t => tx'[u] = tx[u]
  BY <1>1, <1>2
<1>5. y.stage = "store" /\ y.todo = tx[t].todo /\ y.at = tx[t].at /\ y.writes = tx[t].writes
      /\ y.seen = seen
  BY <1>1, <1>2, <1>3 DEF TxFields
<1>6. Conn \in DOMAIN y.writes => y.writes[Conn].cursor = Row(t, Conn).cursor
  BY <1>5 DEF Row
<1>7. y.seen = Len(feed)
  BY <1>5 DEF seen
<1> QED
  BY <1>2, <1>3, <1>4, <1>5, <1>6, <1>7, GoesOn

LEMMA FetchFailsKeeps ==
    ASSUME SourceInv, CursorInv, NEW t \in Txs, Missing(t) \/ FetchFails(t)
    PROVE  CursorInv'
<1>1. tx[t].stage = "fetch" /\ Fail(t, <<>>, FALSE) /\ UNCHANGED provider
  BY Zenon DEF Missing, FetchFails, At
<1>2. Checking(tx[t])
  BY <1>1 DEF Checking
<1> QED
  BY <1>1, <1>2, NothingKept

LEMMA FreshRow ==
    ASSUME NEW t, NEW run, WatchOK(Row(t, Watch(HeadFile(t))))
    PROVE  Fresh(t, run).enabled = Row(t, Watch(HeadFile(t))).enabled /\ Fresh(t, run).asOf = tx[t].seen
<1>1. PICK old : old = Row(t, Watch(HeadFile(t)))
  OBVIOUS
<1>2. PICK seen : seen = tx[t].seen
  OBVIOUS
<1>3. PICK row : row = [old EXCEPT !.status = "fresh", !.due = FALSE, !.late = FALSE,
                                   !.run = run, !.asOf = seen]
  OBVIOUS
<1>4. row.enabled = old.enabled /\ row.asOf = seen /\ DOMAIN row = DOMAIN old
  BY <1>1, <1>3 DEF WatchOK, WatchRow
<1>5. \A a : [row EXCEPT !.alerts = a].enabled = row.enabled /\ [row EXCEPT !.alerts = a].asOf = row.asOf
  BY <1>1, <1>4 DEF WatchOK, WatchRow
<1>6. Fresh(t, run) = IF V1(t) THEN [row EXCEPT !.alerts = Resolved(@)] ELSE row
  BY <1>1, <1>2, <1>3, Zenon DEF Fresh
<1> QED
  BY <1>1, <1>2, <1>4, <1>5, <1>6

LEMMA CursorWritten ==
    ASSUME SourceInv, NEW t \in Txs
    PROVE  /\ \A w : Watch(w) \notin DOMAIN ConnWritten(t)
           /\ Conn \in DOMAIN ConnWritten(t) => ConnWritten(t)[Conn].cursor = Row(t, Conn).cursor
<1>1. CASE V1(t)
  <2>1. PICK conn : conn = [Row(t, Conn) EXCEPT !.status = "connected"]
    OBVIOUS
  <2>2. ConnWritten(t) = Only(Conn, conn)
    BY <1>1, <2>1 DEF ConnWritten
  <2>3. conn.cursor = Row(t, Conn).cursor
    BY <2>1, CursorOfRow
  <2>4. DOMAIN Only(Conn, conn) = {Conn} /\ Only(Conn, conn)[Conn] = conn
    BY OnlyRow
  <2> QED
    BY <2>2, <2>3, <2>4, RowNames
<1>2. CASE ~V1(t)
  <2>1. ConnWritten(t) = <<>>
    BY <1>2 DEF ConnWritten
  <2> QED
    BY <2>1, NoRows
<1> QED
  BY <1>1, <1>2

LEMMA SuccessKeeps ==
    ASSUME SourceInv, CursorInv, NEW t \in Txs, Unchanged(t) \/ Changed(t)
    PROVE  CursorInv'
<1> DEFINE f == HeadFile(t)
           B == ConnWritten(t)
           D == Only(Doc(f), Imported(t, Row(t, Doc(f))))
<1>1. PICK run, W :
          /\ tx' = [tx EXCEPT ![t] = Checked(t, W, run)]
          /\ W = Only(Watch(f), Fresh(t, run)) ++ B \/ W = Only(Watch(f), Fresh(t, run)) ++ D ++ B
  BY Zenon DEF Changed, Unchanged
<1>2. Unblocked(t, "store") /\ feed' = feed /\ skipped' = skipped /\ db' = db
  BY DEF Changed, Unchanged, provider
<1>3. Checking(tx[t]) /\ tx[t].stage = "store" /\ f \in Watches
  BY <1>2, StoringFile
<1>4. PICK row : row = Fresh(t, run)
  OBVIOUS
<1>5. row.enabled = Row(t, Watch(f)).enabled /\ row.asOf = tx[t].seen
  BY <1>3, <1>4, RowIsOK, FreshRow
<1>6. PICK c : c = Row(t, Conn).cursor
  OBVIOUS
<1>7. (\A w : Watch(w) \notin DOMAIN B) /\ (Conn \in DOMAIN B => B[Conn].cursor = c)
  BY <1>6, CursorWritten
<1>8. (\A w : Watch(w) \notin DOMAIN D) /\ Conn \notin DOMAIN D
  <2>1. DOMAIN D = {Doc(f)}
    BY OnlyRow
  <2> HIDE DEF D
  <2> QED
    BY <2>1, RowNames
<1> HIDE DEF D, B, f
<1>9. ChecksOnly(Only(Watch(f), row) ++ B, f, row, c)
  BY <1>7, RowsOfCheck, Zenon
<1>10. ChecksOnly(Only(Watch(f), row) ++ D ++ B, f, row, c)
  BY <1>7, <1>8, RowsOfCheck, Zenon
<1>11. ChecksOnly(W, f, row, c)
  BY <1>1, <1>4, <1>9, <1>10
<1> QED
  BY <1>1, <1>2, <1>3, <1>5, <1>6, <1>11, CheckOver DEF f, ChecksOnly

LEMMA UploadFailsKeeps ==
    ASSUME SourceInv, CursorInv, NEW t \in Txs, UploadFails(t)
    PROVE  CursorInv'
<1> DEFINE doc == Row(t, Doc(HeadFile(t)))
           left == IF doc.sha = NoContent THEN [doc EXCEPT !.objects = @ + 1] ELSE Advanced(t, doc)
           W == Only(Doc(HeadFile(t)), left)
<1>1. Unblocked(t, "store") /\ Fail(t, W, FALSE) /\ UNCHANGED provider
  BY Zenon DEF UploadFails
<1>2. Checking(tx[t])
  BY <1>1, StoringFile
<1>3. DOMAIN W = {Doc(HeadFile(t))}
  BY OnlyRow
<1> HIDE DEF W
<1>4. (\A w : Watch(w) \notin DOMAIN W) /\ Conn \notin DOMAIN W
  BY <1>3, RowNames
<1>5. PICK reauth : reauth = FALSE
  OBVIOUS
<1>6. Fail(t, W, reauth)
  BY <1>1, <1>5
<1> QED
  BY <1>1, <1>2, <1>4, <1>6, FailKeeps

LEMMA CallFailsKeeps ==
    ASSUME SourceInv, CursorInv, NEW t \in Txs, Refused(t) \/ PageFails(t) \/ DeadlockVictim(t) \/ Exit(t)
    PROVE  CursorInv'
<1>1. UNCHANGED provider /\ \E results : Rollback(t, results)
  BY Zenon DEF Refused, PageFails, DeadlockVictim, Exit
<1> QED
  BY <1>1, CallRolledBack

LEMMA NextPageKeeps ==
    ASSUME SourceInv, CursorInv, NEW t \in Txs, NextPage(t)
    PROVE  CursorInv'
<1>1. DOMAIN tx = Txs /\ DOMAIN tx[t] = TxFields
  BY DEF SourceInv, TxOK, IsTx
<1>2. tx' = [tx EXCEPT ![t].stage = "page"] /\ feed' = feed /\ skipped' = skipped /\ db' = db /\ tx[t].todo = <<>>
  BY DEF NextPage, provider
<1>3. PICK y : y = tx'[t]
  OBVIOUS
<1>4. \A u \in Txs : u # t => tx'[u] = tx[u]
  BY <1>1, <1>2
<1>5. y.stage = "page" /\ y.todo = tx[t].todo /\ y.at = tx[t].at /\ y.writes = tx[t].writes
  BY <1>1, <1>2, <1>3 DEF TxFields
<1>6. Conn \in DOMAIN y.writes => y.writes[Conn].cursor = Row(t, Conn).cursor
  BY <1>5 DEF Row
<1> QED
  BY <1>2, <1>3, <1>4, <1>5, <1>6, GoesOn

-----------------------------------------------------------------------------
(* The delta's operations, and the beginning of a transaction              *)

LEMMA OperationKeeps ==
    ASSUME SourceInv, CursorInv, NEW t \in Txs, tx[t].stage = "next", tx[t].todo # <<>>,
           HeadOp(t) \in {"adopt", "drop"}, NEW W,
           tx' = [tx EXCEPT ![t] = [Having(t, W) EXCEPT !.todo = Tail(@)]],
           feed' = feed /\ skipped' = skipped, db' = db, Conn \notin DOMAIN W,
           \A w : Watch(w) \in DOMAIN W => w = HeadFile(t),
           Watch(HeadFile(t)) \in DOMAIN W => W[Watch(HeadFile(t))] = Watched(Row(t, Watch(HeadFile(t))))
    PROVE  CursorInv'
<1>1. DOMAIN tx = Txs /\ DOMAIN tx[t] = TxFields
  BY DEF SourceInv, TxOK, IsTx
<1>2. PICK z : z = Having(t, W)
  OBVIOUS
<1>3. /\ DOMAIN z = TxFields
      /\ z.writes = W ++ tx[t].writes /\ z.locks = tx[t].locks \cup DOMAIN W
      /\ z.kind = tx[t].kind /\ z.stage = tx[t].stage /\ z.todo = tx[t].todo
      /\ z.at = tx[t].at /\ z.first = tx[t].first /\ z.more = tx[t].more /\ z.held = tx[t].held
      /\ z.content = tx[t].content /\ z.same = tx[t].same /\ z.seen = tx[t].seen
      /\ z.results = tx[t].results
  <2> DEFINE x == Having(t, W)
  <2>1. /\ DOMAIN x = TxFields
        /\ x.writes = W ++ tx[t].writes /\ x.locks = tx[t].locks \cup DOMAIN W
        /\ x.kind = tx[t].kind /\ x.stage = tx[t].stage /\ x.todo = tx[t].todo
        /\ x.at = tx[t].at /\ x.first = tx[t].first /\ x.more = tx[t].more /\ x.held = tx[t].held
        /\ x.content = tx[t].content /\ x.same = tx[t].same /\ x.seen = tx[t].seen
        /\ x.results = tx[t].results
    BY <1>1, HavingFields, Zenon
  <2> QED
    BY <2>1, <1>2, Zenon
<1>4. PICK y : y = [z EXCEPT !.todo = Tail(z.todo)]
  OBVIOUS
<1>5. y.writes = W ++ tx[t].writes /\ y.todo = Tail(tx[t].todo) /\ y.at = tx[t].at /\ y.stage = "next"
  BY <1>3, <1>4 DEF TxFields
<1>6. tx' = [tx EXCEPT ![t] = y]
  BY <1>2, <1>4
<1>7. tx'[t] = y /\ \A u \in Txs : u # t => tx'[u] = tx[u]
  BY <1>1, <1>6
<1>8. HeadFile(t) \in Files /\ HeadFile(t) \in Watches /\ HeadFile(t) # Folder
  BY NextFile, SourceSyncAssumption
<1>9. PICK row : row = Row(t, Watch(HeadFile(t)))
  OBVIOUS
<1>10. WatchOK(row)
  BY <1>8, <1>9, RowIsOK
<1>11. \A i \in 1..Len(feed) : AnswersFor(Watched(row), i)
  <2>1. \A i \in 1..Len(feed) : i \in Nat
    BY CursorType
  <2> QED
    BY <2>1, <1>10, AnswersKept
<1>12. Head(tx[t].todo) # SyncOf(HeadFile(t))
  BY DEF HeadOp, SyncOf
<1>13. Watch(Folder) \notin DOMAIN W
  BY <1>8
<1> QED
  BY <1>5, <1>7, <1>9, <1>11, <1>12, <1>13, OperationEnds

LEMMA AdoptKeeps ==
    ASSUME SourceInv, CursorInv, NEW t \in Txs, Adopt(t)
    PROVE  CursorInv'
<1> DEFINE r == Watch(HeadFile(t))
           row == Watched(Row(t, r))
           W == Only(r, row)
<1>1. tx[t].stage = "next" /\ tx[t].todo # <<>> /\ HeadOp(t) = "adopt" /\ UNCHANGED provider
  BY DEF Adopt, CurrentOp, At
<1>2. CASE Row(t, Conn).status = "disconnected"
  <2>1. Rollback(t, <<>>)
    BY <1>2, Zenon DEF Adopt
  <2> QED
    BY <1>1, <2>1, CallRolledBack
<1>3. CASE Row(t, Conn).status # "disconnected"
  <2>1. tx' = [tx EXCEPT ![t] = [Having(t, W) EXCEPT !.todo = Tail(@)]] /\ db' = db
    BY <1>3, Zenon DEF Adopt
  <2>2. DOMAIN W = {r} /\ W[r] = row
    BY OnlyRow
  <2> HIDE DEF W
  <2>3. Conn \notin DOMAIN W /\ \A w : Watch(w) \in DOMAIN W => w = HeadFile(t)
    BY <2>2, RowNames
  <2>4. feed' = feed /\ skipped' = skipped
    BY <1>1 DEF provider
  <2> QED
    BY <1>1, <2>1, <2>2, <2>3, <2>4, OperationKeeps
<1> QED
  BY <1>2, <1>3

LEMMA DropKeeps ==
    ASSUME SourceInv, CursorInv, NEW t \in Txs, Drop(t)
    PROVE  CursorInv'
<1> DEFINE r == Doc(HeadFile(t))
           some == Only(r, [Row(t, r) EXCEPT !.current = FALSE])
           W == IF Row(t, r).sha = NoContent THEN <<>> ELSE some
<1>1. tx[t].stage = "next" /\ tx[t].todo # <<>> /\ HeadOp(t) = "drop"
      /\ feed' = feed /\ skipped' = skipped /\ db' = db
  BY DEF Drop, CurrentOp, At, provider
<1>2. tx' = [tx EXCEPT ![t] = [Having(t, W) EXCEPT !.todo = Tail(@)]]
  BY Zenon DEF Drop
<1>3. DOMAIN some = {r}
  BY OnlyRow
<1> HIDE DEF some
<1>4. DOMAIN W \subseteq {r}
  BY <1>3, NoRows
<1> HIDE DEF W
<1>5. Conn \notin DOMAIN W /\ \A w : Watch(w) \notin DOMAIN W
  BY <1>4, RowNames
<1> QED
  BY <1>1, <1>2, <1>5, OperationKeeps

(* The operations of a page answer for the changes in it, or nobody watches *)
(* the file.                                                                *)
LEMMA OpsAnswer ==
    ASSUME SourceInv, CursorInv, NEW t \in Txs, "delta" \in Kinds, NEW i \in 1..Len(feed), NEW first \in BOOLEAN
    PROVE  /\ Listed(i) => Answered(i) \/ SyncOf(feed[i].file) \in Range(OpsOf(t, feed[i], first))
           /\ OpsOf(t, feed[i], first) \in Seq(Op)
           /\ ~db[Watch(Folder)].enabled => OpsOf(t, feed[i], first) = <<>>
<1> DEFINE change == feed[i]
           f == change.file
           own == IF Row(t, Watch(f)).enabled
                    THEN <<[op |-> IF change.deleted THEN "drop" ELSE "sync", file |-> f]>>
                    ELSE <<>>
           folder == IF Row(t, Watch(Folder)).enabled /\ ~change.deleted
                       THEN <<[op |-> "adopt", file |-> f], SyncOf(f)>> ELSE <<>>
           ops == OpsOf(t, change, first)
<1>1. f \in Files /\ f \in Watches /\ i \in Nat
  BY Changes
<1>2. ops = IF first THEN folder \o own ELSE own \o folder
  BY Zenon DEF OpsOf
<1>3. ops \in Seq(Op)
  <2>1. change \in [file : Files, deleted : BOOLEAN]
    BY Elements DEF SourceInv, ProviderOK
  <2> HIDE DEF change
  <2> QED
    BY <2>1, OpsOfChange
<1>4. CASE db[Watch(Folder)].enabled
  <2>1. Row(t, Watch(Folder)).enabled
    BY <1>4, ReadsAnswer
  <2>2. ASSUME ~change.deleted PROVE SyncOf(f) \in Range(ops)
    <3>1. folder = <<[op |-> "adopt", file |-> f], SyncOf(f)>>
      BY <2>1, <2>2
    <3>2. own = <<[op |-> "sync", file |-> f]>> \/ own = <<>>
      BY <2>2
    <3>3. PICK a : a = [op |-> "adopt", file |-> f]
      OBVIOUS
    <3>4. PICK s : s = SyncOf(f)
      OBVIOUS
    <3>5. folder = <<a, s>> /\ (own = <<s>> \/ own = <<>>)
      BY <3>1, <3>2, <3>3, <3>4, Zenon DEF SyncOf
    <3> HIDE DEF folder, own, ops
    <3>6. PICK S : S = {a, s}
      OBVIOUS
    <3>7. <<a, s>> \in Seq(S) /\ <<s>> \in Seq(S) /\ <<>> \in Seq(S)
      BY <3>6
    <3>8. folder \in Seq(S) /\ own \in Seq(S)
      BY <3>5, <3>7
    <3>9. DOMAIN <<a, s>> = 1..2 /\ <<a, s>>[2] = s
      OBVIOUS
    <3>10. s \in Range(folder)
      BY <3>5, <3>9 DEF Range
    <3>11. Range(folder) \subseteq Range(folder \o own) /\ Range(folder) \subseteq Range(own \o folder)
      BY <3>8, RangeOfBoth
    <3> QED
      BY <1>2, <3>4, <3>10, <3>11
  <2> QED
    BY <1>3, <1>4, <2>2 DEF Listed
<1>5. CASE ~db[Watch(Folder)].enabled
  <2>1. ~Row(t, Watch(Folder)).enabled /\ ~Row(t, Watch(f)).enabled
    BY <1>1, <1>5, ReadsAnswer
  <2>2. own = <<>> /\ folder = <<>>
    BY <2>1
  <2>3. ops = <<>>
    <3> HIDE DEF own, folder, ops
    <3> QED
      BY <1>2, <2>2
  <2>4. Answered(i)
    <3>1. AnswersFor(db[Watch(f)], i)
      BY <1>1, <1>5 DEF CursorInv, FolderFirst, AnswersFor
    <3>2. ASSUME NEW u \in Txs PROVE LeavesAnswer(tx[u], f, i)
      <4>1. FolderSide(tx[u], db)
        BY DEF CursorInv
      <4>2. tx[u].todo = <<>> /\ Watch(f) \notin DOMAIN tx[u].writes
        BY <1>1, <1>5, <4>1 DEF FolderSide
      <4>3. tx[u].stage # "store"
        BY <4>2 DEF SourceInv, TxOK, LocksOK, Checking
      <4> QED
        BY <4>2, <4>3 DEF LeavesAnswer, ReadLater
    <3> QED
      BY <3>1, <3>2 DEF Answered
  <2> QED
    BY <1>3, <2>3, <2>4
<1> QED
  BY <1>4, <1>5

LEMMA ReadPageKeeps ==
    ASSUME SourceInv, CursorInv, NEW t \in Txs, ReadPage(t)
    PROVE  CursorInv'
<1> DEFINE at == PageEnd(t)
           more == PageEnd(t) < Len(feed)
           n == PageEnd(t) - tx[t].at
<1>1. DOMAIN tx = Txs /\ DOMAIN tx[t] = TxFields /\ IsTx(tx[t])
  BY DEF SourceInv, TxOK, IsTx
<1>2. tx[t].stage = "page" /\ feed' = feed /\ skipped' = skipped /\ db' = db
  BY DEF ReadPage, At, provider
<1>3. PICK first \in BOOLEAN :
         tx' = [tx EXCEPT ![t].stage = "next", ![t].at = at, ![t].more = more,
                  ![t].todo = FlattenSeq([i \in 1..n |-> OpsOf(t, feed[tx[t].at + i], first)])]
  BY Zenon DEF ReadPage
<1>4. "delta" \in Kinds /\ tx[t].at \in Nat
  BY <1>1, <1>2, CursorType DEF IsTx
<1>5. HasRead(tx[t]) /\ FolderSide(tx[t], db) /\ tx[t].todo = <<>> /\ tx[t].at <= Len(feed) /\ Len(feed) \in Nat
  BY <1>2, CursorType DEF CursorInv, HasRead
<1>6. at \in Nat /\ at <= Len(feed) /\ tx[t].at <= at /\ n \in Nat /\ at = tx[t].at + n
  BY <1>4, <1>5, SourceSyncAssumption DEF PageEnd
<1>7. PICK start : start = tx[t].at
  OBVIOUS
<1>8. PICK seqs : seqs = [i \in 1..n |-> OpsOf(t, feed[start + i], first)]
  OBVIOUS
<1>9. PICK todo : todo = FlattenSeq(seqs)
  OBVIOUS
<1>10. tx' = [tx EXCEPT ![t].stage = "next", ![t].at = at, ![t].more = more, ![t].todo = todo]
  BY <1>3, <1>7, <1>8, <1>9
<1> HIDE DEF at, more, n
<1>11. PICK y : y = tx'[t]
  OBVIOUS
<1>12. \A u \in Txs : u # t => tx'[u] = tx[u]
  BY <1>1, <1>10
<1>13. y.stage = "next" /\ y.todo = todo /\ y.at = at /\ y.writes = tx[t].writes
  BY <1>1, <1>10, <1>11 DEF TxFields
<1>14. start \in Nat /\ at = start + n
  BY <1>4, <1>6, <1>7
<1>15. \A i \in 1..n : start + i \in 1..Len(feed)
  BY <1>5, <1>6, <1>14
<1>16. \A i \in 1..n : OpsOf(t, feed[start + i], first) \in Seq(Op)
  BY <1>4, <1>15, OpsAnswer
<1>17. seqs \in Seq(Seq(Op)) /\ Len(seqs) = n /\ \A i \in 1..n : seqs[i] = OpsOf(t, feed[start + i], first)
  <2>1. seqs \in [1..n -> Seq(Op)]
    BY <1>8, <1>16
  <2> QED
    BY <1>6, <1>8, <2>1
<1>18. \A i \in 1..n : Range(seqs[i]) \subseteq Range(todo)
  BY <1>9, <1>17, FlattenType
<1>19. \A f, i : ReadLater(y, f, i)
  BY <1>13 DEF ReadLater
<1>20. HasRead(y)
  <2>1. ASSUME NEW i \in 1..at, Listed(i) PROVE Answered(i) \/ WillAnswer(y, feed[i].file, i)
    <3>1. i \in Nat
      BY <1>6
    <3>2. CASE i <= start
      <4>1. i \in 1..tx[t].at
        BY <1>7, <1>14, <3>1, <3>2, <2>1
      <4>2. Answered(i) \/ WillAnswer(tx[t], feed[i].file, i)
        BY <4>1, <2>1, <1>5 DEF HasRead
      <4>3. Range(tx[t].todo) = {}
        BY <1>5 DEF Range
      <4>4. WillAnswer(tx[t], feed[i].file, i) => WillAnswer(y, feed[i].file, i)
        BY <4>3, <1>13, <1>19 DEF WillAnswer
      <4> QED
        BY <4>2, <4>4
    <3>3. CASE ~(i <= start)
      <4>1. PICK j : j = i - start
        OBVIOUS
      <4>2. j \in 1..n /\ i = start + j
        BY <1>6, <1>14, <3>1, <3>3, <4>1, <2>1
      <4>3. i \in 1..Len(feed)
        BY <4>2, <1>15
      <4>4. Answered(i) \/ SyncOf(feed[i].file) \in Range(OpsOf(t, feed[i], first))
        BY <4>3, <1>4, <2>1, OpsAnswer
      <4>5. Range(OpsOf(t, feed[i], first)) \subseteq Range(todo)
        BY <4>2, <1>17, <1>18
      <4> QED
        BY <4>4, <4>5, <1>13, <1>19 DEF WillAnswer
    <3> QED
      BY <3>2, <3>3
  <2> QED
    BY <2>1, <1>6, <1>13 DEF HasRead
<1>21. FolderSide(y, db)
  <2>1. ASSUME ~db[Watch(Folder)].enabled PROVE todo = <<>>
    <3>1. \A i \in 1..n : seqs[i] = <<>>
      BY <2>1, <1>4, <1>15, <1>17, OpsAnswer
    <3>2. PICK S : S = {}
      OBVIOUS
    <3>3. <<>> \in Seq(S)
      OBVIOUS
    <3>4. seqs \in Seq(Seq(S))
      BY <1>17, <3>1, <3>3
    <3>5. todo \in Seq(S)
      BY <1>9, <3>4, FlattenType
    <3> QED
      BY <3>2, <3>5
  <2> QED
    BY <2>1, <1>5, <1>13 DEF FolderSide
<1>22. \A i \in 1..Len(feed) : LeavesAnswer(tx[t], feed[i].file, i) => LeavesAnswer(y, feed[i].file, i)
  BY <1>13, <1>19 DEF LeavesAnswer
<1>23. Conn \in DOMAIN y.writes => y.writes[Conn].cursor = Row(t, Conn).cursor
  BY <1>13 DEF Row
<1>24. y.at \in Nat
  BY <1>6, <1>13
<1> QED
  BY <1>2, <1>11, <1>12, <1>20, <1>21, <1>22, <1>23, <1>24, OneActs

LEMMA StartPageKeeps ==
    ASSUME SourceInv, CursorInv, NEW t \in Txs, StartPage(t)
    PROVE  CursorInv'
<1>1. PICK y : y = tx'[t]
  OBVIOUS
<1>2. /\ \A u \in Txs : u # t => tx'[u] = tx[u]
      /\ skipped' = skipped \cup 1..Len(feed) /\ feed' = feed /\ db' = db
  BY StartedFields
<1>3. y.stage = "next" /\ y.todo = tx[t].todo /\ y.at = Len(feed) /\ y.writes = tx[t].writes
  BY <1>1, StartedFields DEF Started
<1>4. FolderSide(tx[t], db) /\ y.at \in Nat
  BY <1>3, CursorType DEF CursorInv
<1>5. FolderSide(y, db)
  BY <1>3, <1>4 DEF FolderSide
<1>6. \A i \in 1..Len(feed) : LeavesAnswer(tx[t], feed[i].file, i) => LeavesAnswer(y, feed[i].file, i)
  BY <1>3 DEF LeavesAnswer, ReadLater
<1>7. Skips(y)
  BY <1>2, <1>3, <1>4 DEF Skips
<1>8. Conn \in DOMAIN y.writes => y.writes[Conn].cursor = Row(t, Conn).cursor
  BY <1>3 DEF Row
<1> QED
  BY <1>1, <1>2, <1>4, <1>5, <1>6, <1>7, <1>8, OneActs

LEMMA BeginKeeps ==
    ASSUME SourceInv, CursorInv, NEW t \in Txs, NEW kind, NEW stage \in {"next", "page", "refresh"},
           NEW todo, NEW at, NEW x, BegunAs(x, kind, stage, todo, at),
           tx' = [tx EXCEPT ![t] = x], UNCHANGED <<provider, db>>,
           at = 0 \/ at = db[Conn].cursor,
           todo # <<>> => stage = "next" /\ db[Watch(Folder)].enabled
    PROVE  CursorInv'
<1>1. DOMAIN tx = Txs
  BY DEF SourceInv
<1>2. tx'[t] = x /\ \A u \in Txs : u # t => tx'[u] = tx[u]
  BY <1>1
<1>3. feed' = feed /\ skipped' = skipped /\ db' = db
  BY DEF provider
<1>4. x.writes = <<>> /\ x.stage = stage /\ x.todo = todo /\ x.at = at
  BY DEF BegunAs
<1>5. MayPass(0)
  BY CursorType DEF MayPass
<1>6. MayPass(x.at) /\ x.at \in Nat
  BY <1>4, <1>5, CursorType DEF CursorInv
<1> QED
  BY <1>2, <1>3, <1>4, <1>6, NothingHeld

LEMMA BeginsKeep ==
    ASSUME SourceInv, CursorInv, NEW t \in Txs,
           \/ \E f \in Files : BeginManual(t, f)
           \/ \E kind \in Kinds : BeginBatch(t, kind)
           \/ BeginDelta(t)
    PROVE  CursorInv'
<1>1. ASSUME NEW f \in Files, BeginManual(t, f) PROVE CursorInv'
  <2> DEFINE todo == <<SyncOf(f)>>
             x == [Idle EXCEPT !.kind = "manual", !.stage = "next", !.todo = todo]
  <2>1. tx' = [tx EXCEPT ![t] = x]
    BY <1>1, Zenon DEF BeginManual
  <2>2. db[Watch(f)].exists /\ UNCHANGED <<provider, db>>
    BY <1>1 DEF BeginManual
  <2>3. db[Watch(Folder)].enabled
    BY <2>2, RowSets DEF CursorInv, FolderFirst
  <2> HIDE DEF todo
  <2>4. BegunAs(x, "manual", "next", todo, 0)
    BY DEF BegunAs, Idle, TxFields
  <2> HIDE DEF x
  <2> QED
    BY <2>1, <2>2, <2>3, <2>4, BeginKeeps
<1>2. ASSUME NEW kind \in Kinds, BeginBatch(t, kind) PROVE CursorInv'
  <2> DEFINE all == IF kind = "worker" THEN Watches ELSE Files
             due == {w \in all :
                       db[Watch(w)].exists /\ db[Watch(w)].enabled /\ db[Watch(w)].due}
             Limit(order) == IF Len(order) <= BatchLimit THEN Len(order) ELSE BatchLimit
             Ops(order) == [i \in 1..Limit(order) |-> SyncOf(order[i])]
             X(order) == [Idle EXCEPT !.kind = kind, !.stage = "next", !.todo = Ops(order)]
  <2>1. PICK order \in SetToSeqs(due) : tx' = [tx EXCEPT ![t] = X(order)]
    BY <1>2, Zenon DEF BeginBatch
  <2>2. due # {} /\ UNCHANGED <<provider, db>>
    BY <1>2, Zenon DEF BeginBatch
  <2>3. db[Watch(Folder)].enabled
    <3>1. PICK w \in all : db[Watch(w)].exists
      BY <2>2
    <3>2. w \in Watches
      BY DEF Watches
    <3> QED
      BY <3>1, <3>2 DEF CursorInv, FolderFirst
  <2> DEFINE todo == Ops(order)
             x == [Idle EXCEPT !.kind = kind, !.stage = "next", !.todo = todo]
  <2>4. tx' = [tx EXCEPT ![t] = x]
    BY <2>1
  <2> HIDE DEF todo, due
  <2>5. BegunAs(x, kind, "next", todo, 0)
    BY DEF BegunAs, Idle, TxFields
  <2> HIDE DEF x
  <2> QED
    BY <2>2, <2>3, <2>4, <2>5, BeginKeeps
<1>3. ASSUME BeginDelta(t) PROVE CursorInv'
  <2> DEFINE at == db[Conn].cursor
             stage == IF db[Conn].token = "expired" THEN "refresh" ELSE "page"
             first == FromNow /\ ~db[Conn].begun
             x == [Idle EXCEPT !.kind = "delta", !.at = at, !.first = first, !.stage = stage]
  <2>1. tx' = [tx EXCEPT ![t] = x]
    BY <1>3, Zenon DEF BeginDelta
  <2>2. UNCHANGED <<provider, db>>
    BY <1>3 DEF BeginDelta
  <2>3. PICK s \in {"next", "page", "refresh"} : s = stage
    OBVIOUS
  <2>4. PICK n : n = at
    OBVIOUS
  <2>5. BegunAs(x, "delta", s, <<>>, n)
    <3>1. first \in BOOLEAN
      OBVIOUS
    <3> HIDE DEF at, stage, first
    <3> QED
      BY <2>3, <2>4, <3>1 DEF BegunAs, Idle, TxFields
  <2> HIDE DEF x
  <2> QED
    BY <2>1, <2>2, <2>4, <2>5, BeginKeeps
<1> QED
  BY <1>1, <1>2, <1>3

-----------------------------------------------------------------------------
(* Changes of what is committed, and of the feed                           *)

(* Whatever was answered for still is, the folder is still watched, and no *)
(* transaction did more than come to its end.                              *)
LEMMA StillAnswered ==
    ASSUME SourceInv, CursorInv,
           Len(feed)' \in Nat, Len(feed) <= Len(feed)', \A i \in 1..Len(feed) : feed'[i] = feed[i],
           skipped' = skipped,
           \A i \in 1..Len(feed) : Answered(i) => Answered(i)',
           NEW n \in Nat, n <= Len(feed), \A i \in 1..n : Listed(i) => Answered(i)',
           db'[Conn].cursor = n,
           db[Watch(Folder)].enabled => db'[Watch(Folder)].enabled,
           FolderFirst(db'),
           \A u \in Txs : tx'[u] = tx[u] \/ tx'[u] = Idle
    PROVE  CursorInv'
<1>0. \A i \in 1..Len(feed) : Listed(i)' = Listed(i)
  BY DEF Listed
<1>1. Len(feed) \in Nat
  BY CursorType
<1>2. ASSUME NEW m \in Nat, m <= Len(feed), \A i \in 1..m : Listed(i) => Answered(i)'
      PROVE  MayPass(m)'
  <2>1. m <= Len(feed)'
    BY <1>1, <1>2
  <2>2. \A i \in 1..m : i \in 1..Len(feed)
    BY <1>1, <1>2
  <2> QED
    BY <1>0, <1>2, <2>1, <2>2 DEF MayPass
<1>3. ASSUME NEW m \in Nat, MayPass(m) PROVE MayPass(m)'
  <2>1. m <= Len(feed) /\ \A i \in 1..m : i \in 1..Len(feed)
    BY <1>1, <1>3 DEF MayPass
  <2> QED
    BY <1>2, <1>3, <2>1 DEF MayPass
<1>4. FolderFirst(db)' /\ MayPass(db[Conn].cursor)'
  <2>1. MayPass(n)'
    BY <1>2
  <2> QED
    BY <2>1
<1>5. ASSUME NEW u \in Txs
      PROVE  /\ FolderSide(tx[u], db)' /\ HasRead(tx[u])'
             /\ (Conn \in DOMAIN tx[u].writes)' => MayPass(tx[u].writes[Conn].cursor)'
  <2>1. PICK x : x = tx'[u]
    OBVIOUS
  <2>2. CASE x = tx[u]
    <3>1. FolderSide(x, db) /\ HasRead(x) /\ x.at \in Nat
          /\ (Conn \in DOMAIN x.writes => MayPass(x.writes[Conn].cursor) /\ x.writes[Conn].cursor \in Nat)
      BY <2>2, CursorType DEF CursorInv
    <3>2. FolderSide(x, db)'
      BY <3>1 DEF FolderSide
    <3>3. HasRead(x)'
      <4>1. x.at <= Len(feed)' /\ \A i \in 1..x.at : i \in 1..Len(feed)
        BY <1>1, <3>1 DEF HasRead
      <4>2. \A i \in 1..x.at : Listed(i)' => Answered(i)' \/ WillAnswer(x, feed'[i].file, i)
        BY <1>0, <3>1, <4>1 DEF HasRead
      <4> QED
        BY <3>1, <4>1, <4>2 DEF HasRead
    <3>4. ASSUME Conn \in DOMAIN x.writes PROVE MayPass(x.writes[Conn].cursor)'
      BY <1>3, <3>1, <3>4
    <3> QED
      BY <2>1, <3>2, <3>3, <3>4
  <2>3. CASE x = Idle
    <3>1. x.todo = <<>> /\ x.at = 0 /\ DOMAIN x.writes = {}
      BY <2>3, NoRows DEF Idle
    <3>2. FolderSide(x, db)' /\ HasRead(x)'
      BY <3>1 DEF FolderSide, HasRead
    <3> QED
      BY <2>1, <3>1, <3>2
  <2> QED
    BY <2>1, <2>2, <2>3
<1> QED
  BY <1>4, <1>5 DEF CursorInv

LEMMA EditKeeps ==
    ASSUME SourceInv, CursorInv, NEW f, NEW c, Edit(f, c)
    PROVE  CursorInv'
<1>1. PICK change : change = [file |-> f, deleted |-> c = NoContent]
  OBVIOUS
<1>2. feed' = Append(feed, change) /\ skipped' = skipped /\ db' = db /\ tx' = tx
  BY <1>1, Zenon DEF Edit
<1>3. feed \in Seq([file : Files, deleted : BOOLEAN]) /\ Len(feed) \in Nat
  BY CursorType DEF SourceInv, ProviderOK
<1>4. Len(feed') = Len(feed) + 1 /\ \A i \in 1..Len(feed) : feed'[i] = feed[i]
  BY <1>2, <1>3
<1>5. \A i \in 1..Len(feed) : Answered(i) => Answered(i)'
  BY <1>2, <1>4 DEF Answered
<1>6. PICK n \in Nat : n = db[Conn].cursor
  BY CursorType
<1>7. n <= Len(feed) /\ \A i \in 1..n : i \in 1..Len(feed) /\ (Listed(i) => Answered(i))
  BY <1>3, <1>6 DEF CursorInv, MayPass
<1>8. FolderFirst(db')
  BY <1>2 DEF CursorInv, FolderFirst
<1>9. Len(feed)' \in Nat /\ Len(feed) <= Len(feed)'
  BY <1>3, <1>4
<1> QED
  BY <1>2, <1>4, <1>5, <1>6, <1>7, <1>8, <1>9, StillAnswered

(* Somebody writes rows without a transaction. *)
LEMMA RowsKeep ==
    ASSUME SourceInv, CursorInv, tx' = tx, feed' = feed /\ skipped' = skipped,
           \A w \in Watches : \A i \in 1..Len(feed) :
               AnswersFor(db[Watch(w)], i) => AnswersFor(db'[Watch(w)], i),
           db'[Conn].cursor = db[Conn].cursor,
           db[Watch(Folder)].enabled => db'[Watch(Folder)].enabled,
           FolderFirst(db')
    PROVE  CursorInv'
<1>1. \A i \in 1..Len(feed) : Answered(i) => Answered(i)'
  BY Changes DEF Answered
<1>2. PICK n \in Nat : n = db[Conn].cursor
  BY CursorType
<1>3. Len(feed) \in Nat
  BY CursorType
<1>4. n <= Len(feed) /\ \A i \in 1..n : i \in 1..Len(feed) /\ (Listed(i) => Answered(i))
  BY <1>2, <1>3 DEF CursorInv, MayPass
<1> QED
  BY <1>1, <1>2, <1>3, <1>4, StillAnswered

LEMMA WatchesKeep ==
    ASSUME SourceInv, CursorInv, tx' = tx, feed' = feed /\ skipped' = skipped, db'[Conn].cursor = db[Conn].cursor,
           \A w \in Watches :
               /\ \A i \in Nat : AnswersFor(db[Watch(w)], i) => AnswersFor(db'[Watch(w)], i)
               /\ db[Watch(w)].enabled => db'[Watch(w)].enabled
               /\ db'[Watch(w)].exists \/ db'[Watch(w)].enabled =>
                      db[Watch(w)].exists \/ db[Watch(w)].enabled \/ db'[Watch(Folder)].enabled
    PROVE  CursorInv'
<1>1. Folder \in Watches /\ FolderFirst(db)
  BY RowSets DEF CursorInv
<1>2. db[Watch(Folder)].enabled => db'[Watch(Folder)].enabled
  BY <1>1
<1>3. FolderFirst(db')
  BY <1>1, <1>2 DEF FolderFirst
<1>4. \A i \in 1..Len(feed) : i \in Nat
  BY CursorType
<1> QED
  BY <1>2, <1>3, <1>4, RowsKeep

LEMMA TickKeeps ==
    ASSUME SourceInv, CursorInv, NEW f \in Files, Tick(f)
    PROVE  CursorInv'
<1> DEFINE row == db[Watch(f)]
<1>1. DOMAIN db = Rows /\ Watch(f) \in Rows /\ f \in Watches /\ WatchOK(row)
  BY RowSets, RowKinds DEF SourceInv, RowsOK
<1>2. tx' = tx /\ feed' = feed /\ skipped' = skipped /\ row.exists
  BY DEF Tick, provider
<1>3. PICK value : /\ value = [row EXCEPT !.due = TRUE] \/ value = [row EXCEPT !.late = TRUE]
                   /\ db' = [db EXCEPT ![Watch(f)] = value]
  BY DEF Tick
<1>4. value.enabled = row.enabled /\ \A i \in Nat : AnswersFor(row, i) => AnswersFor(value, i)
  <2>1. value.enabled = row.enabled
    BY <1>1, <1>3 DEF WatchOK, WatchRow
  <2>2. PICK old : old = row
    OBVIOUS
  <2>3. WatchOK(old) /\ (value = [old EXCEPT !.due = TRUE] \/ value = [old EXCEPT !.late = TRUE])
    BY <1>1, <1>3, <2>2
  <2>4. ASSUME NEW i \in Nat, AnswersFor(old, i) PROVE AnswersFor(value, i)
    <3>1. AnswersFor([old EXCEPT !.due = TRUE], i) /\ AnswersFor([old EXCEPT !.late = TRUE], i)
      BY <2>3, <2>4, AnswersKept
    <3> QED
      BY <2>3, <3>1
  <2> QED
    BY <2>1, <2>2, <2>4
<1>5. \A w \in Watches : w # f => db'[Watch(w)] = db[Watch(w)]
  BY <1>1, <1>3, RowNames
<1>6. db'[Watch(f)] = value /\ db'[Conn] = db[Conn]
  BY <1>1, <1>3, RowNames
<1> QED
  BY <1>2, <1>4, <1>5, <1>6, WatchesKeep

LEMMA ConnectionKeeps ==
    ASSUME SourceInv, CursorInv, TokenExpires \/ Reconnect
    PROVE  CursorInv'
<1>1. DOMAIN db = Rows /\ db[Conn] \in ConnRow
  BY RowSets, RowKinds DEF SourceInv, RowsOK
<1>2. tx' = tx /\ feed' = feed /\ skipped' = skipped
  BY DEF TokenExpires, Reconnect, provider
<1>3. PICK value : /\ value = [db[Conn] EXCEPT !.token = "expired"]
                      \/ value = [db[Conn] EXCEPT !.status = "connected", !.token = "live"]
                   /\ db' = [db EXCEPT ![Conn] = value]
  <2>1. Conn \in DOMAIN db
    BY <1>1, RowSets
  <2>2. CASE TokenExpires
    BY <2>2 DEF TokenExpires
  <2>3. CASE Reconnect
    <3>1. db' = [db EXCEPT ![Conn].status = "connected", ![Conn].token = "live"]
      BY <2>3 DEF Reconnect
    <3>2. db' = [db EXCEPT ![Conn] = [db[Conn] EXCEPT !.status = "connected", !.token = "live"]]
      BY <2>1, <3>1
    <3> QED
      BY <3>2
  <2> QED
    BY <2>2, <2>3
<1>4. value.cursor = db[Conn].cursor
  BY <1>1, <1>3 DEF ConnRow
<1>5. db'[Conn].cursor = db[Conn].cursor /\ \A w \in Watches : db'[Watch(w)] = db[Watch(w)]
  BY <1>1, <1>3, <1>4, RowSets, RowNames
<1> QED
  BY <1>2, <1>5, WatchesKeep

LEMMA WatchFolderKeeps ==
    ASSUME SourceInv, CursorInv, WatchFolder
    PROVE  CursorInv'
<1> DEFINE V == {Folder} \cup {f \in Files : remote[f] # NoContent}
           R == {Watch(w) : w \in V}
           W == [r \in R |-> Watched(db[r])]
<1>1. db' = W ++ db /\ tx' = tx /\ feed' = feed /\ skipped' = skipped
  BY Zenon DEF WatchFolder, provider
<1>2. \A w \in Watches : WatchOK(db[Watch(w)])
  BY RowSets, RowKinds DEF SourceInv, RowsOK
<1>3. DOMAIN db = Rows /\ Folder \in V /\ Folder \in Watches
  BY RowSets DEF SourceInv, RowsOK
<1> HIDE DEF V
<1>4. \A w \in Watches : db'[Watch(w)] = IF w \in V THEN Watched(db[Watch(w)]) ELSE db[Watch(w)]
  BY <1>1, <1>3, RowSets, RowNames DEF ++
<1>5. db'[Conn] = db[Conn]
  BY <1>1, <1>3, RowSets, RowNames DEF ++
<1>6. \A w \in Watches : \A i \in Nat : AnswersFor(Watched(db[Watch(w)]), i)
  BY <1>2, AnswersKept
<1>7. \A w \in Watches : Watched(db[Watch(w)]).enabled
  <2>1. 0 \in Nat
    OBVIOUS
  <2> QED
    BY <1>2, <2>1, AnswersKept
<1>8. db'[Watch(Folder)].enabled
  BY <1>3, <1>4, <1>7
<1> HIDE DEF W
<1> QED
  BY <1>1, <1>4, <1>5, <1>6, <1>7, <1>8, WatchesKeep

LEMMA AskHealthKeeps ==
    ASSUME SourceInv, CursorInv, AskHealth
    PROVE  CursorInv'
<1> DEFINE V == {g \in Files : Stale(db[Watch(g)])}
           R == {Watch(f) : f \in V}
           W == [r \in R |-> StaleMarked(db[r])]
<1>1. db' = W ++ db /\ tx' = tx /\ feed' = feed /\ skipped' = skipped
  BY Zenon DEF AskHealth, provider
<1>2. \A w \in Watches : WatchOK(db[Watch(w)])
  BY RowSets, RowKinds DEF SourceInv, RowsOK
<1>3. DOMAIN db = Rows /\ \A w \in V : Stale(db[Watch(w)])
  BY DEF SourceInv, RowsOK
<1> HIDE DEF V
<1>4. \A w \in Watches : db'[Watch(w)] = IF w \in V THEN StaleMarked(db[Watch(w)]) ELSE db[Watch(w)]
  BY <1>1, <1>3, RowSets, RowNames DEF ++
<1>5. db'[Conn] = db[Conn]
  BY <1>1, <1>3, RowSets, RowNames DEF ++
<1>6. \A w \in V \cap Watches : \A i \in Nat : AnswersFor(db[Watch(w)], i) => AnswersFor(StaleMarked(db[Watch(w)]), i)
  BY <1>2, <1>3, AnswersKept
<1>7. \A w \in Watches : /\ StaleMarked(db[Watch(w)]).enabled = db[Watch(w)].enabled
                         /\ StaleMarked(db[Watch(w)]).exists = db[Watch(w)].exists
  <2>1. 0 \in Nat
    OBVIOUS
  <2> QED
    BY <1>2, <2>1, AnswersKept
<1> HIDE DEF W
<1>8. ASSUME NEW w \in Watches
      PROVE  /\ \A i \in Nat : AnswersFor(db[Watch(w)], i) => AnswersFor(db'[Watch(w)], i)
             /\ db'[Watch(w)].enabled = db[Watch(w)].enabled
             /\ db'[Watch(w)].exists = db[Watch(w)].exists
  <2>1. CASE w \in V
    BY <2>1, <1>4, <1>6, <1>7
  <2>2. CASE w \notin V
    BY <2>2, <1>4
  <2> QED
    BY <2>1, <2>2
<1> QED
  BY <1>1, <1>5, <1>8, WatchesKeep

-----------------------------------------------------------------------------
(* The end of a transaction                                                *)

LEMMA CommitKeeps ==
    ASSUME SourceInv, CursorInv, NEW t \in Txs, NEW W, Commit(t, W), UNCHANGED provider, tx[t].todo = <<>>,
           \A w \in Watches : Watch(w) \in DOMAIN W =>
               Stale(Row(t, Watch(w))) /\ W[Watch(w)] = StaleMarked(Row(t, Watch(w))),
           NEW n \in Nat, n <= Len(feed),
           \A i \in 1..n : Listed(i) => Answered(i) \/ WillAnswer(tx[t], feed[i].file, i),
           n = IF Conn \in DOMAIN W THEN W[Conn].cursor ELSE Row(t, Conn).cursor
    PROVE  CursorInv'
<1>1. PICK B : B = tx[t].writes
  OBVIOUS
<1>2. db' = W ++ B ++ db /\ tx' = [tx EXCEPT ![t] = Idle] /\ feed' = feed /\ skipped' = skipped
  BY <1>1 DEF Commit, provider
<1>3. DOMAIN db = Rows /\ DOMAIN tx = Txs
  BY DEF SourceInv, RowsOK
<1>4. \A r \in Rows : db'[r] = IF r \in DOMAIN W THEN W[r] ELSE Row(t, r)
  BY <1>1, <1>2, <1>3 DEF ++, Row
<1>5. db'[Conn].cursor = n
  BY <1>4, RowSets
<1>6. ASSUME NEW w \in Watches
      PROVE  /\ \A i \in Nat : AnswersFor(Row(t, Watch(w)), i) => AnswersFor(db'[Watch(w)], i)
             /\ db'[Watch(w)].enabled = Row(t, Watch(w)).enabled
             /\ db'[Watch(w)].exists = Row(t, Watch(w)).exists
  <2>1. PICK old : old = Row(t, Watch(w))
    OBVIOUS
  <2>2. WatchOK(old) /\ Watch(w) \in Rows
    BY <2>1, RowIsOK, RowSets
  <2>3. PICK new : new = db'[Watch(w)]
    OBVIOUS
  <2>4. CASE Watch(w) \in DOMAIN W
    <3>1. new = StaleMarked(old) /\ Stale(old)
      BY <1>4, <2>1, <2>2, <2>3, <2>4
    <3>2. \A i \in Nat : AnswersFor(old, i) => AnswersFor(StaleMarked(old), i)
      BY <2>2, <3>1, AnswersKept
    <3>3. StaleMarked(old).enabled = old.enabled /\ StaleMarked(old).exists = old.exists
      <4>1. 0 \in Nat
        OBVIOUS
      <4> QED
        BY <2>2, <4>1, AnswersKept
    <3> QED
      BY <2>1, <2>3, <3>1, <3>2, <3>3
  <2>5. CASE Watch(w) \notin DOMAIN W
    BY <1>4, <2>2, <2>5
  <2> QED
    BY <2>4, <2>5
<1>7. Folder \in Watches
  BY RowSets
<1>8. db[Watch(Folder)].enabled => db'[Watch(Folder)].enabled
  BY <1>6, <1>7, ReadsAnswer
<1>9. FolderFirst(db')
  <2>1. \A w \in Watches : db'[Watch(w)].exists \/ db'[Watch(w)].enabled => db[Watch(Folder)].enabled
    BY <1>6, ReadsAnswer
  <2> QED
    BY <1>8, <2>1 DEF FolderFirst
<1>10. tx'[t] = Idle /\ \A u \in Txs : u # t => tx'[u] = tx[u]
  BY <1>2, <1>3
<1>11. \A f, i : LeavesAnswer(Idle, f, i)
  BY NoRows DEF LeavesAnswer, ReadLater, Idle
<1>12. ASSUME NEW i \in 1..Len(feed), AnswersFor(Row(t, Watch(feed[i].file)), i),
              \A u \in Txs : u # t => LeavesAnswer(tx[u], feed[i].file, i)
       PROVE  Answered(i)'
  <2>1. i \in Nat /\ feed[i].file \in Watches
    BY Changes
  <2>2. AnswersFor(db'[Watch(feed[i].file)], i)
    BY <1>6, <1>12, <2>1
  <2>3. \A u \in Txs : LeavesAnswer(tx'[u], feed[i].file, i)
    BY <1>10, <1>11, <1>12
  <2> QED
    BY <1>2, <2>2, <2>3 DEF Answered
<1>13. ASSUME NEW i \in 1..Len(feed), Answered(i) PROVE Answered(i)'
  <2>1. AnswersFor(Row(t, Watch(feed[i].file)), i)
    BY <1>13, ReadsAnswer DEF Answered
  <2> QED
    BY <1>12, <1>13, <2>1 DEF Answered
<1>14. ASSUME NEW i \in 1..Len(feed), WillAnswer(tx[t], feed[i].file, i) PROVE Answered(i)'
  <2> DEFINE f == feed[i].file
  <2>1. f \in Watches
    BY Changes
  <2>2. Range(tx[t].todo) = {}
    BY DEF Range
  <2>3. Watch(f) \in DOMAIN tx[t].writes /\ AnswersFor(tx[t].writes[Watch(f)], i)
    BY <1>14, <2>2 DEF WillAnswer
  <2>4. AnswersFor(Row(t, Watch(f)), i)
    BY <2>3 DEF Row
  <2>5. Watch(f) \in tx[t].locks
    BY <2>3 DEF SourceInv, TxOK, LocksOK
  <2>6. ASSUME NEW u \in Txs, u # t PROVE LeavesAnswer(tx[u], f, i)
    <3>1. Watch(f) \notin tx[u].locks
      BY <2>5, <2>6 DEF SourceInv, Apart
    <3>2. LocksOK(tx[u])
      BY DEF SourceInv, TxOK
    <3>3. Watch(f) \notin DOMAIN tx[u].writes
      BY <3>1, <3>2 DEF LocksOK
    <3>4. tx[u].stage = "store" => Head(tx[u].todo).file # f
      BY <3>1, <3>2 DEF LocksOK, Checking
    <3> QED
      BY <3>3, <3>4 DEF LeavesAnswer, ReadLater
  <2> QED
    BY <1>12, <2>4, <2>6
<1>15. Len(feed) \in Nat /\ Len(feed') = Len(feed)
  BY <1>2, CursorType
<1>16. \A i \in 1..n : i \in 1..Len(feed)
  BY <1>15
<1>17. \A i \in 1..n : Listed(i) => Answered(i)'
  BY <1>13, <1>14, <1>16
<1>18. \A u \in Txs : tx'[u] = tx[u] \/ tx'[u] = Idle
  BY <1>10
<1>19. Len(feed)' \in Nat /\ Len(feed) <= Len(feed)' /\ \A i \in 1..Len(feed) : feed'[i] = feed[i]
  BY <1>2, <1>15
<1>20. \A i \in 1..Len(feed) : Answered(i) => Answered(i)'
  BY <1>13
<1> QED
  BY <1>2, <1>5, <1>8, <1>9, <1>17, <1>18, <1>19, <1>20, StillAnswered

LEMMA EndBatchKeeps ==
    ASSUME SourceInv, CursorInv, NEW t \in Txs, EndBatch(t)
    PROVE  CursorInv'
<1> DEFINE marked == [r \in StaleRows(t) |-> StaleMarked(Row(t, r))]
           W == IF V1(t) THEN marked ELSE <<>>
<1>1. Commit(t, W) /\ UNCHANGED provider /\ tx[t].todo = <<>>
  BY Zenon DEF EndBatch
<1>2. \A r \in StaleRows(t) : Stale(Row(t, r)) /\ r # Conn
  BY RowNames DEF StaleRows
<1>3. \A r \in DOMAIN W : r \in StaleRows(t) /\ W[r] = StaleMarked(Row(t, r))
  BY NoRows
<1> HIDE DEF W
<1>4. PICK n \in Nat : n = Row(t, Conn).cursor
  BY CursorType
<1>5. MayPass(n)
  BY <1>4, ReadsAnswer
<1>6. n <= Len(feed) /\ \A i \in 1..n : Listed(i) => Answered(i)
  BY <1>5 DEF MayPass
<1>7. Conn \notin DOMAIN W
  BY <1>2, <1>3
<1>8. \A w \in Watches : Watch(w) \in DOMAIN W =>
          Stale(Row(t, Watch(w))) /\ W[Watch(w)] = StaleMarked(Row(t, Watch(w)))
  BY <1>2, <1>3
<1> QED
  BY <1>1, <1>4, <1>6, <1>7, <1>8, CommitKeeps

LEMMA EndDeltaKeeps ==
    ASSUME SourceInv, CursorInv, NEW t \in Txs, EndDelta(t)
    PROVE  CursorInv'
<1>1. PICK n \in Nat : n = tx[t].at
  BY CursorType
<1>2. PICK conn : conn = [Row(t, Conn) EXCEPT !.begun = TRUE, !.cursor = n]
  OBVIOUS
<1> DEFINE W == Only(Conn, conn)
<1>3. Commit(t, W) /\ UNCHANGED provider /\ tx[t].todo = <<>>
  BY <1>1, <1>2, Zenon DEF EndDelta, NewCursor
<1>4. conn.cursor = n
  <2>1. Row(t, Conn) \in ConnRow
    BY RowIsOK
  <2> QED
    BY <1>2, <2>1 DEF ConnRow
<1>5. DOMAIN W = {Conn} /\ W[Conn] = conn
  BY OnlyRow
<1> HIDE DEF W
<1>6. \A w \in Watches : Watch(w) \notin DOMAIN W
  BY <1>5, RowNames
<1>7. n <= Len(feed) /\ \A i \in 1..n : Listed(i) => Answered(i) \/ WillAnswer(tx[t], feed[i].file, i)
  BY <1>1 DEF CursorInv, HasRead
<1> QED
  BY <1>3, <1>4, <1>5, <1>6, <1>7, CommitKeeps

-----------------------------------------------------------------------------
(* The invariant                                                           *)

LEMMA CursorInit == Init => CursorInv
<1> SUFFICES ASSUME Init PROVE CursorInv
  OBVIOUS
<1>1. SourceInv
  BY InitHolds
<1>2. PICK begun \in {FALSE, FromNow} :
         db = Only(Conn, [Connected EXCEPT !.begun = begun])
                ++ [r \in {Watch(w) : w \in Watches} |-> NoWatch]
                ++ [r \in {Doc(f) : f \in Files} |-> NoDoc]
  BY Zenon DEF Init
<1>0. PICK conn : conn = [Connected EXCEPT !.begun = begun]
  OBVIOUS
<1>3. feed = <<>> /\ tx = [t \in Txs |-> Idle]
      /\ db[Conn].cursor = conn.cursor /\ \A w \in Watches : db[Watch(w)] = NoWatch
  <2>1. db = Only(Conn, conn) ++ [r \in {Watch(w) : w \in Watches} |-> NoWatch]
                ++ [r \in {Doc(f) : f \in Files} |-> NoDoc]
    BY <1>0, <1>2
  <2>2. db[Conn] = conn /\ \A w \in Watches : db[Watch(w)] = NoWatch
    BY <2>1, RowNames DEF ++, Only
  <2> QED
    BY <2>2 DEF Init
<1>4. MayPass(0)
  BY CursorType, <1>1 DEF MayPass
<1>5. FolderFirst(db) /\ MayPass(db[Conn].cursor)
  BY <1>0, <1>3, <1>4 DEF FolderFirst, NoWatch, Connected
<1>6. ASSUME NEW t \in Txs
      PROVE  FolderSide(tx[t], db) /\ HasRead(tx[t]) /\ Conn \notin DOMAIN tx[t].writes
  <2>1. tx[t].todo = <<>> /\ tx[t].at = 0 /\ DOMAIN tx[t].writes = {}
    BY <1>3, NoRows DEF Idle
  <2>2. HasRead(tx[t])
    BY <2>1, <1>1, CursorType DEF HasRead
  <2> QED
    BY <2>1, <2>2 DEF FolderSide
<1> QED
  BY <1>5, <1>6 DEF CursorInv

LEMMA CursorNext == ASSUME NothingPaused PROVE SourceInv /\ CursorInv /\ [Next]_vars => CursorInv'
<1> SUFFICES ASSUME SourceInv, CursorInv, [Next]_vars PROVE CursorInv'
  OBVIOUS
<1>1. CASE User
  <2>1. ~Disconnect /\ \A w \in Watches, value \in BOOLEAN : ~SetEnabled(w, value)
    BY DEF Disconnect, SetEnabled, UserMay, NothingPaused
  <2> QED
    BY <1>1, <2>1, WatchFolderKeeps, ConnectionKeeps, AskHealthKeeps, BeginsKeep DEF User
<1>2. CASE World
  BY <1>2, ConnectionKeeps, EditKeeps DEF World
<1>3. CASE \E f \in Files : Tick(f)
  BY <1>3, TickKeeps
<1>4. ASSUME NEW t \in Txs, Scheduler(t) PROVE CursorInv'
  BY <1>4, BeginsKeep DEF Scheduler
<1>5. ASSUME NEW t \in Txs, Step(t) PROVE CursorInv'
  BY <1>5, LockWatchKeeps, AuthorizeKeeps, RefreshGrantedKeeps, FetchKeeps, FetchFailsKeeps, SuccessKeeps,
     CallFailsKeeps, EndBatchKeeps, StartPageKeeps, ReadPageKeeps, AdoptKeeps, DropKeeps, NextPageKeeps, EndDeltaKeeps DEF Step
<1>6. ASSUME NEW t \in Txs, Failure(t) PROVE CursorInv'
  BY <1>6, RefreshDeniedKeeps, FetchFailsKeeps, UploadFailsKeeps, CallFailsKeeps DEF Failure
<1>7. CASE UNCHANGED vars
  <2>1. feed' = feed /\ skipped' = skipped /\ db' = db /\ tx' = tx
    BY <1>7 DEF vars
  <2> QED
    BY <2>1, WatchesKeep
<1> QED
  BY <1>1, <1>2, <1>3, <1>4, <1>5, <1>6, <1>7 DEF Next

(* A change of a file that the delta cursor has passed was read since, or is *)
(* going to be read, or the source shows an error: for any files, callers,   *)
(* pages and failures, with any number of transactions in progress, as long  *)
(* as the user pauses no source and disconnects no account.                  *)
THEOREM PassedChangesAreRead == ASSUME NothingPaused PROVE Spec => []CursorSound
<1>1. SourceInv /\ CursorInv => CursorSound
  <2> SUFFICES ASSUME SourceInv, CursorInv, NEW i \in 1..db[Conn].cursor, Listed(i)
               PROVE  AnswersFor(db[Watch(feed[i].file)], i)
    BY DEF CursorSound, AnswersFor, Listed
  <2> QED
    BY DEF CursorInv, MayPass, Answered
<1>2. Spec => []CursorInv
  <2>1. SourceInv /\ CursorInv /\ [Next]_vars => CursorInv'
    BY CursorNext
  <2> QED
    BY <2>1, CursorInit, InvariantHolds, PTL DEF Spec
<1> QED
  BY <1>1, <1>2, InvariantHolds, PTL
=============================================================================

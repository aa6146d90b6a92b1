-------------------------- MODULE KnowledgeProofs ---------------------------
(***************************************************************************)
(* Proofs about the knowledge of a Local Node.  Corpus, for any people,    *)
(* objects, coordinates and number of classifications; Capture, for any    *)
(* number of requests at once; Answers and what WorkspaceGraph shows of    *)
(* them, for any objects, texts, workspaces and number of questions asked  *)
(* at once.                                                                *)
(***************************************************************************)
EXTENDS Corpus, Capture, WorkspaceGraph, DataLemmas

-----------------------------------------------------------------------------
(* Corpus: the inductive invariant.                                        *)

Fields == {"cko", "at", "source", "confidence", "by", "visibility"}

\* Membership rows: one per object and coordinate.
IsRows(these) ==
    /\ \A r \in these : DOMAIN r = Fields /\ r.source \in {"manual", "automatic"} /\ r.cko \in Documents
    /\ \A r, s \in these : r.cko = s.cko /\ r.at = s.at => r = s

Manual(these) == {r \in these : r.source = "manual"}

\* What a classification has written and not committed: rows whose place it holds,
\* none of them a person's, nor over one.
WrittenOK(t, these) ==
    /\ IsRows(t.mine)
    /\ \A m \in t.mine :
         /\ m.cko = t.cko /\ m.at \in t.holds /\ m.source = "automatic"
         /\ \A r \in Manual(these) : r.cko = t.cko => r.at # m.at

\* A removal that the classification did not see came while it ran.
RemovalsOK(t) ==
    /\ \A m \in t.mine : <<t.cko, m.at>> \in suppressed => m.at \in t.removed
    /\ t.at = "upsert" /\ <<t.cko, Head(t.todo).at>> \in suppressed => Head(t.todo).at \in t.removed

IsClassification(t) == DOMAIN t = {"at", "who", "cko", "todo", "mine", "holds", "removed"}

\* No editor holds a row that it holds.
HoldsOK(t) == \A e \in Editors : HoldsRow(editing[e]) /\ editing[e].row.cko = t.cko =>
                                 editing[e].row.at \notin t.holds

ClassificationOK(t) ==
    /\ IsClassification(t) /\ WrittenOK(t, filings) /\ RemovalsOK(t) /\ HoldsOK(t)
    /\ t.at # "idle" => t.cko \in Documents

IsEdit(u) == DOMAIN u = {"at", "row", "keeps", "lifts", "overtaken"}

Filing(u) == u.at \in {"put", "filed"}

\* A filing that does not delete the suppression it finds was overtaken by the removal.
EditOK(u) ==
    /\ IsEdit(u)
    /\ Filing(u) => DOMAIN u.row = Fields /\ u.row.source = "manual" /\ u.row.cko \in Documents
    /\ u.lifts => Filing(u) /\ Place(u.row) \in suppressed
    /\ Filing(u) /\ ~u.lifts /\ Place(u.row) \in suppressed => u.overtaken

\* No two filings delete one suppression.
LiftsApart == \A e, f \in Editors : e # f /\ editing[e].lifts /\ editing[f].lifts =>
                                    Place(editing[e].row) # Place(editing[f].row)

CorpusInv ==
    /\ IsRows(filings)
    /\ DOMAIN running = Classifiers /\ \A k \in Classifiers : ClassificationOK(running[k])
    /\ DOMAIN editing = Editors /\ \A e \in Editors : EditOK(editing[e])
    /\ LiftsApart
    /\ DOMAIN history = {"filed", "raced"}
    /\ PersonHasLastWord

-----------------------------------------------------------------------------
(* Corpus: what a classification writes                                    *)

\* A row gets another confidence and visibility.
Raised(r, confidence, visibility) == [r EXCEPT !.confidence = confidence, !.visibility = visibility]

LEMMA RaisedFields ==
    ASSUME NEW r, DOMAIN r = Fields, NEW confidence, NEW visibility
    PROVE  LET n == Raised(r, confidence, visibility) IN
           DOMAIN n = Fields /\ n.cko = r.cko /\ n.at = r.at /\ n.source = r.source
  BY DEF Raised, Fields

(* An upsert keeps one row per coordinate, takes over no row of a person    *)
(* and touches no other coordinate.                                        *)
LEMMA UpsertedRows ==
    ASSUME NEW t, NEW c, IsRows(filings), WrittenOK(t, filings), t.cko \in Documents
    PROVE  /\ IsRows(Upserted(t, c))
           /\ \A m \in Upserted(t, c) :
                /\ m.cko = t.cko /\ m.source = "automatic"
                /\ m.at = c.at \/ m \in t.mine
                /\ \A r \in Manual(filings) : r.cko = t.cko => r.at # m.at
<1> DEFINE mine == RowsAt(t.mine, t.cko, c.at)
           old == IF mine # {} THEN mine ELSE RowsAt(filings, t.cko, c.at)
           visibility == VisibilityOfBranch(c.at)
           new == [cko |-> t.cko, at |-> c.at, source |-> "automatic", confidence |-> c.confidence,
                   by |-> t.who, visibility |-> visibility]
           up(r) == Raised(r, Most(r.confidence, c.confidence), visibility)
           raised == {up(r) : r \in {x \in old : x.source # "manual"}}
           M == Upserted(t, c)
<1>w. /\ IsRows(t.mine)
      /\ \A m \in t.mine : m.cko = t.cko /\ m.source = "automatic"
      /\ \A m \in t.mine : \A r \in Manual(filings) : r.cko = t.cko => r.at # m.at
  BY DEF WrittenOK
<1>n. new.cko = t.cko /\ new.at = c.at /\ new.source = "automatic" /\ DOMAIN new = Fields
  BY DEF Fields
<1>1. CASE old = {}
  <2>1. mine = {} /\ RowsAt(filings, t.cko, c.at) = {}
    BY <1>1
  <2>2. M = t.mine \cup {new}
    BY <1>1 DEF Upserted
  <2> HIDE DEF M, new
  <2>3. \A m \in t.mine : m.at # c.at
    BY <2>1, <1>w DEF RowsAt
  <2>4. \A r \in Manual(filings) : r.cko = t.cko => r.at # c.at
    BY <2>1 DEF RowsAt, Manual
  <2>5. IsRows(M)
    <3>1. \A r \in M : DOMAIN r = Fields /\ r.source \in {"manual", "automatic"} /\ r.cko \in Documents
      BY <2>2, <1>n, <1>w DEF IsRows
    <3>2. ASSUME NEW r \in M, NEW q \in M, r.cko = q.cko, r.at = q.at PROVE r = q
      <4>1. CASE r \in t.mine /\ q \in t.mine
        BY <4>1, <3>2, <1>w DEF IsRows
      <4>2. CASE r = new /\ q \in t.mine
        BY <4>2, <3>2, <1>n, <2>3
      <4>3. CASE q = new /\ r \in t.mine
        BY <4>3, <3>2, <1>n, <2>3
      <4> QED
        BY <2>2, <4>1, <4>2, <4>3
    <3> QED
      BY <3>1, <3>2 DEF IsRows
  <2>6. ASSUME NEW m \in M
        PROVE  /\ m.cko = t.cko /\ m.source = "automatic"
               /\ m.at = c.at \/ m \in t.mine
               /\ \A r \in Manual(filings) : r.cko = t.cko => r.at # m.at
    BY <2>6, <2>2, <2>4, <1>n, <1>w
  <2> QED
    BY <2>5, <2>6 DEF M
<1>2. CASE old # {}
  <2>1. M = (t.mine \ mine) \cup raised
    BY <1>2 DEF Upserted, Raised
  <2>2. \A r \in old : r.cko = t.cko /\ r.at = c.at /\ DOMAIN r = Fields /\ r.source \in {"manual", "automatic"}
    BY <1>w DEF IsRows, RowsAt
  <2>3. \A r, q \in old : r = q
    BY <2>2, <1>w DEF IsRows, RowsAt
  <2>4. ASSUME NEW r \in old, r.source # "manual"
        PROVE  /\ up(r).cko = t.cko /\ up(r).at = c.at /\ up(r).source = "automatic" /\ DOMAIN up(r) = Fields
               /\ \A q \in Manual(filings) : q.cko = t.cko => q.at # c.at
    <3>1. up(r).cko = r.cko /\ up(r).at = r.at /\ up(r).source = r.source /\ DOMAIN up(r) = Fields
      BY <2>2, RaisedFields
    <3>2. ASSUME NEW q \in Manual(filings), q.cko = t.cko, q.at = c.at PROVE FALSE
      <4>1. CASE mine # {}
        BY <4>1, <3>2, <1>w DEF RowsAt
      <4>2. CASE mine = {}
        <5>1. q \in old /\ q.source = "manual"
          BY <3>2, <4>2 DEF RowsAt, Manual
        <5> QED
          BY <5>1, <2>3, <2>4
      <4> QED
        BY <4>1, <4>2
    <3> HIDE DEF up, old
    <3> QED
      BY <2>2, <2>4, <3>1, <3>2
  <2> HIDE DEF up, old
  <2>5. \A x \in raised : /\ x.cko = t.cko /\ x.at = c.at /\ x.source = "automatic" /\ DOMAIN x = Fields
                          /\ \A q \in Manual(filings) : q.cko = t.cko => q.at # c.at
    BY <2>4
  <2>6. \A x, y \in raised : x = y
    BY <2>3
  <2> HIDE DEF raised, M
  <2>7. \A m \in t.mine \ mine : m.at # c.at
    BY <1>w DEF RowsAt
  <2>8. IsRows(M)
    <3>1. \A r \in M : DOMAIN r = Fields /\ r.source \in {"manual", "automatic"} /\ r.cko \in Documents
      BY <2>1, <2>5, <1>w DEF IsRows
    <3>2. ASSUME NEW r \in M, NEW q \in M, r.cko = q.cko, r.at = q.at PROVE r = q
      <4>1. CASE r \in t.mine \ mine /\ q \in t.mine \ mine
        BY <4>1, <3>2, <1>w DEF IsRows
      <4>2. CASE r \in raised /\ q \in t.mine \ mine
        BY <4>2, <3>2, <2>5, <2>7
      <4>3. CASE q \in raised /\ r \in t.mine \ mine
        BY <4>3, <3>2, <2>5, <2>7
      <4>4. CASE q \in raised /\ r \in raised
        BY <4>4, <2>6
      <4> QED
        BY <2>1, <4>1, <4>2, <4>3, <4>4
    <3> QED
      BY <3>1, <3>2 DEF IsRows
  <2>9. ASSUME NEW m \in M
        PROVE  /\ m.cko = t.cko /\ m.source = "automatic"
               /\ m.at = c.at \/ m \in t.mine
               /\ \A r \in Manual(filings) : r.cko = t.cko => r.at # m.at
    BY <2>9, <2>1, <2>5, <1>w
  <2> QED
    BY <2>8, <2>9 DEF M
<1> QED
  BY <1>1, <1>2

-----------------------------------------------------------------------------
(* Corpus: the steps                                                       *)

LEMMA IdleOK == ClassificationOK(NoClassification)
  BY DEF ClassificationOK, NoClassification, IsClassification, WrittenOK, RemovalsOK, HoldsOK, IsRows

LEMMA NoEditOK == EditOK(NoEdit) /\ ~NoEdit.lifts /\ ~HoldsRow(NoEdit) /\ ~Filing(NoEdit)
  BY DEF EditOK, NoEdit, IsEdit, Filing, HoldsRow

LEMMA CorpusInitOK == CorpusInit => CorpusInv
<1> SUFFICES ASSUME CorpusInit PROVE CorpusInv
  OBVIOUS
<1>1. IsRows(filings) /\ DOMAIN history = {"filed", "raced"} /\ PersonHasLastWord
  BY DEF CorpusInit, IsRows, PersonHasLastWord
<1>2. /\ DOMAIN running = Classifiers /\ \A k \in Classifiers : running[k] = NoClassification
      /\ DOMAIN editing = Editors /\ \A e \in Editors : editing[e] = NoEdit
  BY DEF CorpusInit
<1> HIDE DEF NoClassification, NoEdit
<1>3. LiftsApart
  BY <1>2, NoEditOK DEF LiftsApart
<1> QED
  BY <1>1, <1>2, <1>3, IdleOK, NoEditOK DEF CorpusInv

(* A step of one classification, with nothing of it committed.             *)
LEMMA OneClassifies ==
    ASSUME CorpusInv, NEW k \in Classifiers, NEW t, ClassificationOK(t),
           running' = [running EXCEPT ![k] = t], UNCHANGED <<filings, suppressed, editing, history>>
    PROVE  CorpusInv'
<1>1. DOMAIN running' = Classifiers /\ \A l \in Classifiers : ClassificationOK(running'[l])
  BY DEF CorpusInv
<1>2. \A l \in Classifiers : ClassificationOK(running[l])'
  BY <1>1 DEF ClassificationOK, WrittenOK, RemovalsOK, HoldsOK, IsClassification
<1>3. LiftsApart' /\ \A e \in Editors : EditOK(editing[e])'
  BY DEF CorpusInv, LiftsApart, EditOK
<1> QED
  BY <1>1, <1>2, <1>3 DEF CorpusInv, PersonHasLastWord, IsRows

(* A step of one edit, with nothing of it committed.                       *)
LEMMA OneEdits ==
    ASSUME CorpusInv, NEW e \in Editors, NEW u, EditOK(u),
           HoldsRow(u) => \A k \in Classifiers : running[k].cko = u.row.cko => u.row.at \notin running[k].holds,
           u.lifts => \A f \in Editors \ {e} : editing[f].lifts => Place(editing[f].row) # Place(u.row),
           editing' = [editing EXCEPT ![e] = u], UNCHANGED <<filings, suppressed, running, history>>
    PROVE  CorpusInv'
<1>1. DOMAIN editing' = Editors /\ \A f \in Editors : editing'[f] = IF f = e THEN u ELSE editing[f]
  BY DEF CorpusInv
<1>2. \A f \in Editors : EditOK(editing[f])'
  <2>1. \A f \in Editors : EditOK(editing'[f])
    BY <1>1 DEF CorpusInv
  <2> QED
    BY <2>1 DEF EditOK
<1>3. LiftsApart'
  BY <1>1 DEF CorpusInv, LiftsApart
<1>4. ASSUME NEW k \in Classifiers PROVE ClassificationOK(running[k])'
  <2>1. ClassificationOK(running[k])
    BY DEF CorpusInv
  <2>2. HoldsOK(running[k])'
    BY <1>1, <2>1 DEF ClassificationOK, HoldsOK
  <2> QED
    BY <2>1, <2>2 DEF ClassificationOK, WrittenOK, RemovalsOK, IsClassification
<1> QED
  BY <1>1, <1>2, <1>3, <1>4 DEF CorpusInv, PersonHasLastWord, IsRows

LEMMA FilingBegins ==
    ASSUME CorpusInv, NEW e \in Editors, NEW row, NEW keeps, BeginFiling(e, row, keeps),
           DOMAIN row = Fields, row.source = "manual", row.cko \in Documents
    PROVE  CorpusInv'
<1> DEFINE there == Place(row) \in suppressed
           u == [at |-> "put", row |-> row, keeps |-> keeps, lifts |-> there, overtaken |-> FALSE]
<1>1. editing' = [editing EXCEPT ![e] = u] /\ UNCHANGED <<filings, suppressed, running, history>>
  BY DEF BeginFiling, EditGoes
<1>2. there => \A f \in Editors : editing[f].lifts => Place(editing[f].row) # Place(row)
  BY DEF BeginFiling, SuppressionHeld, HoldsSuppression, Place
<1>3. EditOK(u) /\ ~HoldsRow(u) /\ u.row = row /\ (u.lifts => there)
  BY DEF EditOK, IsEdit, Filing, HoldsRow
<1> HIDE DEF u, there
<1> QED
  BY <1>1, <1>2, <1>3, OneEdits

LEMMA EditsKeep ==
    ASSUME CorpusInv, NEW e \in Editors,
           \/ PutFiling(e) \/ Suppress(e) \/ EditRollsBack(e)
           \/ \E p \in Curators, r \in filings : RemoveFiling(e, p, r)
    PROVE  CorpusInv'
<1> DEFINE u == editing[e]
<1>1. EditOK(u)
  BY DEF CorpusInv
<1>2. \A f \in Editors \ {e} : u.lifts /\ editing[f].lifts => Place(editing[f].row) # Place(u.row)
  BY DEF CorpusInv, LiftsApart
<1>3. CASE PutFiling(e)
  <2>1. PICK by : /\ u.at = "put" /\ ~Held(u.row.cko, u.row.at)
                  /\ EditGoes(e, [u EXCEPT !.at = "filed", !.row.by = by])
    BY <1>3 DEF PutFiling
  <2>2. PICK row : row = [u.row EXCEPT !.by = by]
    OBVIOUS
  <2>3. PICK n : n = [u EXCEPT !.at = "filed", !.row = row]
    OBVIOUS
  <2>4. editing' = [editing EXCEPT ![e] = n] /\ UNCHANGED <<filings, suppressed, running, history>>
    BY <2>1, <2>2, <2>3 DEF EditGoes
  <2>5. DOMAIN row = Fields /\ row.source = "manual" /\ row.cko = u.row.cko /\ row.at = u.row.at
    BY <1>1, <2>1, <2>2 DEF EditOK, Filing, Fields
  <2>6. IsEdit(n) /\ n.at = "filed" /\ n.row = row /\ n.lifts = u.lifts /\ n.overtaken = u.overtaken
    BY <1>1, <2>3 DEF EditOK, IsEdit
  <2>7. Place(n.row) = Place(u.row) /\ Filing(u)
    BY <2>1, <2>5, <2>6 DEF Place, Filing
  <2>8. EditOK(n)
    BY <1>1, <2>5, <2>6, <2>7 DEF EditOK, Filing
  <2>9. \A k \in Classifiers : running[k].cko = n.row.cko => n.row.at \notin running[k].holds
    BY <2>1, <2>5, <2>6 DEF Held
  <2> HIDE DEF u
  <2> QED
    BY <1>2, <2>4, <2>6, <2>7, <2>8, <2>9, OneEdits
<1>4. CASE Suppress(e)
  <2>1. PICK n : n = [u EXCEPT !.at = "removed"]
    OBVIOUS
  <2>2. u.at = "suppress" /\ EditGoes(e, n)
    BY <1>4, <2>1 DEF Suppress
  <2>3. IsEdit(n) /\ n.at = "removed" /\ n.row = u.row /\ n.lifts = u.lifts /\ ~u.lifts
    BY <1>1, <2>1, <2>2 DEF EditOK, IsEdit, Filing
  <2>4. EditOK(n)
    BY <2>3 DEF EditOK, Filing
  <2>5. \A k \in Classifiers : running[k].cko = u.row.cko => u.row.at \notin running[k].holds
    BY <2>2 DEF CorpusInv, ClassificationOK, HoldsOK, HoldsRow
  <2> HIDE DEF u
  <2> QED
    BY <2>2, <2>3, <2>4, <2>5, OneEdits DEF EditGoes
<1>5. CASE EditRollsBack(e)
  BY <1>5, NoEditOK, OneEdits DEF EditRollsBack, EditGoes
<1>6. ASSUME NEW p \in Curators, NEW r \in filings, RemoveFiling(e, p, r) PROVE CorpusInv'
  <2>1. PICK n : n = [NoEdit EXCEPT !.at = "suppress", !.row = r]
    OBVIOUS
  <2>2. EditGoes(e, n) /\ ~Held(r.cko, r.at)
    BY <1>6, <2>1 DEF RemoveFiling
  <2>3. IsEdit(n) /\ n.at = "suppress" /\ n.row = r /\ ~n.lifts
    BY <2>1 DEF NoEdit, IsEdit
  <2>4. EditOK(n)
    BY <2>3 DEF EditOK, Filing
  <2>5. \A k \in Classifiers : running[k].cko = r.cko => r.at \notin running[k].holds
    BY <2>2 DEF Held
  <2> QED
    BY <2>2, <2>3, <2>4, <2>5, OneEdits DEF EditGoes
<1> QED
  BY <1>3, <1>4, <1>5, <1>6

LEMMA FilingKeeps ==
    ASSUME CorpusInv, NEW e \in Editors, CommitFiling(e)
    PROVE  CorpusInv'
<1> DEFINE u == editing[e]
           row == u.row
           key == Place(row)
<1>1. /\ filings' = (filings \ RowsAt(filings, row.cko, row.at)) \cup {row}
      /\ suppressed' = (IF u.lifts THEN suppressed \ {key} ELSE suppressed) /\ UNCHANGED running
      /\ history'.filed = (history.filed \ RowsAt(history.filed, row.cko, row.at)) \cup {row}
      /\ history'.raced = (history.raced \ {key}) \cup (IF u.overtaken THEN {key} ELSE {})
      /\ DOMAIN history' = {"filed", "raced"}
  BY DEF CommitFiling
<1>2. DOMAIN row = Fields /\ row.source = "manual" /\ row.cko \in Documents /\ EditOK(u) /\ Filing(u) /\ HoldsRow(u)
  BY DEF CommitFiling, CorpusInv, EditOK, Filing, HoldsRow
<1>3. /\ DOMAIN editing' = Editors
      /\ \A f \in Editors : editing'[f] = IF f = e THEN NoEdit ELSE editing[f]
  BY DEF CommitFiling, CorpusInv
<1>4. IsRows(filings')
  BY <1>1, <1>2 DEF CorpusInv, IsRows, RowsAt
<1>5. ASSUME NEW k \in Classifiers PROVE ClassificationOK(running[k])'
  <2> DEFINE t == running[k]
  <2>1. /\ IsClassification(t) /\ WrittenOK(t, filings) /\ RemovalsOK(t) /\ HoldsOK(t)
        /\ t.at # "idle" => t.cko \in Documents
    BY DEF CorpusInv, ClassificationOK
  <2>2. row.cko = t.cko => row.at \notin t.holds
    BY <1>2, <2>1 DEF HoldsOK
  <2>3. \A r \in Manual(filings') : r = row \/ r \in Manual(filings)
    BY <1>1 DEF Manual
  <2> HIDE DEF t, u, row
  <2>4. WrittenOK(t, filings')
    BY <2>1, <2>2, <2>3 DEF WrittenOK
  <2>5. running'[k] = t
    BY <1>1 DEF t
  <2>6. RemovalsOK(running[k])'
    BY <1>1, <2>1, <2>5 DEF RemovalsOK
  <2>7. HoldsOK(running[k])'
    BY <1>3, <2>1, <2>5, NoEditOK DEF HoldsOK
  <2> QED
    BY <2>1, <2>4, <2>5, <2>6, <2>7 DEF ClassificationOK
<1>6. ASSUME NEW f \in Editors PROVE EditOK(editing[f])'
  <2>1. CASE f = e
    <3>1. EditOK(NoEdit)'
      BY DEF EditOK, NoEdit, IsEdit, Filing
    <3> QED
      BY <1>3, <2>1, <3>1 DEF EditOK
  <2>2. CASE f # e
    <3>1. EditOK(editing[f]) /\ (u.lifts /\ editing[f].lifts => Place(editing[f].row) # key)
      BY <2>2 DEF CorpusInv, LiftsApart
    <3> HIDE DEF u, key, row
    <3> QED
      BY <1>1, <1>3, <2>2, <3>1 DEF EditOK
  <2> QED
    BY <2>1, <2>2
<1>7. LiftsApart'
  BY <1>3, NoEditOK DEF CorpusInv, LiftsApart
<1>8. history'.filed = {r \in filings' : r.source = "manual"}
  BY <1>1, <1>2 DEF CorpusInv, PersonHasLastWord, RowsAt
<1>9. ASSUME NEW r \in filings', Place(r) \in suppressed' PROVE Place(r) \in history'.raced
  <2>1. CASE Place(r) = key
    <3>1. ~u.lifts /\ key \in suppressed
      BY <1>1, <1>9, <2>1
    <3> QED
      BY <1>1, <1>2, <2>1, <3>1 DEF EditOK
  <2>2. CASE Place(r) # key
    <3>1. r \in filings /\ Place(r) \in suppressed
      BY <1>1, <1>9, <2>2
    <3> QED
      BY <1>1, <2>2, <3>1 DEF CorpusInv, PersonHasLastWord
  <2> QED
    BY <2>1, <2>2
<1> QED
  BY <1>1, <1>3, <1>4, <1>5, <1>6, <1>7, <1>8, <1>9 DEF CorpusInv, PersonHasLastWord

LEMMA RemovalKeeps ==
    ASSUME CorpusInv, NEW e \in Editors, CommitRemoval(e)
    PROVE  CorpusInv'
<1> DEFINE gone == editing[e].row
<1>1. /\ filings' = filings \ RowsAt(filings, gone.cko, gone.at)
      /\ suppressed' = suppressed \cup {Place(gone)}
      /\ history'.filed = history.filed \ RowsAt(history.filed, gone.cko, gone.at)
      /\ history'.raced = history.raced \ {Place(gone)}
      /\ DOMAIN history' = {"filed", "raced"} /\ DOMAIN running' = Classifiers /\ DOMAIN editing' = Editors
  BY DEF CommitRemoval
<1>2. IsRows(filings')
  BY <1>1 DEF CorpusInv, IsRows
<1>3. ASSUME NEW f \in Editors
      PROVE  \/ editing'[f] = NoEdit
             \/ /\ IsEdit(editing'[f]) /\ editing'[f].at = editing[f].at /\ editing'[f].row = editing[f].row
                /\ editing'[f].lifts = editing[f].lifts
                /\ editing'[f].overtaken \/ editing'[f] = editing[f]
                /\ Filing(editing[f]) /\ Place(editing[f].row) = Place(gone) => editing'[f].overtaken
  <2> DEFINE u == editing[f]
             n == editing'[f]
  <2>1. n = IF f = e THEN NoEdit
            ELSE IF Filing(u) /\ Place(u.row) = Place(gone) THEN [u EXCEPT !.overtaken = TRUE] ELSE u
    BY DEF CommitRemoval, Filing
  <2>2. IsEdit(u)
    BY DEF CorpusInv, EditOK
  <2> HIDE DEF u, n, gone
  <2>3. CASE f # e /\ Filing(u) /\ Place(u.row) = Place(gone)
    <3>1. n = [u EXCEPT !.overtaken = TRUE]
      BY <2>1, <2>3
    <3>2. IsEdit(n) /\ n.at = u.at /\ n.row = u.row /\ n.lifts = u.lifts /\ n.overtaken
      BY <2>2, <3>1 DEF IsEdit
    <3> QED
      BY <3>2 DEF u, n
  <2>4. CASE f # e /\ ~(Filing(u) /\ Place(u.row) = Place(gone))
    <3>1. n = u
      BY <2>1, <2>4
    <3> QED
      BY <2>2, <2>4, <3>1 DEF u, n
  <2> QED
    BY <2>1, <2>3, <2>4 DEF n
<1>4. ASSUME NEW k \in Classifiers PROVE ClassificationOK(running[k])'
  <2> DEFINE t == running[k]
             n == running'[k]
  <2>1. /\ IsClassification(t) /\ WrittenOK(t, filings) /\ RemovalsOK(t) /\ HoldsOK(t)
        /\ t.at # "idle" => t.cko \in Documents
    BY DEF CorpusInv, ClassificationOK
  <2>2. n = IF t.cko = gone.cko THEN [t EXCEPT !.removed = @ \cup {gone.at}] ELSE t
    BY DEF CommitRemoval
  <2> HIDE DEF t, n, gone
  <2>3. /\ IsClassification(n) /\ n.cko = t.cko /\ n.mine = t.mine /\ n.holds = t.holds /\ n.at = t.at
        /\ n.todo = t.todo
        /\ n.removed = IF t.cko = gone.cko THEN t.removed \cup {gone.at} ELSE t.removed
    BY <2>1, <2>2 DEF IsClassification
  <2>4. WrittenOK(n, filings')
    BY <1>1, <2>1, <2>3 DEF WrittenOK, Manual
  <2>5. ASSUME NEW at, <<n.cko, at>> \in suppressed', <<t.cko, at>> \in suppressed => at \in t.removed
        PROVE  at \in n.removed
    BY <1>1, <2>3, <2>5 DEF Place
  <2>6. /\ \A m \in n.mine : <<n.cko, m.at>> \in suppressed' => m.at \in n.removed
        /\ n.at = "upsert" /\ <<n.cko, Head(n.todo).at>> \in suppressed' => Head(n.todo).at \in n.removed
    BY <2>1, <2>3, <2>5 DEF RemovalsOK
  <2>7. HoldsOK(running[k])'
    <3>1. ASSUME NEW f \in Editors, HoldsRow(editing'[f]), editing'[f].row.cko = n.cko
          PROVE  editing'[f].row.at \notin n.holds
      BY <1>3, <2>1, <2>3, <3>1, NoEditOK DEF HoldsOK, HoldsRow
    <3> QED
      BY <3>1 DEF HoldsOK, n
  <2> QED
    BY <2>1, <2>3, <2>4, <2>6, <2>7 DEF ClassificationOK, RemovalsOK, n
<1>5. ASSUME NEW f \in Editors PROVE EditOK(editing[f])'
  <2> DEFINE u == editing[f]
             n == editing'[f]
  <2>1. EditOK(u)
    BY DEF CorpusInv
  <2>2. CASE n = NoEdit
    <3>1. EditOK(NoEdit)'
      BY DEF EditOK, NoEdit, IsEdit, Filing
    <3> QED
      BY <2>2, <3>1 DEF EditOK
  <2>3. CASE n # NoEdit
    <3>1. /\ IsEdit(n) /\ n.at = u.at /\ n.row = u.row /\ n.lifts = u.lifts
          /\ n.overtaken \/ n = u
          /\ Filing(u) /\ Place(u.row) = Place(gone) => n.overtaken
      BY <1>3, <2>3
    <3> HIDE DEF u, n, gone
    <3>2. /\ Filing(n) => DOMAIN n.row = Fields /\ n.row.source = "manual" /\ n.row.cko \in Documents
          /\ n.lifts => Filing(n) /\ Place(n.row) \in suppressed'
      BY <1>1, <2>1, <3>1 DEF EditOK, Filing
    <3>3. ASSUME Filing(n), ~n.lifts, Place(n.row) \in suppressed' PROVE n.overtaken
      <4>1. Filing(u) /\ ~u.lifts
        BY <3>1, <3>3 DEF Filing
      <4>2. CASE Place(u.row) = Place(gone)
        BY <3>1, <4>1, <4>2
      <4>3. CASE Place(u.row) # Place(gone)
        BY <1>1, <2>1, <3>1, <3>3, <4>1, <4>3 DEF EditOK
      <4> QED
        BY <4>2, <4>3
    <3>4. IsEdit(n)
      BY <3>1
    <3> QED
      BY <3>2, <3>3, <3>4 DEF EditOK, n
  <2> QED
    BY <2>2, <2>3
<1>6. LiftsApart'
  <2>1. \A f \in Editors : editing'[f].lifts => editing[f].lifts /\ editing'[f].row = editing[f].row
    BY <1>3, NoEditOK
  <2> QED
    BY <2>1 DEF CorpusInv, LiftsApart
<1>7. history'.filed = {r \in filings' : r.source = "manual"}
  BY <1>1 DEF CorpusInv, PersonHasLastWord, RowsAt
<1>8. ASSUME NEW r \in filings', Place(r) \in suppressed' PROVE Place(r) \in history'.raced
  <2>1. Place(r) # Place(gone)
    BY <1>1 DEF RowsAt, Place
  <2> QED
    BY <1>1, <1>8, <2>1 DEF CorpusInv, PersonHasLastWord
<1> QED
  BY <1>1, <1>2, <1>4, <1>5, <1>6, <1>7, <1>8 DEF CorpusInv, PersonHasLastWord

LEMMA CommitKeeps ==
    ASSUME CorpusInv, NEW k \in Classifiers, Commit(k)
    PROVE  CorpusInv'
<1> DEFINE t == running[k]
<1>1. /\ filings' = {r \in filings : RowsAt(t.mine, r.cko, r.at) = {}} \cup t.mine
      /\ running' = [running EXCEPT ![k] = NoClassification] /\ UNCHANGED <<suppressed, editing>>
      /\ history' = [history EXCEPT
                       !.raced = @ \cup {<<t.cko, r.at>> : r \in {x \in t.mine : x.at \in t.removed}}]
  BY DEF Commit
<1>2. IsClassification(t) /\ WrittenOK(t, filings) /\ RemovalsOK(t) /\ IsRows(filings)
      /\ DOMAIN history = {"filed", "raced"}
  BY DEF CorpusInv, ClassificationOK
<1>3. /\ history'.filed = history.filed /\ DOMAIN history' = {"filed", "raced"}
      /\ history'.raced = history.raced \cup {<<t.cko, r.at>> : r \in {x \in t.mine : x.at \in t.removed}}
  BY <1>1, <1>2
<1>4. DOMAIN running' = Classifiers
      /\ \A l \in Classifiers : running'[l] = IF l = k THEN NoClassification ELSE running[l]
  BY <1>1 DEF CorpusInv
<1> HIDE DEF t
<1>5. IsRows(t.mine) /\ \A m \in t.mine : /\ m.cko = t.cko /\ m.source = "automatic"
                                           /\ \A r \in Manual(filings) : r.cko = t.cko => r.at # m.at
  BY <1>2 DEF WrittenOK
<1>6. IsRows(filings')
  <2>1. \A r \in filings' : DOMAIN r = Fields /\ r.source \in {"manual", "automatic"} /\ r.cko \in Documents
    BY <1>1, <1>2, <1>5 DEF IsRows
  <2>2. ASSUME NEW r \in filings', NEW q \in filings', r.cko = q.cko, r.at = q.at PROVE r = q
    BY <1>1, <1>2, <1>5, <2>2 DEF IsRows, RowsAt
  <2> QED
    BY <2>1, <2>2 DEF IsRows
<1>7. Manual(filings') = Manual(filings)
  BY <1>1, <1>5 DEF Manual, RowsAt
<1>8. ASSUME NEW l \in Classifiers PROVE ClassificationOK(running[l])'
  <2> DEFINE n == running'[l]
  <2>1. ClassificationOK(n)
    BY <1>4, IdleOK DEF CorpusInv
  <2> HIDE DEF n
  <2>2. WrittenOK(n, filings')
    BY <2>1, <1>7 DEF ClassificationOK, WrittenOK
  <2>3. RemovalsOK(running[l])' /\ HoldsOK(running[l])'
    BY <1>1, <2>1 DEF ClassificationOK, RemovalsOK, HoldsOK, n
  <2> QED
    BY <2>1, <2>2, <2>3 DEF ClassificationOK, n
<1>9. history'.filed = {r \in filings' : r.source = "manual"}
  BY <1>3, <1>7 DEF CorpusInv, PersonHasLastWord, Manual
<1>10. ASSUME NEW r \in filings', Place(r) \in suppressed' PROVE Place(r) \in history'.raced
  <2>1. CASE r \in filings
    BY <1>1, <1>3, <1>10, <2>1 DEF CorpusInv, PersonHasLastWord
  <2>2. CASE r \in t.mine
    <3>1. r.cko = t.cko /\ r.at \in t.removed
      BY <1>1, <1>2, <1>5, <1>10, <2>2 DEF RemovalsOK, Place
    <3> QED
      BY <1>3, <2>2, <3>1 DEF Place
  <2> QED
    BY <1>1, <2>1, <2>2
<1>11. LiftsApart' /\ DOMAIN editing' = Editors /\ \A e \in Editors : EditOK(editing[e])'
  BY <1>1 DEF CorpusInv, LiftsApart, EditOK
<1> QED
  BY <1>3, <1>4, <1>6, <1>8, <1>9, <1>10, <1>11 DEF CorpusInv, PersonHasLastWord

LEMMA ClassificationKeeps ==
    ASSUME CorpusInv, NEW k \in Classifiers, Check(k) \/ Upsert(k) \/ RollBack(k)
    PROVE  CorpusInv'
<1> DEFINE t == running[k]
           c == Head(t.todo)
<1>1. /\ IsClassification(t) /\ WrittenOK(t, filings) /\ RemovalsOK(t) /\ HoldsOK(t) /\ IsRows(filings)
      /\ t.at # "idle" => t.cko \in Documents
  BY DEF CorpusInv, ClassificationOK
<1>2. ASSUME NEW n, ClassificationGoes(k, n), ClassificationOK(n) PROVE CorpusInv'
  BY <1>2, OneClassifies DEF ClassificationGoes
<1>3. CASE RollBack(k)
  BY <1>2, <1>3, IdleOK DEF RollBack
<1>4. CASE Check(k)
  <2> DEFINE skip == [t EXCEPT !.todo = Tail(@)]
             go == [t EXCEPT !.at = "upsert"]
  <2>1. ClassificationGoes(k, IF <<t.cko, Head(t.todo).at>> \in suppressed THEN skip ELSE go) /\ t.at = "check"
    BY <1>4 DEF Check
  <2> HIDE DEF t
  <2>2. /\ IsClassification(skip) /\ skip.mine = t.mine /\ skip.cko = t.cko /\ skip.holds = t.holds
        /\ skip.at = t.at /\ skip.removed = t.removed
    BY <1>1 DEF IsClassification
  <2>3. /\ IsClassification(go) /\ go.mine = t.mine /\ go.cko = t.cko /\ go.holds = t.holds
        /\ go.todo = t.todo /\ go.removed = t.removed
    BY <1>1 DEF IsClassification
  <2> HIDE DEF skip, go
  <2>4. ClassificationOK(skip)
    BY <1>1, <2>1, <2>2 DEF ClassificationOK, WrittenOK, RemovalsOK, HoldsOK
  <2>5. <<t.cko, Head(t.todo).at>> \notin suppressed => ClassificationOK(go)
    BY <1>1, <2>1, <2>3 DEF ClassificationOK, WrittenOK, RemovalsOK, HoldsOK
  <2> QED
    BY <1>2, <2>1, <2>4, <2>5
<1>5. CASE Upsert(k)
  <2> DEFINE M == Upserted(t, c)
             n == [t EXCEPT !.at = "check", !.todo = Tail(@), !.holds = @ \cup {c.at}, !.mine = M]
  <2>1. ClassificationGoes(k, n) /\ t.at = "upsert" /\ (c.at \in t.holds \/ ~Held(t.cko, c.at))
    BY <1>5 DEF Upsert
  <2>2. /\ IsRows(M)
        /\ \A m \in M : /\ m.cko = t.cko /\ m.source = "automatic"
                        /\ m.at = c.at \/ m \in t.mine
                        /\ \A r \in Manual(filings) : r.cko = t.cko => r.at # m.at
    BY <1>1, <2>1, UpsertedRows
  <2> HIDE DEF M, t
  <2>3. /\ IsClassification(n) /\ n.mine = M /\ n.cko = t.cko /\ n.holds = t.holds \cup {c.at}
        /\ n.at = "check" /\ n.removed = t.removed
    BY <1>1 DEF IsClassification
  <2> HIDE DEF n
  <2>4. WrittenOK(n, filings)
    BY <1>1, <2>2, <2>3 DEF WrittenOK
  <2>5. RemovalsOK(n)
    BY <1>1, <2>1, <2>2, <2>3 DEF RemovalsOK
  <2>6. HoldsOK(n)
    <3> SUFFICES ASSUME NEW e \in Editors, HoldsRow(editing[e]), editing[e].row.cko = n.cko
                 PROVE  editing[e].row.at \notin n.holds
      BY DEF HoldsOK
    <3>1. editing[e].row.at \notin t.holds
      BY <1>1, <2>3 DEF HoldsOK
    <3>2. c.at \notin t.holds => editing[e].row.at # c.at
      BY <2>1, <2>3 DEF Held, Place
    <3> QED
      BY <2>3, <3>1, <3>2
  <2> QED
    BY <1>1, <1>2, <2>1, <2>3, <2>4, <2>5, <2>6 DEF ClassificationOK
<1> QED
  BY <1>3, <1>4, <1>5

LEMMA CorpusStep == CorpusInv /\ [CorpusNext]_corpusVars => CorpusInv'
<1> SUFFICES ASSUME CorpusInv, [CorpusNext]_corpusVars PROVE CorpusInv'
  OBVIOUS
<1>1. ASSUME UNCHANGED <<filings, suppressed, running, editing, history>> PROVE CorpusInv'
  <2>1. \A k \in Classifiers : ClassificationOK(running[k])'
    BY <1>1 DEF CorpusInv, ClassificationOK, WrittenOK, RemovalsOK, HoldsOK, IsClassification
  <2>2. LiftsApart' /\ \A e \in Editors : EditOK(editing[e])'
    BY <1>1 DEF CorpusInv, LiftsApart, EditOK
  <2> QED
    BY <1>1, <2>1, <2>2 DEF CorpusInv, PersonHasLastWord, IsRows
<1>2. ASSUME NEW p \in Curators,
             \/ RegisterCorpora(p) \/ InstallLife(p)
             \/ \E c \in Corpora, q \in Curators, l \in {"view", "classify", "manage"} : GrantAccess(p, c, q, l)
             \/ \E at \in Coordinates : UnlockBranch(p, at)
      PROVE  CorpusInv'
  BY <1>1, <1>2 DEF RegisterCorpora, InstallLife, GrantAccess, UnlockBranch
<1>3. ASSUME NEW p \in Curators, NEW k \in Classifiers, NEW o \in Documents, Classify(k, p, o) PROVE CorpusInv'
  <2> DEFINE todo == Candidates(o, p)
             n == [NoClassification EXCEPT !.at = "check", !.who = p, !.cko = o, !.todo = todo]
  <2>1. running' = [running EXCEPT ![k] = n] /\ UNCHANGED <<filings, suppressed, editing, history>>
    BY <1>3 DEF Classify
  <2> HIDE DEF todo
  <2>2. IsClassification(n) /\ n.mine = {} /\ n.holds = {} /\ n.at = "check" /\ n.cko = o
    BY DEF NoClassification, IsClassification
  <2> HIDE DEF n
  <2>3. ClassificationOK(n)
    BY <2>2 DEF ClassificationOK, WrittenOK, RemovalsOK, HoldsOK, IsRows
  <2> QED
    BY <2>1, <2>3, OneClassifies
<1>4. ASSUME NEW p \in Curators, NEW e \in Editors, NEW o \in Documents, NEW at \in Coordinates,
             (\E c \in {50, 100} : File(e, p, o, at, c)) \/ FileLife(e, p, o, at)
      PROVE  CorpusInv'
  <2>1. PICK c, v, keeps : BeginFiling(e, [cko |-> o, at |-> at, source |-> "manual", confidence |-> c, by |-> p,
                                           visibility |-> v], keeps)
    <3>1. CASE FileLife(e, p, o, at)
      BY <3>1 DEF FileLife
    <3>2. ASSUME NEW c \in {50, 100}, File(e, p, o, at, c)
          PROVE  \E d, v, keeps : BeginFiling(e, [cko |-> o, at |-> at, source |-> "manual", confidence |-> d,
                                                  by |-> p, visibility |-> v], keeps)
      <4> DEFINE v == IF at.corpus # "life" \/ ~installed
                      THEN (IF Visibility(at.corpus) = "private" THEN "private" ELSE "node")
                      ELSE IF at \in SealedAt THEN "sealed" ELSE "private"
      <4>1. BeginFiling(e, [cko |-> o, at |-> at, source |-> "manual", confidence |-> c, by |-> p,
                            visibility |-> v], FALSE)
        BY <3>2 DEF File
      <4> HIDE DEF v
      <4> QED
        BY <4>1
    <3> QED
      BY <1>4, <3>1, <3>2
  <2> DEFINE row == [cko |-> o, at |-> at, source |-> "manual", confidence |-> c, by |-> p, visibility |-> v]
  <2>2. DOMAIN row = Fields /\ row.source = "manual" /\ row.cko = o
    BY DEF Fields
  <2>3. BeginFiling(e, row, keeps)
    BY <2>1
  <2> HIDE DEF row
  <2> QED
    BY <2>2, <2>3, FilingBegins
<1>5. ASSUME NEW p \in Curators, NEW e \in Editors, NEW r \in filings, RemoveFiling(e, p, r) PROVE CorpusInv'
  BY <1>5, EditsKeep
<1>6. ASSUME NEW e \in Editors, PutFiling(e) \/ CommitFiling(e) \/ Suppress(e) \/ CommitRemoval(e) \/ EditRollsBack(e)
      PROVE  CorpusInv'
  BY <1>6, EditsKeep, FilingKeeps, RemovalKeeps
<1>7. ASSUME NEW u \in unlocked, UnlockExpires(u) PROVE CorpusInv'
  BY <1>1, <1>7 DEF UnlockExpires
<1>8. ASSUME NEW o \in Documents, NEW text \in Contents, Revise(o, text) PROVE CorpusInv'
  BY <1>1, <1>8 DEF Revise
<1>9. ASSUME NEW k \in Classifiers, Check(k) \/ Upsert(k) \/ Commit(k) \/ RollBack(k) PROVE CorpusInv'
  BY <1>9, ClassificationKeeps, CommitKeeps
<1>10. CASE UNCHANGED corpusVars
  BY <1>1, <1>10 DEF corpusVars
<1> QED
  BY <1>2, <1>3, <1>4, <1>5, <1>6, <1>7, <1>8, <1>9, <1>10 DEF CorpusNext

(* However many classifications, filings and removals overlap, what a person *)
(* filed is as it was filed, and a row stands beside a suppression only where *)
(* whoever wrote it had looked before that removal was committed.          *)
THEOREM PersonKeepsLastWord == CorpusSpec => []PersonHasLastWord
<1>1. CorpusInv => PersonHasLastWord
  BY DEF CorpusInv
<1> QED
  BY <1>1, CorpusInitOK, CorpusStep, PTL DEF CorpusSpec

(* Whatever is filed, granted, unlocked and classified, every view shows     *)
(* the same rows, and what a sealed branch holds changes none of them.      *)
THEOREM ViewsStaySealed == CorpusSpec => []ViewsKeepTheSeal
<1>1. NothingSealedShows
  <2> SUFFICES ASSUME NEW p \in Curators
               PROVE  LET open == {r \in filings : r.visibility = "sealed" => <<p, r.at>> \in unlocked} IN
                      Viewed(filings, p) = Viewed(open, p)
    BY DEF NothingSealedShows
  <2> DEFINE open == {r \in filings : r.visibility = "sealed" => <<p, r.at>> \in unlocked}
  <2>1. \A r : r \in open <=> r \in filings /\ Open(p, r)
    BY DEF Open
  <2> HIDE DEF open
  <2>2. \A c, tab, subtab : CorpusView(filings, p, c, tab, subtab) = CorpusView(open, p, c, tab, subtab)
    BY <2>1 DEF CorpusView
  <2>3. \A c : SemanticView(filings, p, c) = SemanticView(open, p, c)
    <3> SUFFICES ASSUME NEW c PROVE SemanticView(filings, p, c) = SemanticView(open, p, c)
      OBVIOUS
    <3>1. {r \in filings : r.at.corpus = c /\ Open(p, r)} = {r \in open : r.at.corpus = c /\ Open(p, r)}
      BY <2>1
    <3> QED
      BY <3>1 DEF SemanticView
  <2>4. LifeView(filings, p) = LifeView(open, p)
    BY <2>1 DEF LifeView
  <2>5. \A c, tab, subtab : ExplorerList(filings, p, c, tab, subtab) = ExplorerList(open, p, c, tab, subtab)
    BY <2>1 DEF ExplorerList
  <2>6. \A o : ExplorerObject(filings, p, o) = ExplorerObject(open, p, o)
    BY <2>1 DEF ExplorerObject
  <2>7. Home(filings, p) = Home(open, p)
    BY <2>3 DEF Home
  <2> QED
    BY <2>2, <2>3, <2>4, <2>5, <2>6, <2>7 DEF Viewed, open
<1>2. IsRows(filings) => ViewsAgree
  <2> SUFFICES ASSUME IsRows(filings), NEW p \in Curators, NEW at \in Coordinates
               PROVE  LET c == at.corpus
                          shown == CorpusView(filings, p, c, at.tab, at.subtab)
                          all == CorpusView(filings, p, c, "", "") IN
                      /\ ExplorerList(filings, p, c, at.tab, at.subtab) = {r.cko : r \in shown}
                      /\ shown = {r \in UNION {ExplorerObject(filings, p, o) : o \in Documents} :
                                    Asked(r, c, at.tab, at.subtab)}
                      /\ VisibleTo(c, p) => SemanticView(filings, p, c) = Envelope(all)
                      /\ c = "life" /\ VisibleTo(c, p) => LifeView(filings, p) = all
    BY DEF ViewsAgree
  <2> DEFINE c == at.corpus
             shown == CorpusView(filings, p, c, at.tab, at.subtab)
             all == CorpusView(filings, p, c, "", "")
  <2>1. c # ""
    BY CorpusAssumption
  <2>2. \A r \in filings : r.cko \in Documents
    BY DEF IsRows
  <2>3. ExplorerList(filings, p, c, at.tab, at.subtab) = {r.cko : r \in shown}
    BY <2>1, <2>2 DEF ExplorerList, CorpusView
  <2>4. shown = {r \in UNION {ExplorerObject(filings, p, o) : o \in Documents} :
                   Asked(r, c, at.tab, at.subtab)}
    BY <2>2 DEF ExplorerObject, CorpusView
  <2>5. VisibleTo(c, p) => all = {r \in filings : r.at.corpus = c /\ Open(p, r)}
    BY <2>1 DEF CorpusView, Asked
  <2>6. VisibleTo(c, p) => SemanticView(filings, p, c) = Envelope(all)
    BY <2>5 DEF SemanticView
  <2>7. c = "life" /\ VisibleTo(c, p) => LifeView(filings, p) = all
    BY <2>5 DEF LifeView
  <2> QED
    BY <2>3, <2>4, <2>6, <2>7
<1>3. CorpusInv => ViewsKeepTheSeal
  BY <1>1, <1>2 DEF CorpusInv, ViewsKeepTheSeal
<1> QED
  BY <1>3, CorpusInitOK, CorpusStep, PTL DEF CorpusSpec

-----------------------------------------------------------------------------
(* Capture: the inductive invariant, as named parts.                       *)

Ids(S) == {x.id : x \in S}
TextIds(S) == {a.id : a \in {b \in S : b.text}}

ObjectType == [id : Nat, version : Nat \ {0}, title : Nat, note : Nat]
ArtifactType == [id : Nat, cko : Nat, text : BOOLEAN]
JobType == [id : Nat, status : {"ready", "failed"}, bytes : BOOLEAN]
WritesType == [objects : SUBSET ObjectType, versions : SUBSET ObjectType, artifacts : SUBSET ArtifactType,
               models : SUBSET Nat, vectors : SUBSET (Nat \X Nat)]
WorkType == [at : {"idle", "store", "rows", "model", "missing", "embed", "edit", "commit"},
             kind : {"", "capture", "object", "upload", "reindex", "edit"}, id : Nat, cko : Nat,
             bytes : BOOLEAN, text : BOOLEAN, fields : SUBSET {"title", "note"}, status : {"ready", "failed"}, model : Nat,
             todo : SUBSET Nat, holds : SUBSET Nat, mine : WritesType]

\* The number of a request is not that of anything there is.
Used == Ids(objects) \cup Ids(artifacts) \cup Ids(jobs) \cup models

Started(w) == w.at # "idle" /\ w.id <= received /\ w.id \notin Used /\ w.holds \subseteq {w.cko}

\* What it writes of an artifact, and when.
WritesArtifact(w) ==
    IF w.at \in {"store", "rows"}
    THEN w.mine.artifacts = {} /\ (w.at = "rows" => w.id \in stored)
    ELSE /\ w.at \in {"model", "missing", "embed", "commit"} /\ w.id \in stored
         /\ w.mine.artifacts = {[id |-> w.id, cko |-> w.cko, text |-> w.text]}
         /\ w.text <=> w.at # "commit"
         /\ w.at = "embed" => w.id \in w.todo \/ <<w.id, w.model>> \in w.mine.vectors

\* What it writes of the index.
WritesVectors(w) ==
    LET texts == TextIds(artifacts \cup w.mine.artifacts) IN
    /\ w.todo \subseteq texts /\ w.mine.models \subseteq {w.id}
    /\ \A k \in w.mine.vectors : k[1] \in texts /\ k[2] \in models \cup w.mine.models /\ k \notin vectors
    /\ w.at \in {"missing", "embed"} => w.model \in models \cup w.mine.models
    /\ w.at \notin {"missing", "embed"} => w.mine.models = {} /\ w.mine.vectors = {}

WritesNothing(w) == w.mine.objects = {} /\ w.mine.versions = {}

\* A capture or another new object, with bytes or without.
AsCapture(w) ==
    /\ w.kind \in {"capture", "object"} /\ w.status = "ready" /\ w.cko = w.id
    /\ IF w.bytes THEN WritesArtifact(w) ELSE w.at = "commit" /\ w.mine.artifacts = {}
    /\ \E new, row \in ObjectType : /\ w.mine.objects = {row} /\ w.mine.versions = {new}
                                    /\ new.id = w.id /\ row.id = w.id /\ new.version = 1 /\ row.version = 1

AsFailed(w) ==
    /\ w.kind = "capture" /\ w.status = "failed" /\ w.at = "commit"
    /\ WritesNothing(w) /\ w.mine.artifacts = {}

AsUpload(w) == w.kind = "upload" /\ w.cko \in Ids(objects) /\ WritesArtifact(w) /\ WritesNothing(w)

AsReindex(w) ==
    /\ w.kind = "reindex" /\ w.at \in {"model", "missing", "embed"} /\ w.mine.artifacts = {} /\ WritesNothing(w)

AsEdit(w) ==
    /\ w.kind = "edit" /\ w.cko \in Ids(objects) /\ w.mine.artifacts = {}
    /\ \/ w.at = "edit" /\ WritesNothing(w)
       \/ /\ w.at = "commit" /\ w.holds = {w.cko}
          /\ \E new \in ObjectType :
               /\ w.mine.objects = {new} /\ w.mine.versions = {new} /\ new.id = w.cko
               /\ \E o \in objects : o.id = w.cko /\ new.version = o.version + 1

WorkOK(w) ==
    \/ w = NoWork
    \/ /\ Started(w) /\ WritesVectors(w)
       /\ AsCapture(w) \/ AsFailed(w) \/ AsUpload(w) \/ AsReindex(w) \/ AsEdit(w)

Apart(v, w) ==
    v.at # "idle" /\ w.at # "idle" =>
        v.id # w.id /\ v.holds \cap w.holds = {} /\ v.mine.vectors \cap w.mine.vectors = {}

RowsAreTyped ==
    /\ received \in Nat /\ objects \subseteq ObjectType /\ versions \subseteq ObjectType
    /\ artifacts \subseteq ArtifactType /\ jobs \subseteq JobType /\ models \subseteq Nat /\ IsFiniteSet(models)
    /\ working \in [Clients -> WorkType]
    /\ \A n \in Used : n <= received

RowsAgree ==
    /\ \A o, p \in objects : o.id = p.id => o = p
    /\ \A i, j \in jobs : i.id = j.id => i = j
    /\ \A j \in jobs : j.id \in Ids(objects) <=> j.status = "ready"
    /\ \A j \in jobs : j.status = "ready" /\ j.bytes => \E a \in artifacts : a.id = j.id /\ a.cko = j.id
    /\ \A a \in artifacts : /\ a.cko \in Ids(objects)
                           /\ \A j \in jobs : j.id = a.id => j.status = "ready" /\ j.bytes

HistoryAgrees ==
    /\ Ids(versions) \subseteq Ids(objects)
    /\ \A u, v \in versions : u.id = v.id /\ u.version = v.version => u = v
    /\ \A o \in objects : /\ \A n \in 1 .. o.version : \E v \in versions : v.id = o.id /\ v.version = n
                          /\ \A v \in versions : v.id = o.id => v.version <= o.version
                          /\ o.version > 1 => o \in versions

IndexAgrees ==
    /\ \A k \in vectors : k[1] \in TextIds(artifacts) /\ k[2] \in models
    /\ \A f \in TextIds(artifacts) : \E m \in models : <<f, m>> \in vectors

WorkAgrees == \A r \in Clients : /\ WorkOK(working[r])
                                 /\ \A q \in Clients \ {r} : Apart(working[q], working[r])

CaptureInv == RowsAreTyped /\ RowsAgree /\ HistoryAgrees /\ IndexAgrees /\ WorkAgrees /\ RowsHaveBytes

-----------------------------------------------------------------------------
CaptureRows == <<objects, versions, artifacts, models, vectors, jobs>>

LEMMA NoWorkType ==
    /\ NoWork \in WorkType /\ NoWork.at = "idle" /\ NoWork.holds = {} /\ NoWork.todo = {}
    /\ NoWork.mine = NoWrites /\ NoWork.kind = "" /\ NoWork.status = "ready"
    /\ NoWrites \in WritesType /\ NoWrites.objects = {} /\ NoWrites.versions = {}
    /\ NoWrites.artifacts = {} /\ NoWrites.models = {} /\ NoWrites.vectors = {}
<1>1. /\ NoWrites \in WritesType /\ NoWrites.objects = {} /\ NoWrites.versions = {}
      /\ NoWrites.artifacts = {} /\ NoWrites.models = {} /\ NoWrites.vectors = {}
  BY DEF NoWrites, WritesType
<1>2. NoWork \in WorkType
  BY <1>1 DEF NoWork, WorkType
<1>3. /\ NoWork.at = "idle" /\ NoWork.holds = {} /\ NoWork.todo = {}
      /\ NoWork.mine = NoWrites /\ NoWork.kind = "" /\ NoWork.status = "ready"
  BY DEF NoWork
<1> QED
  BY <1>1, <1>2, <1>3

(* More requests and more bytes disturb nobody. *)
LEMMA WorkStaysOK ==
    ASSUME NEW w \in WorkType, WorkOK(w), UNCHANGED CaptureRows,
           received \in Nat, received' \in Nat, received <= received', stored \subseteq stored'
    PROVE  WorkOK(w)'
<1>1. Started(w) => Started(w)'
  <2>1. Used' = Used
    BY DEF Used, CaptureRows
  <2>2. w.id \in Nat
    BY DEF WorkType
  <2> QED
    BY <2>1, <2>2 DEF Started
<1>2. WritesVectors(w) <=> WritesVectors(w)'
  BY DEF WritesVectors, CaptureRows
<1>3. WritesArtifact(w) => WritesArtifact(w)'
  BY DEF WritesArtifact
<1>4. AsCapture(w) \/ AsFailed(w) \/ AsUpload(w) \/ AsReindex(w) \/ AsEdit(w) =>
      AsCapture(w)' \/ AsFailed(w)' \/ AsUpload(w)' \/ AsReindex(w)' \/ AsEdit(w)'
  <2>1. AsCapture(w) => AsCapture(w)'
    BY <1>3 DEF AsCapture
  <2>2. AsFailed(w) <=> AsFailed(w)'
    BY DEF AsFailed, WritesNothing
  <2>3. AsUpload(w) => AsUpload(w)'
    BY <1>3 DEF AsUpload, WritesNothing, CaptureRows
  <2>4. AsReindex(w) <=> AsReindex(w)'
    BY DEF AsReindex, WritesNothing
  <2>5. AsEdit(w) <=> AsEdit(w)'
    BY DEF AsEdit, WritesNothing, CaptureRows
  <2> QED
    BY <2>1, <2>2, <2>3, <2>4, <2>5
<1> QED
  BY <1>1, <1>2, <1>4 DEF WorkOK

(* One request goes on, the database as it was. *)
LEMMA OneWorks ==
    ASSUME CaptureInv, NEW r \in Clients, NEW w \in WorkType, WorkOK(w)',
           \A q \in Clients \ {r} : Apart(working[q], w),
           working' = [working EXCEPT ![r] = w], UNCHANGED CaptureRows,
           received' \in Nat, received <= received', stored \subseteq stored'
    PROVE  CaptureInv'
<1>1. working \in [Clients -> WorkType] /\ received \in Nat
  BY DEF CaptureInv, RowsAreTyped
<1>2. /\ working' \in [Clients -> WorkType]
      /\ \A q \in Clients : working'[q] = IF q = r THEN w ELSE working[q]
  BY <1>1
<1>3. RowsAreTyped'
  <2>1. Used' = Used
    BY DEF Used, CaptureRows
  <2>2. \A n \in Used' : n <= received'
    <3>1. \A n \in Used : n \in Nat /\ n <= received
      BY DEF CaptureInv, RowsAreTyped, Used, Ids, ObjectType, ArtifactType, JobType
    <3> QED
      BY <1>1, <2>1, <3>1
  <2> QED
    BY <1>2, <2>2 DEF CaptureInv, RowsAreTyped, CaptureRows
<1>4. RowsAgree' /\ HistoryAgrees' /\ IndexAgrees' /\ RowsHaveBytes'
  <2>1. RowsAgree'
    BY DEF CaptureInv, RowsAgree, CaptureRows
  <2>2. HistoryAgrees'
    BY DEF CaptureInv, HistoryAgrees, CaptureRows
  <2>3. IndexAgrees'
    BY DEF CaptureInv, IndexAgrees, CaptureRows
  <2>4. RowsHaveBytes'
    BY DEF CaptureInv, RowsHaveBytes, CaptureRows
  <2> QED
    BY <2>1, <2>2, <2>3, <2>4
<1>5. ASSUME NEW q \in Clients PROVE WorkOK(working[q])'
  <2>1. CASE q = r
    <3>1. working'[q] = w
      BY <2>1, <1>2
    <3> QED
      BY <3>1
  <2>2. CASE q # r
    <3>1. PICK v \in WorkType : v = working[q]
      BY <1>1
    <3>2. WorkOK(v)
      BY <3>1 DEF CaptureInv, WorkAgrees
    <3>3. WorkOK(v)'
      BY <3>2, <1>1, WorkStaysOK
    <3>4. working'[q] = v
      BY <2>2, <3>1, <1>2
    <3> QED
      BY <3>3, <3>4
  <2> QED
    BY <2>1, <2>2
<1>6. \A p \in Clients : \A q \in Clients \ {p} : Apart(working'[q], working'[p])
  <2>1. \A p \in Clients : \A q \in Clients \ {p} : Apart(working[q], working[p])
    BY DEF CaptureInv, WorkAgrees
  <2>2. \A p \in Clients \ {r} : Apart(w, working[p])
    BY DEF Apart
  <2> QED
    BY <1>2, <2>1, <2>2
<1>7. WorkAgrees'
  BY <1>5, <1>6 DEF WorkAgrees
<1> QED
  BY <1>3, <1>4, <1>7 DEF CaptureInv

\* What the requests do to one another: numbers, rows, keys.
LEMMA ApartFrom ==
    ASSUME CaptureInv, NEW r \in Clients, NEW q \in Clients \ {r}
    PROVE  Apart(working[q], working[r]) /\ working[q] \in WorkType /\ WorkOK(working[q])
  BY DEF CaptureInv, WorkAgrees, RowsAreTyped

LEMMA TheWork ==
    ASSUME CaptureInv, NEW r \in Clients
    PROVE  /\ working[r] \in WorkType /\ WorkOK(working[r]) /\ received \in Nat
           /\ working[r].at # "idle" => working[r] # NoWork
  BY NoWorkType DEF CaptureInv, WorkAgrees, RowsAreTyped

LEMMA UsedIsFinite ==
    ASSUME CaptureInv
    PROVE  received + 1 \notin Used /\ received \in Nat /\ received + 1 \in Nat
<1>1. received \in Nat /\ \A n \in Used : n <= received
  BY DEF CaptureInv, RowsAreTyped
<1> QED
  BY <1>1

(* A request that ends, and one that fails. *)
LEMMA WorkEnds ==
    ASSUME CaptureInv, NEW r \in Clients, WorkGoes(r, NoWork)
    PROVE  CaptureInv'
<1>0. PICK w : w = NoWork
  OBVIOUS
<1>1. WorkOK(w)' /\ w \in WorkType
  BY <1>0, NoWorkType DEF WorkOK
<1>2. \A q \in Clients \ {r} : Apart(working[q], w)
  BY <1>0, NoWorkType DEF Apart
<1>3. /\ UNCHANGED CaptureRows /\ received' \in Nat /\ received <= received' /\ stored \subseteq stored'
      /\ working' = [working EXCEPT ![r] = w]
  BY <1>0, TheWork DEF WorkGoes, CaptureRows
<1> QED
  BY <1>1, <1>2, <1>3, OneWorks

\* A request of its own: nothing held, nothing written, whatever it is about.
LEMMA NewWork ==
    ASSUME CaptureInv, NEW r \in Clients, NEW w \in WorkType, WorkBegins(r, w),
           w.at \in {"store", "model", "edit", "commit"}, w.holds = {}, w.todo = {}, w.status = "ready",
           w.mine.artifacts = {}, w.mine.models = {}, w.mine.vectors = {},
           \/ w.kind \in {"upload", "edit"} /\ w.cko \in Ids(objects) /\ WritesNothing(w)
              /\ (w.kind = "upload" <=> w.at = "store") /\ (w.kind = "edit" <=> w.at = "edit")
           \/ w.kind = "reindex" /\ w.at = "model" /\ WritesNothing(w)
           \/ /\ w.kind \in {"capture", "object"} /\ w.cko = received + 1
              /\ w.at = IF w.bytes THEN "store" ELSE "commit"
              /\ \E new, row \in ObjectType : /\ w.mine.objects = {row} /\ w.mine.versions = {new}
                                              /\ new.id = w.cko /\ row.id = w.cko
                                              /\ new.version = 1 /\ row.version = 1
    PROVE  CaptureInv'
<1>0. PICK v : v = [w EXCEPT !.id = received + 1]
  OBVIOUS
<1>1. /\ working' = [working EXCEPT ![r] = v] /\ received' = received + 1
      /\ UNCHANGED CaptureRows /\ stored' = stored
  BY <1>0 DEF WorkBegins, CaptureRows
<1>2. received + 1 \notin Used /\ received \in Nat /\ received + 1 \in Nat
  BY UsedIsFinite
<1>3. /\ v \in WorkType /\ v.at = w.at /\ v.holds = w.holds /\ v.todo = w.todo /\ v.kind = w.kind
      /\ v.mine = w.mine /\ v.cko = w.cko /\ v.bytes = w.bytes /\ v.status = w.status /\ v.id = received + 1
  BY <1>0, <1>2 DEF WorkType
<1>4. Started(v)'
  <2>1. Used' = Used
    BY <1>1 DEF Used, CaptureRows
  <2> QED
    BY <1>1, <1>2, <1>3, <2>1 DEF Started
<1>5. WritesVectors(v)'
  BY <1>3 DEF WritesVectors
<1>6. AsCapture(v)' \/ AsFailed(v)' \/ AsUpload(v)' \/ AsReindex(v)' \/ AsEdit(v)'
  <2>1. objects' = objects
    BY <1>1 DEF CaptureRows
  <2>2. CASE w.kind = "upload" /\ w.cko \in Ids(objects) /\ WritesNothing(w) /\ w.at = "store"
    BY <2>1, <2>2, <1>3 DEF AsUpload, WritesNothing, WritesArtifact
  <2>3. CASE w.kind = "edit" /\ w.cko \in Ids(objects) /\ WritesNothing(w) /\ w.at = "edit"
    BY <2>1, <2>3, <1>3 DEF AsEdit, WritesNothing
  <2>4. CASE w.kind = "reindex" /\ w.at = "model" /\ WritesNothing(w)
    BY <2>4, <1>3 DEF AsReindex, WritesNothing
  <2>5. CASE w.kind \in {"capture", "object"}
    BY <2>5, <1>3 DEF AsCapture, WritesArtifact
  <2> QED
    BY <2>2, <2>3, <2>4, <2>5
<1>7. WorkOK(v)'
  BY <1>4, <1>5, <1>6 DEF WorkOK
<1>8. ASSUME NEW q \in Clients \ {r} PROVE Apart(working[q], v)
  <2>1. working[q].at = "idle" \/ (working[q].id \in Nat /\ working[q].id <= received)
    BY ApartFrom, NoWorkType DEF WorkOK, Started, WorkType
  <2> QED
    BY <2>1, <1>2, <1>3 DEF Apart
<1>9. received' \in Nat /\ received <= received' /\ stored \subseteq stored'
  BY <1>1, <1>2
<1>10. v \in WorkType /\ working' = [working EXCEPT ![r] = v] /\ UNCHANGED CaptureRows
  BY <1>1, <1>3
<1> QED
  BY <1>7, <1>8, <1>9, <1>10, OneWorks

(* The requests begin. *)
LEMMA CaptureBegins ==
    ASSUME CaptureInv, NEW r \in Clients, NEW hasNote \in BOOLEAN, NEW kept \in Payloads,
           BeginCapture(r, hasNote, kept) \/ BeginObject(r, kept)
    PROVE  CaptureInv'
<1> DEFINE n == received + 1
<1>1. PICK new : new = NewObject(n)
  OBVIOUS
<1>2. PICK row : row \in {new, [new EXCEPT !.note = IF hasNote THEN n ELSE 0]} /\
                 \E kind \in {"capture", "object"} : WorkBegins(r, Made(kind, row, new, kept))
  BY <1>1 DEF BeginCapture, BeginObject
<1>3. PICK kind \in {"capture", "object"} : WorkBegins(r, Made(kind, row, new, kept))
  BY <1>2
<1>4. n \in Nat
  BY UsedIsFinite
<1> HIDE DEF n
<1>5. new \in ObjectType /\ new.id = n /\ new.version = 1
  BY <1>1, <1>4 DEF NewObject, ObjectType
<1>6. row \in ObjectType /\ row.id = n /\ row.version = 1
  <2>1. PICK note : note = IF hasNote THEN n ELSE 0
    OBVIOUS
  <2>2. note \in Nat /\ row \in {new, [new EXCEPT !.note = note]}
    BY <1>2, <1>4, <2>1
  <2> QED
    BY <1>5, <2>2 DEF ObjectType
<1>7. PICK mine : mine = [NoWrites EXCEPT !.objects = {row}, !.versions = {new}]
  OBVIOUS
<1>8. /\ mine \in WritesType /\ mine.objects = {row} /\ mine.versions = {new} /\ mine.artifacts = {}
      /\ mine.models = {} /\ mine.vectors = {}
  BY <1>5, <1>6, <1>7, NoWorkType DEF WritesType
<1>9. PICK at : at = IF kept = "none" THEN "commit" ELSE "store"
  OBVIOUS
<1>10. PICK w : w = Made(kind, row, new, kept)
  OBVIOUS
<1>11. w = [NoWork EXCEPT !.at = at, !.kind = kind, !.cko = n, !.bytes = kept # "none", !.text = kept = "text",
                          !.mine = mine]
  BY <1>5, <1>7, <1>9, <1>10, NoWorkType DEF Made, WorkType, WritesType
<1>12. PICK bytes \in BOOLEAN, text \in BOOLEAN : bytes = (kept # "none") /\ text = (kept = "text")
  OBVIOUS
<1>13. w = [NoWork EXCEPT !.at = at, !.kind = kind, !.cko = n, !.bytes = bytes, !.text = text, !.mine = mine]
  BY <1>11, <1>12
<1>14. /\ w \in WorkType /\ w.at = at /\ w.kind = kind /\ w.cko = n /\ w.mine = mine /\ w.bytes = bytes
       /\ w.holds = {} /\ w.todo = {} /\ w.status = "ready"
  BY <1>4, <1>8, <1>9, <1>13, NoWorkType DEF WorkType
<1>15. w.at = IF w.bytes THEN "store" ELSE "commit"
  BY <1>9, <1>12, <1>14
<1>16. WorkBegins(r, w)
  BY <1>3, <1>10
<1> QED
  BY <1>5, <1>6, <1>8, <1>14, <1>15, <1>16, NewWork DEF n

LEMMA OtherBegins ==
    ASSUME CaptureInv, NEW r \in Clients, NEW o \in Ids(objects) \cup {0}, NEW text \in BOOLEAN,
           NEW fields \in {{"title"}, {"note"}},
           \/ o \in Ids(objects) /\ (BeginUpload(r, o, text) \/ BeginEdit(r, o, fields))
           \/ BeginReindex(r, o)
    PROVE  CaptureInv'
<1>1. o \in Nat
  BY DEF CaptureInv, RowsAreTyped, Ids, ObjectType
<1>2. CASE o \in Ids(objects) /\ BeginUpload(r, o, text)
  <2>1. PICK w : w = [NoWork EXCEPT !.at = "store", !.kind = "upload", !.cko = o, !.bytes = TRUE,
                                    !.text = text]
    OBVIOUS
  <2>2. /\ w \in WorkType /\ w.at = "store" /\ w.kind = "upload" /\ w.cko = o /\ w.mine = NoWrites
        /\ w.holds = {} /\ w.todo = {} /\ w.status = "ready"
    BY <2>1, <1>1, NoWorkType DEF WorkType
  <2>3. WorkBegins(r, w)
    BY <1>2, <2>1 DEF BeginUpload
  <2> QED
    BY <1>1, <1>2, <2>2, <2>3, NoWorkType, NewWork DEF WritesNothing
<1>3. CASE o \in Ids(objects) /\ BeginEdit(r, o, fields)
  <2>1. PICK w : w = [NoWork EXCEPT !.at = "edit", !.kind = "edit", !.cko = o, !.fields = fields]
    OBVIOUS
  <2>2. /\ w \in WorkType /\ w.at = "edit" /\ w.kind = "edit" /\ w.cko = o /\ w.mine = NoWrites
        /\ w.holds = {} /\ w.todo = {} /\ w.status = "ready"
    BY <2>1, <1>1, NoWorkType DEF WorkType
  <2>3. WorkBegins(r, w)
    BY <1>3, <2>1 DEF BeginEdit
  <2> QED
    BY <1>1, <1>3, <2>2, <2>3, NoWorkType, NewWork DEF WritesNothing
<1>4. CASE BeginReindex(r, o)
  <2>1. PICK w : w = [NoWork EXCEPT !.at = "model", !.kind = "reindex", !.cko = o]
    OBVIOUS
  <2>2. /\ w \in WorkType /\ w.at = "model" /\ w.kind = "reindex" /\ w.cko = o /\ w.mine = NoWrites
        /\ w.holds = {} /\ w.todo = {} /\ w.status = "ready"
    BY <2>1, <1>1, NoWorkType DEF WorkType
  <2>3. WorkBegins(r, w)
    BY <1>4, <2>1 DEF BeginReindex
  <2> QED
    BY <2>2, <2>3, NoWorkType, NewWork DEF WritesNothing
<1> QED
  BY <1>2, <1>3, <1>4

(* One step of a request that has begun. *)
LEMMA GoesOn ==
    ASSUME CaptureInv, NEW r \in Clients, NEW w \in WorkType, WorkOK(w), WorkGoes(r, w),
           w.id = working[r].id, working[r].at # "idle",
           \A q \in Clients \ {r} : w.holds \cap working[q].holds = {}
                                    /\ w.mine.vectors \cap working[q].mine.vectors = {}
    PROVE  CaptureInv'
<1>1. /\ UNCHANGED CaptureRows /\ received' \in Nat /\ received <= received' /\ stored \subseteq stored'
      /\ working' = [working EXCEPT ![r] = w] /\ received' = received /\ received \in Nat
  BY TheWork DEF WorkGoes, CaptureRows
<1>2. WorkOK(w)'
  BY <1>1, WorkStaysOK
<1>3. \A q \in Clients \ {r} : Apart(working[q], w)
  BY ApartFrom DEF Apart
<1> QED
  BY <1>1, <1>2, <1>3, OneWorks

LEMMA StoreStep ==
    ASSUME CaptureInv, NEW r \in Clients, Store(r)
    PROVE  CaptureInv'
<1>0. PICK u : u = working[r]
  OBVIOUS
<1>1. u \in WorkType /\ WorkOK(u) /\ u # NoWork /\ u.at = "store" /\ received \in Nat
  BY <1>0, TheWork DEF Store
<1>2. PICK w : w = [u EXCEPT !.at = "rows"]
  OBVIOUS
<1>3. /\ w \in WorkType /\ w.at = "rows" /\ w.id = u.id /\ w.kind = u.kind /\ w.cko = u.cko /\ w.mine = u.mine
      /\ w.holds = u.holds /\ w.todo = u.todo /\ w.status = u.status /\ w.text = u.text /\ w.bytes = u.bytes
  BY <1>1, <1>2 DEF WorkType
<1>4. /\ UNCHANGED CaptureRows /\ stored' = stored \cup {w.id} /\ received' = received
      /\ working' = [working EXCEPT ![r] = w]
  BY <1>0, <1>2, <1>3 DEF Store, CaptureRows
<1>5. Started(w)' /\ WritesVectors(w)'
  <2>1. Used' = Used
    BY <1>4 DEF Used, CaptureRows
  <2>2. Started(u) /\ WritesVectors(u)
    BY <1>1 DEF WorkOK
  <2>3. Started(w)'
    BY <2>1, <2>2, <1>1, <1>3, <1>4 DEF Started
  <2>4. WritesVectors(w)'
    BY <2>2, <1>1, <1>3, <1>4 DEF WritesVectors, CaptureRows
  <2> QED
    BY <2>3, <2>4
<1>6. AsCapture(w)' \/ AsUpload(w)'
  <2>1. AsCapture(u) \/ AsUpload(u)
    BY <1>1 DEF WorkOK, AsFailed, AsReindex, AsEdit
  <2>2. WritesArtifact(u) => WritesArtifact(w)'
    BY <1>1, <1>3, <1>4 DEF WritesArtifact
  <2>3. AsCapture(u) => AsCapture(w)'
    BY <2>2, <1>1, <1>3 DEF AsCapture
  <2>4. AsUpload(u) => AsUpload(w)'
    BY <2>2, <1>3, <1>4 DEF AsUpload, WritesNothing, CaptureRows
  <2> QED
    BY <2>1, <2>3, <2>4
<1>7. WorkOK(w)'
  BY <1>5, <1>6 DEF WorkOK
<1>8. ASSUME NEW q \in Clients \ {r} PROVE Apart(working[q], w)
  <2>1. Apart(working[q], u)
    BY <1>0, ApartFrom
  <2> QED
    BY <2>1, <1>1, <1>3 DEF Apart
<1>9. received' \in Nat /\ received <= received' /\ stored \subseteq stored'
  BY <1>1, <1>4
<1> QED
  BY <1>3, <1>4, <1>7, <1>8, <1>9, OneWorks

(* The row of the object is nobody else's. *)
LEMMA NotLocked ==
    ASSUME CaptureInv, NEW r \in Clients, ~Locked(working[r].cko), NEW q \in Clients \ {r}
    PROVE  {working[r].cko} \cap working[q].holds = {}
  BY DEF Locked

LEMMA RowsStep ==
    ASSUME CaptureInv, NEW r \in Clients, Rows(r)
    PROVE  CaptureInv'
<1>0. PICK u : u = working[r]
  OBVIOUS
<1>1. u \in WorkType /\ WorkOK(u) /\ u # NoWork /\ u.at = "rows" /\ ~Locked(u.cko)
  BY <1>0, TheWork DEF Rows
<1>2. PICK a : a = [id |-> u.id, cko |-> u.cko, text |-> u.text]
  OBVIOUS
<1>3. PICK w : w = [u EXCEPT !.at = IF u.text THEN "model" ELSE "commit", !.holds = {u.cko},
                             !.mine.artifacts = {a}]
  OBVIOUS
<1>4. PICK mine : mine = [u.mine EXCEPT !.artifacts = {a}]
  OBVIOUS
<1>5. u.mine \in WritesType /\ u.text \in BOOLEAN /\ u.cko \in Nat /\ a \in ArtifactType
  BY <1>1, <1>2 DEF WorkType, ArtifactType
<1>6. /\ mine \in WritesType /\ mine.artifacts = {a} /\ mine.objects = u.mine.objects
      /\ mine.versions = u.mine.versions /\ mine.models = u.mine.models /\ mine.vectors = u.mine.vectors
  BY <1>4, <1>5 DEF WritesType
<1>7. w = [u EXCEPT !.at = IF u.text THEN "model" ELSE "commit", !.holds = {u.cko}, !.mine = mine]
  BY <1>3, <1>4
<1>8. /\ w \in WorkType /\ w.at = (IF u.text THEN "model" ELSE "commit") /\ w.holds = {u.cko} /\ w.mine = mine
      /\ w.id = u.id /\ w.kind = u.kind /\ w.cko = u.cko
      /\ w.todo = u.todo /\ w.status = u.status /\ w.text = u.text /\ w.bytes = u.bytes
  BY <1>1, <1>5, <1>6, <1>7 DEF WorkType
<1>9. WorkGoes(r, w)
  BY <1>0, <1>2, <1>3 DEF Rows
<1>10. AsCapture(u) \/ AsUpload(u)
  BY <1>1 DEF WorkOK, AsFailed, AsReindex, AsEdit
<1>11. WritesArtifact(u) /\ u.id \in stored /\ u.mine.artifacts = {} /\ u.mine.models = {} /\ u.mine.vectors = {}
  BY <1>1, <1>10 DEF AsCapture, AsUpload, WritesArtifact, WritesVectors, WorkOK
<1>12. Started(w)
  BY <1>1, <1>8 DEF WorkOK, Started
<1>13. WritesVectors(w)
  <2>1. u.todo \subseteq TextIds(artifacts)
    BY <1>1, <1>11 DEF WorkOK, WritesVectors
  <2>2. TextIds(artifacts) \subseteq TextIds(artifacts \cup w.mine.artifacts)
    BY DEF TextIds
  <2> QED
    BY <2>1, <2>2, <1>6, <1>8, <1>11 DEF WritesVectors
<1>14. WritesArtifact(w)
  <2>1. CASE u.text
    BY <2>1, <1>2, <1>6, <1>8, <1>11 DEF WritesArtifact
  <2>2. CASE ~u.text
    BY <2>2, <1>2, <1>6, <1>8, <1>11 DEF WritesArtifact
  <2> QED
    BY <2>1, <2>2
<1>15. AsCapture(w) \/ AsUpload(w)
  <2>1. CASE AsCapture(u)
    BY <2>1, <1>1, <1>6, <1>8, <1>14 DEF AsCapture
  <2>2. CASE AsUpload(u)
    BY <2>2, <1>6, <1>8, <1>14 DEF AsUpload, WritesNothing
  <2> QED
    BY <1>10, <2>1, <2>2
<1>16. WorkOK(w)
  BY <1>12, <1>13, <1>15 DEF WorkOK
<1>17. \A q \in Clients \ {r} : w.holds \cap working[q].holds = {}
                               /\ w.mine.vectors \cap working[q].mine.vectors = {}
  BY <1>0, <1>1, <1>6, <1>8, <1>11, NotLocked
<1> QED
  BY <1>0, <1>1, <1>8, <1>9, <1>16, <1>17, GoesOn

\* Two works alike but for where they are in the index.
SameRows(u, w) ==
    /\ w.id = u.id /\ w.kind = u.kind /\ w.cko = u.cko /\ w.holds = u.holds
    /\ w.status = u.status /\ w.bytes = u.bytes /\ w.text = u.text /\ w.mine.objects = u.mine.objects
    /\ w.mine.versions = u.mine.versions /\ w.mine.artifacts = u.mine.artifacts

LEMMA IndexingGoesOn ==
    ASSUME NEW u \in WorkType, NEW w \in WorkType, WorkOK(u), SameRows(u, w), u.at \in {"model", "missing", "embed"},
           w.at \in {"missing", "embed"}, WritesVectors(w),
           u.id \in TextIds(u.mine.artifacts) /\ w.at = "embed" =>
               w.id \in w.todo \/ <<w.id, w.model>> \in w.mine.vectors
    PROVE  WorkOK(w)
<1>1. u # NoWork
  BY NoWorkType
<1>2. Started(u) /\ (AsCapture(u) \/ AsUpload(u) \/ AsReindex(u))
  BY <1>1 DEF WorkOK, AsFailed, AsEdit
<1>3. Started(w)
  BY <1>2 DEF Started, SameRows
<1>4. WritesArtifact(u) => WritesArtifact(w)
  <2>1. SUFFICES ASSUME WritesArtifact(u) PROVE WritesArtifact(w)
    OBVIOUS
  <2>2. /\ u.id \in stored /\ u.mine.artifacts = {[id |-> u.id, cko |-> u.cko, text |-> u.text]} /\ u.text
    BY <2>1 DEF WritesArtifact
  <2>3. u.id \in TextIds(u.mine.artifacts)
    <3>1. PICK a : a = [id |-> u.id, cko |-> u.cko, text |-> u.text]
      OBVIOUS
    <3>2. a \in {b \in u.mine.artifacts : b.text} /\ a.id = u.id
      BY <2>2, <3>1
    <3> QED
      BY <3>2 DEF TextIds
  <2>4. u.text \in BOOLEAN
    BY DEF WorkType
  <2> QED
    BY <2>2, <2>3, <2>4 DEF WritesArtifact, SameRows
<1>5. AsCapture(w) \/ AsUpload(w) \/ AsReindex(w)
  <2>1. CASE AsCapture(u)
    BY <1>4, <2>1 DEF AsCapture, SameRows
  <2>2. CASE AsUpload(u)
    BY <1>4, <2>2 DEF AsUpload, SameRows, WritesNothing
  <2>3. CASE AsReindex(u)
    BY <2>3 DEF AsReindex, SameRows, WritesNothing
  <2> QED
    BY <1>2, <2>1, <2>2, <2>3
<1> QED
  BY <1>3, <1>5 DEF WorkOK

LEMMA SelectModelStep ==
    ASSUME CaptureInv, NEW r \in Clients, SelectModel(r)
    PROVE  CaptureInv'
<1>0. PICK u : u = working[r]
  OBVIOUS
<1>1. /\ u \in WorkType /\ WorkOK(u) /\ u # NoWork /\ u.at = "model" /\ WritesVectors(u)
      /\ u.mine.models = {} /\ u.mine.vectors = {}
  BY <1>0, TheWork DEF SelectModel, WorkOK, WritesVectors
<1>2. CASE models # {}
  <2>1. PICK m \in models : WorkGoes(r, [u EXCEPT !.at = "missing", !.model = m])
    BY <1>0, <1>2 DEF SelectModel
  <2>2. PICK w : w = [u EXCEPT !.at = "missing", !.model = m]
    OBVIOUS
  <2>3. m \in Nat
    BY DEF CaptureInv, RowsAreTyped
  <2>4. /\ w \in WorkType /\ w.at = "missing" /\ w.model = m /\ w.mine = u.mine /\ w.todo = u.todo
        /\ w.id = u.id /\ w.kind = u.kind /\ w.cko = u.cko /\ w.holds = u.holds
        /\ w.status = u.status /\ w.text = u.text /\ w.bytes = u.bytes
    BY <1>1, <2>2, <2>3 DEF WorkType
  <2>5. SameRows(u, w)
    BY <2>4 DEF SameRows
  <2>6. WritesVectors(w)
    BY <1>1, <2>4 DEF WritesVectors
  <2>7. WorkOK(w)
    BY <1>1, <2>4, <2>5, <2>6, IndexingGoesOn
  <2>8. \A q \in Clients \ {r} : w.holds \cap working[q].holds = {}
                               /\ w.mine.vectors \cap working[q].mine.vectors = {}
    <3>1. ASSUME NEW q \in Clients \ {r} PROVE w.holds \cap working[q].holds = {}
      BY <1>0, <1>1, <2>4, ApartFrom, NoWorkType DEF Apart, WorkOK, Started
    <3> QED
      BY <3>1, <1>1, <2>4
  <2> QED
    BY <1>0, <1>1, <2>1, <2>2, <2>4, <2>7, <2>8, GoesOn
<1>3. CASE models = {}
  <2>1. WorkGoes(r, [u EXCEPT !.at = "missing", !.model = u.id, !.mine.models = {u.id}])
    BY <1>0, <1>3 DEF SelectModel
  <2>2. PICK w : w = [u EXCEPT !.at = "missing", !.model = u.id, !.mine.models = {u.id}]
    OBVIOUS
  <2>3. PICK mine : mine = [u.mine EXCEPT !.models = {u.id}]
    OBVIOUS
  <2>4. u.mine \in WritesType /\ u.id \in Nat
    BY <1>1 DEF WorkType
  <2>5. /\ mine \in WritesType /\ mine.models = {u.id} /\ mine.objects = u.mine.objects
        /\ mine.versions = u.mine.versions /\ mine.artifacts = u.mine.artifacts /\ mine.vectors = u.mine.vectors
    BY <2>3, <2>4 DEF WritesType
  <2>6. w = [u EXCEPT !.at = "missing", !.model = u.id, !.mine = mine]
    BY <2>2, <2>3
  <2>7. /\ w \in WorkType /\ w.at = "missing" /\ w.model = u.id /\ w.mine = mine /\ w.todo = u.todo
        /\ w.id = u.id /\ w.kind = u.kind /\ w.cko = u.cko /\ w.holds = u.holds
        /\ w.status = u.status /\ w.text = u.text /\ w.bytes = u.bytes
    BY <1>1, <2>4, <2>5, <2>6 DEF WorkType
  <2>8. SameRows(u, w)
    BY <2>5, <2>7 DEF SameRows
  <2>9. WritesVectors(w)
    BY <1>1, <2>5, <2>7 DEF WritesVectors
  <2>10. WorkOK(w)
    BY <1>1, <2>7, <2>8, <2>9, IndexingGoesOn
  <2>11. \A q \in Clients \ {r} : w.holds \cap working[q].holds = {}
                               /\ w.mine.vectors \cap working[q].mine.vectors = {}
    <3>1. ASSUME NEW q \in Clients \ {r} PROVE w.holds \cap working[q].holds = {}
      BY <1>0, <1>1, <2>7, ApartFrom, NoWorkType DEF Apart, WorkOK, Started
    <3> QED
      BY <3>1, <1>1, <2>5, <2>7
  <2> QED
    BY <1>0, <1>1, <2>1, <2>2, <2>7, <2>10, <2>11, GoesOn
<1> QED
  BY <1>2, <1>3

LEMMA SelectMissingStep ==
    ASSUME CaptureInv, NEW r \in Clients, SelectMissing(r)
    PROVE  CaptureInv'
<1>0. PICK u : u = working[r]
  OBVIOUS
<1>1. u \in WorkType /\ WorkOK(u) /\ u # NoWork /\ u.at = "missing" /\ WritesVectors(u) /\ Started(u)
  BY <1>0, TheWork DEF SelectMissing, WorkOK
<1>2. PICK missing : missing = {f \in {a.id : a \in Fragments(u)} : <<f, u.model>> \notin vectors}
  OBVIOUS
<1>3. PICK w : w = [u EXCEPT !.at = "embed", !.todo = missing]
  OBVIOUS
<1>4. WorkGoes(r, w)
  BY <1>0, <1>2, <1>3 DEF SelectMissing
<1>5. missing \subseteq TextIds(artifacts \cup u.mine.artifacts)
  BY <1>2 DEF TextIds, Fragments
<1>6. missing \subseteq Nat
  <2>1. artifacts \subseteq ArtifactType /\ u.mine.artifacts \subseteq ArtifactType
    BY <1>1 DEF CaptureInv, RowsAreTyped, WorkType, WritesType
  <2> QED
    BY <1>5, <2>1 DEF TextIds, ArtifactType
<1>7. /\ w \in WorkType /\ w.at = "embed" /\ w.model = u.model /\ w.mine = u.mine /\ w.todo = missing
      /\ w.id = u.id /\ w.kind = u.kind /\ w.cko = u.cko /\ w.holds = u.holds
      /\ w.status = u.status /\ w.text = u.text /\ w.bytes = u.bytes
  BY <1>1, <1>3, <1>6 DEF WorkType
<1>8. SameRows(u, w)
  BY <1>7 DEF SameRows
<1>9. WritesVectors(w)
  BY <1>1, <1>5, <1>7 DEF WritesVectors
<1>10. ASSUME u.id \in TextIds(u.mine.artifacts) PROVE w.id \in w.todo
  <2>1. PICK a \in u.mine.artifacts : a.text /\ a.id = u.id
    BY <1>10 DEF TextIds
  <2>2. AsCapture(u) \/ AsUpload(u)
    BY <1>1, <2>1 DEF WorkOK, AsFailed, AsReindex, AsEdit
  <2>3. u.mine.artifacts = {[id |-> u.id, cko |-> u.cko, text |-> u.text]}
    BY <1>1, <2>2 DEF AsCapture, AsUpload, WritesArtifact
  <2>4. a.cko = u.cko
    BY <2>1, <2>3
  <2>5. a \in Fragments(u)
    BY <2>1, <2>4 DEF Fragments
  <2>6. <<u.id, u.model>> \notin vectors
    <3>1. u.id \notin Ids(artifacts)
      BY <1>1 DEF Started, Used
    <3>2. u.id \notin TextIds(artifacts)
      BY <3>1 DEF TextIds, Ids
    <3> QED
      BY <3>2 DEF CaptureInv, IndexAgrees
  <2> QED
    BY <1>2, <1>7, <2>1, <2>5, <2>6
<1>11. WorkOK(w)
  BY <1>1, <1>7, <1>8, <1>9, <1>10, IndexingGoesOn
<1>12. \A q \in Clients \ {r} : w.holds \cap working[q].holds = {}
                             /\ w.mine.vectors \cap working[q].mine.vectors = {}
  BY <1>0, <1>1, <1>7, ApartFrom, NoWorkType DEF Apart, WorkOK, Started
<1> QED
  BY <1>0, <1>1, <1>4, <1>7, <1>11, <1>12, GoesOn

(* A step that throws. *)
LEMMA FailStep ==
    ASSUME CaptureInv, NEW r \in Clients, working[r].at # "idle", WorkGoes(r, Failed(working[r]))
    PROVE  CaptureInv'
<1>0. PICK u : u = working[r]
  OBVIOUS
<1>1. CASE u.kind # "capture"
  BY <1>0, <1>1, WorkEnds DEF Failed
<1>2. CASE u.kind = "capture"
  <2>1. u \in WorkType /\ WorkOK(u) /\ u # NoWork /\ Started(u)
    BY <1>0, TheWork DEF WorkOK
  <2>2. PICK w : w = [u EXCEPT !.at = "commit", !.status = "failed", !.todo = {},
                               !.holds = {}, !.mine = NoWrites]
    OBVIOUS
  <2>3. /\ w \in WorkType /\ w.at = "commit" /\ w.status = "failed" /\ w.todo = {} /\ w.holds = {}
        /\ w.mine = NoWrites /\ w.id = u.id /\ w.kind = "capture"
    BY <1>2, <2>1, <2>2, NoWorkType DEF WorkType
  <2>4. WorkGoes(r, w)
    BY <1>0, <1>2, <2>2 DEF Failed
  <2>5. Started(w) /\ WritesVectors(w) /\ AsFailed(w)
    BY <2>1, <2>3, NoWorkType DEF Started, WritesVectors, AsFailed, WritesNothing
  <2>6. WorkOK(w)
    BY <2>5 DEF WorkOK
  <2> QED
    BY <1>0, <2>3, <2>4, <2>6, NoWorkType, GoesOn
<1> QED
  BY <1>1, <1>2

LEMMA EmbedStep ==
    ASSUME CaptureInv, NEW r \in Clients, Embed(r)
    PROVE  CaptureInv'
<1>0. PICK u : u = working[r]
  OBVIOUS
<1>1. /\ u \in WorkType /\ WorkOK(u) /\ u # NoWork /\ u.at = "embed" /\ u.todo # {} /\ WritesVectors(u) /\ Started(u)
      /\ u.todo \subseteq Nat /\ u.model \in Nat /\ u.mine \in WritesType
  BY <1>0, TheWork DEF Embed, WorkOK, WorkType
<1>2. PICK next : next = Min(u.todo)
  OBVIOUS
<1>3. next \in u.todo /\ next \in Nat
  BY <1>1, <1>2, LeastNatural DEF Min
<1>4. PICK key : key = <<next, u.model>>
  OBVIOUS
<1>5. /\ \A q \in Clients \ {r} : key \notin working[q].mine.vectors
      /\ WorkGoes(r, IF key \in vectors THEN Failed(u)
                     ELSE [u EXCEPT !.todo = @ \ {next}, !.mine.vectors = @ \cup {key}])
  BY <1>0, <1>2, <1>4 DEF Embed
<1>6. CASE key \in vectors
  BY <1>0, <1>1, <1>5, <1>6, FailStep
<1>7. CASE key \notin vectors
  <2>1. PICK mine : mine = [u.mine EXCEPT !.vectors = @ \cup {key}]
    OBVIOUS
  <2>2. key \in Nat \X Nat
    BY <1>1, <1>3, <1>4
  <2>3. /\ mine \in WritesType /\ mine.vectors = u.mine.vectors \cup {key} /\ mine.objects = u.mine.objects
        /\ mine.versions = u.mine.versions /\ mine.artifacts = u.mine.artifacts /\ mine.models = u.mine.models
    BY <1>1, <2>1, <2>2 DEF WritesType
  <2>4. PICK w : w = [u EXCEPT !.todo = @ \ {next}, !.mine = mine]
    OBVIOUS
  <2>5. WorkGoes(r, w)
    BY <1>5, <1>7, <2>1, <2>4
  <2>6. /\ w \in WorkType /\ w.at = "embed" /\ w.model = u.model /\ w.mine = mine /\ w.todo = u.todo \ {next}
        /\ w.id = u.id /\ w.kind = u.kind /\ w.cko = u.cko /\ w.holds = u.holds
        /\ w.status = u.status /\ w.text = u.text /\ w.bytes = u.bytes
    BY <1>1, <2>3, <2>4 DEF WorkType
  <2>7. SameRows(u, w)
    BY <2>3, <2>6 DEF SameRows
  <2>8. WritesVectors(w)
    <3>1. key[1] = next /\ key[2] = u.model
      BY <1>4
    <3>2. next \in TextIds(artifacts \cup u.mine.artifacts) /\ u.model \in models \cup u.mine.models
      BY <1>1, <1>3 DEF WritesVectors
    <3> QED
      BY <1>1, <1>7, <2>3, <2>6, <3>1, <3>2 DEF WritesVectors
  <2>9. ASSUME u.id \in TextIds(u.mine.artifacts)
        PROVE  w.id \in w.todo \/ <<w.id, w.model>> \in w.mine.vectors
    <3>1. AsCapture(u) \/ AsUpload(u)
      BY <1>1, <2>9 DEF WorkOK, AsFailed, AsReindex, AsEdit, TextIds
    <3>2. u.id \in u.todo \/ <<u.id, u.model>> \in u.mine.vectors
      BY <1>1, <3>1 DEF AsCapture, AsUpload, WritesArtifact
    <3> QED
      BY <3>2, <1>4, <2>3, <2>6
  <2>10. WorkOK(w)
    BY <1>1, <2>6, <2>7, <2>8, <2>9, IndexingGoesOn
  <2>11. \A q \in Clients \ {r} : w.holds \cap working[q].holds = {}
                               /\ w.mine.vectors \cap working[q].mine.vectors = {}
    <3>1. ASSUME NEW q \in Clients \ {r}
          PROVE  u.holds \cap working[q].holds = {} /\ u.mine.vectors \cap working[q].mine.vectors = {}
      BY <1>0, <1>1, ApartFrom, NoWorkType DEF Apart, WorkOK, Started
    <3> QED
      BY <3>1, <1>5, <2>3, <2>6
  <2> QED
    BY <1>0, <1>1, <2>5, <2>6, <2>10, <2>11, GoesOn
<1> QED
  BY <1>6, <1>7

(* An edit takes the row as it is. *)
LEMMA EditStep ==
    ASSUME CaptureInv, NEW r \in Clients, Edit(r)
    PROVE  CaptureInv'
<1>0. PICK u : u = working[r]
  OBVIOUS
<1>1. u \in WorkType /\ WorkOK(u) /\ u # NoWork /\ u.at = "edit" /\ ~Locked(u.cko)
      /\ u.mine \in WritesType /\ u.id \in Nat /\ u.cko \in Nat
  BY <1>0, TheWork DEF Edit, WorkType
<1>2. Started(u) /\ WritesVectors(u) /\ AsEdit(u)
  BY <1>1 DEF WorkOK, AsCapture, AsUpload, AsFailed, AsReindex, WritesArtifact
<1>3. PICK old : old = CHOOSE o \in objects : o.id = u.cko
  OBVIOUS
<1>4. old \in objects /\ old.id = u.cko /\ old \in ObjectType
  <2>1. \E o \in objects : o.id = u.cko
    BY <1>2 DEF AsEdit, Ids
  <2>2. old \in objects /\ old.id = u.cko
    BY <1>3, <2>1
  <2> QED
    BY <2>2 DEF CaptureInv, RowsAreTyped
<1>5. PICK new : new = [old EXCEPT !.version = @ + 1, !.title = IF "title" \in u.fields THEN u.id ELSE @,
                                   !.note = IF "note" \in u.fields THEN u.id ELSE @]
  OBVIOUS
<1>6. new \in ObjectType /\ new.id = u.cko /\ new.version = old.version + 1
  <2>1. PICK title : title = IF "title" \in u.fields THEN u.id ELSE old.title
    OBVIOUS
  <2>2. PICK note : note = IF "note" \in u.fields THEN u.id ELSE old.note
    OBVIOUS
  <2>3. title \in Nat /\ note \in Nat /\ old.version + 1 \in Nat \ {0}
    BY <1>1, <1>4, <2>1, <2>2 DEF ObjectType
  <2>4. new = [old EXCEPT !.version = old.version + 1, !.title = title, !.note = note]
    BY <1>4, <1>5, <2>1, <2>2 DEF ObjectType
  <2> QED
    BY <1>4, <2>3, <2>4 DEF ObjectType
<1>7. PICK mine : mine = [u.mine EXCEPT !.objects = {new}, !.versions = {new}]
  OBVIOUS
<1>8. /\ mine \in WritesType /\ mine.objects = {new} /\ mine.versions = {new}
      /\ mine.artifacts = u.mine.artifacts /\ mine.models = u.mine.models /\ mine.vectors = u.mine.vectors
  BY <1>1, <1>6, <1>7 DEF WritesType
<1>9. PICK w : w = [u EXCEPT !.at = "commit", !.holds = {u.cko}, !.mine = mine]
  OBVIOUS
<1>10. /\ w \in WorkType /\ w.at = "commit" /\ w.holds = {u.cko} /\ w.mine = mine
       /\ w.id = u.id /\ w.kind = u.kind /\ w.cko = u.cko /\ w.todo = u.todo
  BY <1>1, <1>8, <1>9 DEF WorkType
<1>11. WorkGoes(r, w)
  <2>1. w = [u EXCEPT !.at = "commit", !.holds = {u.cko}, !.mine.objects = {new}, !.mine.versions = {new}]
    BY <1>1, <1>7, <1>9 DEF WorkType, WritesType
  <2> QED
    BY <1>0, <1>3, <1>5, <2>1 DEF Edit
<1>12. Started(w) /\ WritesVectors(w)
  BY <1>1, <1>2, <1>8, <1>10 DEF Started, WritesVectors
<1>13. AsEdit(w)
  BY <1>1, <1>2, <1>4, <1>6, <1>8, <1>10 DEF AsEdit
<1>14. WorkOK(w)
  BY <1>12, <1>13 DEF WorkOK
<1>15. \A q \in Clients \ {r} : w.holds \cap working[q].holds = {}
                             /\ w.mine.vectors \cap working[q].mine.vectors = {}
  <2>1. w.mine.vectors = {}
    BY <1>1, <1>2, <1>8, <1>10 DEF WritesVectors
  <2> QED
    BY <1>0, <1>1, <1>10, <2>1, NotLocked
<1> QED
  BY <1>0, <1>1, <1>10, <1>11, <1>14, <1>15, GoesOn

-----------------------------------------------------------------------------
(* COMMIT                                                                  *)

\* What a transaction that commits may have written of the objects.
NewRow(w) == \E new, row \in ObjectType : /\ w.mine.objects = {row} /\ w.mine.versions = {new}
                                         /\ new.id = w.id /\ row.id = w.id
                                         /\ new.version = 1 /\ row.version = 1

NextVersion(w) == \E new \in ObjectType :
    /\ w.mine.objects = {new} /\ w.mine.versions = {new} /\ new.id = w.cko /\ w.holds = {w.cko}
    /\ \E o \in objects : o.id = w.cko /\ new.version = o.version + 1

NewArtifact(w) ==
    /\ w.mine.artifacts = {[id |-> w.id, cko |-> w.cko, text |-> w.text]} /\ w.id \in stored
    /\ w.text => /\ <<w.id, w.model>> \in w.mine.vectors /\ w.model \in models \cup w.mine.models

LEMMA CommitCases ==
    ASSUME CaptureInv, NEW r \in Clients, NEW u, u = working[r], Finish(r)
    PROVE  /\ u \in WorkType /\ Started(u) /\ WritesVectors(u) /\ u.at # "idle"
           /\ \/ u.kind \in {"capture", "object"} /\ u.status = "ready" /\ u.cko = u.id /\ NewRow(u)
                 /\ (u.bytes => NewArtifact(u)) /\ (~u.bytes => u.mine.artifacts = {})
              \/ u.kind = "capture" /\ u.status = "failed" /\ WritesNothing(u) /\ u.mine.artifacts = {}
              \/ u.kind = "upload" /\ u.cko \in Ids(objects) /\ WritesNothing(u) /\ NewArtifact(u)
              \/ u.kind = "reindex" /\ WritesNothing(u) /\ u.mine.artifacts = {}
              \/ u.kind = "edit" /\ u.cko \in Ids(objects) /\ NextVersion(u) /\ u.mine.artifacts = {}
<1>1. u \in WorkType /\ WorkOK(u) /\ u # NoWork /\ u.at \in {"commit", "embed"} /\ u.todo = {}
  BY TheWork, NoWorkType DEF Finish
<1>2. Started(u) /\ WritesVectors(u) /\ (AsCapture(u) \/ AsFailed(u) \/ AsUpload(u) \/ AsReindex(u) \/ AsEdit(u))
  BY <1>1 DEF WorkOK
<1>3. WritesArtifact(u) => NewArtifact(u)
  BY <1>1, <1>2 DEF WritesArtifact, NewArtifact, WritesVectors
<1>4. AsCapture(u) => /\ u.kind \in {"capture", "object"} /\ u.status = "ready" /\ u.cko = u.id /\ NewRow(u)
                      /\ (u.bytes => NewArtifact(u)) /\ (~u.bytes => u.mine.artifacts = {})
  BY <1>3 DEF AsCapture, NewRow
<1>5. AsFailed(u) => u.kind = "capture" /\ u.status = "failed" /\ WritesNothing(u) /\ u.mine.artifacts = {}
  BY DEF AsFailed
<1>6. AsUpload(u) => u.kind = "upload" /\ u.cko \in Ids(objects) /\ WritesNothing(u) /\ NewArtifact(u)
  BY <1>3 DEF AsUpload
<1>7. AsReindex(u) => u.kind = "reindex" /\ WritesNothing(u) /\ u.mine.artifacts = {}
  BY DEF AsReindex
<1>8. AsEdit(u) => u.kind = "edit" /\ u.cko \in Ids(objects) /\ NextVersion(u) /\ u.mine.artifacts = {}
  BY <1>1 DEF AsEdit, NextVersion
<1> QED
  BY <1>1, <1>2, <1>4, <1>5, <1>6, <1>7, <1>8

LEMMA CommitWrites ==
    ASSUME NEW r \in Clients, NEW u, u = working[r], Finish(r)
    PROVE  /\ objects' = {o \in objects : \A n \in u.mine.objects : n.id # o.id} \cup u.mine.objects
           /\ versions' = versions \cup u.mine.versions
           /\ artifacts' = artifacts \cup u.mine.artifacts
           /\ models' = models \cup u.mine.models
           /\ vectors' = vectors \cup u.mine.vectors
           /\ jobs' = IF u.kind = "capture"
                      THEN jobs \cup {[id |-> u.id, status |-> u.status, bytes |-> u.bytes]} ELSE jobs
           /\ working' = [working EXCEPT ![r] = NoWork] /\ stored' = stored /\ received' = received
  BY DEF Finish

(* Objects are replaced or added, never removed. *)
LEMMA IdsAfterCommit ==
    ASSUME CaptureInv, NEW r \in Clients, NEW u, u = working[r], Finish(r)
    PROVE  /\ Ids(objects') = Ids(objects) \cup Ids(u.mine.objects)
           /\ Ids(artifacts') = Ids(artifacts) \cup Ids(u.mine.artifacts)
           /\ Ids(u.mine.objects) \subseteq Ids(objects) \cup {u.id}
           /\ Ids(u.mine.artifacts) \subseteq {u.id}
           /\ Ids(u.mine.versions) = Ids(u.mine.objects)
           /\ Used' \subseteq Used \cup {u.id}
<1>1. Ids(objects') = Ids(objects) \cup Ids(u.mine.objects)
  BY CommitWrites DEF Ids
<1>2. Ids(artifacts') = Ids(artifacts) \cup Ids(u.mine.artifacts)
  BY CommitWrites DEF Ids
<1>3. /\ Ids(u.mine.objects) \subseteq Ids(objects) \cup {u.id} /\ Ids(u.mine.versions) = Ids(u.mine.objects)
  <2>1. CASE NewRow(u)
    BY <2>1 DEF NewRow, Ids
  <2>2. CASE NextVersion(u) /\ u.cko \in Ids(objects)
    BY <2>2 DEF NextVersion, Ids
  <2>3. CASE WritesNothing(u)
    BY <2>3 DEF WritesNothing, Ids
  <2> QED
    BY <2>1, <2>2, <2>3, CommitCases
<1>4. Ids(u.mine.artifacts) \subseteq {u.id}
  <2>1. CASE NewArtifact(u)
    BY <2>1 DEF NewArtifact, Ids
  <2>2. CASE u.mine.artifacts = {}
    BY <2>2 DEF Ids
  <2> QED
    BY <2>1, <2>2, CommitCases
<1>5. Ids(jobs') \subseteq Ids(jobs) \cup {u.id}
  <2>1. PICK j : j = [id |-> u.id, status |-> u.status, bytes |-> u.bytes]
    OBVIOUS
  <2>2. j.id = u.id /\ jobs' \subseteq jobs \cup {j}
    BY <2>1, CommitWrites
  <2> QED
    BY <2>2 DEF Ids
<1>6. models' \subseteq models \cup {u.id}
  BY CommitWrites, CommitCases DEF WritesVectors
<1> QED
  BY <1>1, <1>2, <1>3, <1>4, <1>5, <1>6 DEF Used

LEMMA FinishTypes ==
    ASSUME CaptureInv, NEW r \in Clients, Finish(r)
    PROVE  RowsAreTyped'
<1>0. PICK u : u = working[r]
  OBVIOUS
<1>1. u \in WorkType /\ Started(u) /\ WritesVectors(u)
  BY <1>0, CommitCases
<1>2. u.mine \in WritesType /\ u.id \in Nat /\ u.status \in {"ready", "failed"} /\ u.bytes \in BOOLEAN
  BY <1>1 DEF WorkType
<1>3. objects' \subseteq ObjectType /\ versions' \subseteq ObjectType /\ artifacts' \subseteq ArtifactType
      /\ models' \subseteq Nat
  <2>1. /\ u.mine.objects \subseteq ObjectType /\ u.mine.versions \subseteq ObjectType
        /\ u.mine.artifacts \subseteq ArtifactType /\ u.mine.models \subseteq Nat
    BY <1>2 DEF WritesType
  <2>2. /\ objects \subseteq ObjectType /\ versions \subseteq ObjectType
        /\ artifacts \subseteq ArtifactType /\ models \subseteq Nat
    BY DEF CaptureInv, RowsAreTyped
  <2>3. /\ objects' \subseteq objects \cup u.mine.objects /\ versions' = versions \cup u.mine.versions
        /\ artifacts' = artifacts \cup u.mine.artifacts /\ models' = models \cup u.mine.models
    BY <1>0, CommitWrites
  <2> QED
    BY <2>1, <2>2, <2>3
<1>4. jobs' \subseteq JobType
  <2>1. [id |-> u.id, status |-> u.status, bytes |-> u.bytes] \in JobType
    BY <1>2 DEF JobType
  <2> QED
    BY <2>1, <1>0, CommitWrites DEF CaptureInv, RowsAreTyped
<1>5. IsFiniteSet(models')
  <2>1. models' = models \/ models' = models \cup {u.id}
    <3>1. u.mine.models = {} \/ u.mine.models = {u.id}
      BY <1>1 DEF WritesVectors
    <3>2. models' = models \cup u.mine.models
      BY <1>0, CommitWrites
    <3> QED
      BY <3>1, <3>2
  <2> QED
    BY <2>1, FS_AddElement DEF CaptureInv, RowsAreTyped
<1>6. working' \in [Clients -> WorkType] /\ received' \in Nat
  BY <1>0, CommitWrites, NoWorkType DEF CaptureInv, RowsAreTyped
<1>7. \A n \in Used' : n <= received'
  <2>1. received' = received /\ Used' \subseteq Used \cup {u.id} /\ u.id <= received
    BY <1>0, <1>1, CommitWrites, IdsAfterCommit DEF Started
  <2> QED
    BY <2>1 DEF CaptureInv, RowsAreTyped
<1> QED
  BY <1>3, <1>4, <1>5, <1>6, <1>7 DEF RowsAreTyped

LEMMA FinishRows ==
    ASSUME CaptureInv, NEW r \in Clients, Finish(r)
    PROVE  RowsAgree'
<1>0. PICK u : u = working[r]
  OBVIOUS
<1>1. u \in WorkType /\ Started(u) /\ u.id \notin Ids(objects) /\ u.id \notin Ids(artifacts) /\ u.id \notin Ids(jobs)
  BY <1>0, CommitCases DEF Started, Used
<1>2. PICK job : job = [id |-> u.id, status |-> u.status, bytes |-> u.bytes]
  OBVIOUS
<1>3. /\ job.id = u.id /\ job.status = u.status /\ job.bytes = u.bytes
      /\ jobs' = IF u.kind = "capture" THEN jobs \cup {job} ELSE jobs
  BY <1>0, <1>2, CommitWrites
<1>4. /\ \A o, p \in objects : o.id = p.id => o = p
      /\ \A i, j \in jobs : i.id = j.id => i = j
      /\ \A j \in jobs : j.id \in Ids(objects) <=> j.status = "ready"
      /\ \A j \in jobs : j.status = "ready" /\ j.bytes => \E a \in artifacts : a.id = j.id /\ a.cko = j.id
      /\ \A a \in artifacts : /\ a.cko \in Ids(objects)
                             /\ \A j \in jobs : j.id = a.id => j.status = "ready" /\ j.bytes
  BY DEF CaptureInv, RowsAgree
<1>5. \A i \in jobs : i.id # u.id
  BY <1>1 DEF Ids
<1>6. \A i, j \in jobs' : i.id = j.id => i = j
  BY <1>3, <1>4, <1>5
<1>7. \A o, p \in objects' : o.id = p.id => o = p
  <2>1. \A n, m \in u.mine.objects : n = m
    BY <1>0, CommitCases DEF NewRow, NextVersion, WritesNothing
  <2>2. objects' = {o \in objects : \A n \in u.mine.objects : n.id # o.id} \cup u.mine.objects
    BY <1>0, CommitWrites
  <2> QED
    BY <1>4, <2>1, <2>2
<1>8. ASSUME NEW j \in jobs' PROVE j.id \in Ids(objects') <=> j.status = "ready"
  <2>1. /\ Ids(objects') = Ids(objects) \cup Ids(u.mine.objects)
        /\ Ids(u.mine.objects) \subseteq Ids(objects) \cup {u.id}
    BY <1>0, IdsAfterCommit
  <2>2. CASE j \in jobs
    BY <1>4, <1>5, <2>1, <2>2
  <2>3. CASE j \notin jobs
    <3>1. u.kind = "capture" /\ j = job
      BY <1>3, <1>8, <2>3
    <3>2. CASE u.status = "ready"
      <4>1. NewRow(u)
        BY <1>0, <3>1, <3>2, CommitCases
      <4>2. u.id \in Ids(u.mine.objects)
        BY <4>1 DEF NewRow, Ids
      <4> QED
        BY <1>3, <2>1, <3>1, <3>2, <4>2
    <3>3. CASE u.status # "ready"
      <4>1. WritesNothing(u)
        BY <1>0, <3>1, <3>3, CommitCases
      <4>2. Ids(u.mine.objects) = {}
        BY <4>1 DEF WritesNothing, Ids
      <4> QED
        BY <1>1, <1>3, <2>1, <3>1, <3>3, <4>2
    <3> QED
      BY <3>2, <3>3
  <2> QED
    BY <2>2, <2>3
<1>9. PICK a : a = [id |-> u.id, cko |-> u.cko, text |-> u.text]
  OBVIOUS
<1>10. a.id = u.id /\ a.cko = u.cko /\ artifacts' = artifacts \cup u.mine.artifacts
       /\ (u.mine.artifacts = {} \/ u.mine.artifacts = {a})
  BY <1>0, <1>9, CommitWrites, CommitCases DEF NewArtifact
<1>11. ASSUME NEW j \in jobs', j.status = "ready", j.bytes
       PROVE \E x \in artifacts' : x.id = j.id /\ x.cko = j.id
  <2>1. CASE j \in jobs
    BY <1>4, <1>10, <1>11, <2>1
  <2>2. CASE j \notin jobs
    <3>1. u.kind = "capture" /\ u.status = "ready" /\ u.bytes /\ j = job
      BY <1>3, <1>11, <2>2
    <3>2. u.cko = u.id /\ u.mine.artifacts = {a}
      BY <1>0, <1>9, <3>1, CommitCases DEF NewArtifact
    <3> QED
      BY <1>3, <1>10, <3>1, <3>2
  <2> QED
    BY <2>1, <2>2
<1>12. ASSUME NEW x \in artifacts'
       PROVE  /\ x.cko \in Ids(objects')
              /\ \A j \in jobs' : j.id = x.id => j.status = "ready" /\ j.bytes
  <2>1. Ids(objects) \subseteq Ids(objects') /\ Ids(objects') = Ids(objects) \cup Ids(u.mine.objects)
    BY <1>0, IdsAfterCommit
  <2>2. CASE x \in artifacts
    <3>1. x.id # u.id
      BY <1>1, <2>2 DEF Ids
    <3> QED
      BY <1>3, <1>4, <2>1, <2>2, <3>1
  <2>3. CASE x \notin artifacts
    <3>1. x = a /\ u.mine.artifacts = {a}
      BY <1>10, <2>3
    <3>2. u.cko \in Ids(objects')
      <4>1. CASE NewRow(u) /\ u.cko = u.id
        BY <2>1, <4>1 DEF NewRow, Ids
      <4> QED
        BY <1>0, <2>1, <3>1, <4>1, CommitCases
    <3>3. u.kind = "capture" => u.status = "ready" /\ u.bytes
      BY <1>0, <1>1, <3>1, CommitCases DEF WorkType
    <3> QED
      BY <1>3, <1>5, <1>10, <3>1, <3>2, <3>3
  <2> QED
    BY <2>2, <2>3
<1> QED
  BY <1>6, <1>7, <1>8, <1>11, <1>12 DEF RowsAgree

LEMMA FinishBytes ==
    ASSUME CaptureInv, NEW r \in Clients, Finish(r)
    PROVE  RowsHaveBytes'
<1>0. PICK u : u = working[r]
  OBVIOUS
<1>1. /\ \A a \in u.mine.artifacts : a.id \in stored
      /\ artifacts' = artifacts \cup u.mine.artifacts /\ stored' = stored
  <2>1. CASE NewArtifact(u)
    <3>1. \A a \in u.mine.artifacts : a.id = u.id
      BY <2>1 DEF NewArtifact
    <3>2. u.id \in stored
      BY <2>1 DEF NewArtifact
    <3> QED
      BY <1>0, <3>1, <3>2, CommitWrites
  <2>2. CASE u.mine.artifacts = {}
    BY <1>0, <2>2, CommitWrites
  <2> QED
    BY <1>0, <2>1, <2>2, CommitCases
<1> QED
  BY <1>1 DEF CaptureInv, RowsHaveBytes

LEMMA FinishHistory ==
    ASSUME CaptureInv, NEW r \in Clients, Finish(r)
    PROVE  HistoryAgrees'
<1>0. PICK u : u = working[r]
  OBVIOUS
<1>1. u.id \notin Ids(objects)
  BY <1>0, CommitCases DEF Started, Used
<1>2. /\ Ids(versions) \subseteq Ids(objects)
      /\ \A v, w \in versions : v.id = w.id /\ v.version = w.version => v = w
      /\ \A o \in objects : /\ \A n \in 1 .. o.version : \E v \in versions : v.id = o.id /\ v.version = n
                            /\ \A v \in versions : v.id = o.id => v.version <= o.version
                            /\ o.version > 1 => o \in versions
      /\ \A o, p \in objects : o.id = p.id => o = p
  BY DEF CaptureInv, HistoryAgrees, RowsAgree
<1>3. /\ objects' = {o \in objects : \A n \in u.mine.objects : n.id # o.id} \cup u.mine.objects
      /\ versions' = versions \cup u.mine.versions
  BY <1>0, CommitWrites
<1>4. objects \subseteq ObjectType /\ versions \subseteq ObjectType
  BY DEF CaptureInv, RowsAreTyped
<1>5. Ids(versions') \subseteq Ids(objects')
  <2>1. Ids(versions') = Ids(versions) \cup Ids(u.mine.versions)
    BY <1>3 DEF Ids
  <2> QED
    BY <2>1, <1>0, <1>2, IdsAfterCommit
<1>6. CASE WritesNothing(u)
  <2>1. objects' = objects /\ versions' = versions
    BY <1>3, <1>6 DEF WritesNothing
  <2> QED
    BY <2>1 DEF CaptureInv, HistoryAgrees
<1>7. CASE NewRow(u)
  <2>1. PICK new, row \in ObjectType : /\ u.mine.objects = {row} /\ u.mine.versions = {new}
                                       /\ new.id = u.id /\ row.id = u.id
                                       /\ new.version = 1 /\ row.version = 1
    BY <1>7 DEF NewRow
  <2>2. \A v \in versions : v.id # u.id
    BY <1>1, <1>2 DEF Ids
  <2>3. \A o \in objects : o.id # u.id
    BY <1>1 DEF Ids
  <2>4. versions' = versions \cup {new} /\ objects' = objects \cup {row}
    BY <1>3, <2>1, <2>3
  <2>5. \A v, w \in versions' : v.id = w.id /\ v.version = w.version => v = w
    BY <1>2, <2>1, <2>2, <2>4
  <2>6. ASSUME NEW o \in objects'
        PROVE  /\ \A n \in 1 .. o.version : \E v \in versions' : v.id = o.id /\ v.version = n
               /\ \A v \in versions' : v.id = o.id => v.version <= o.version
               /\ o.version > 1 => o \in versions'
    <3>1. CASE o \in objects
      BY <1>2, <2>1, <2>3, <2>4, <3>1
    <3>2. CASE o = row
      <4>1. \A n \in 1 .. o.version : n = 1
        BY <2>1, <3>2
      <4> QED
        BY <2>1, <2>2, <2>4, <3>2, <4>1
    <3> QED
      BY <2>4, <3>1, <3>2
  <2> QED
    BY <1>5, <2>5, <2>6 DEF HistoryAgrees
<1>8. CASE NextVersion(u)
  <2>1. PICK new \in ObjectType : /\ u.mine.objects = {new} /\ u.mine.versions = {new} /\ new.id = u.cko
                                  /\ \E o \in objects : o.id = u.cko /\ new.version = o.version + 1
    BY <1>8 DEF NextVersion
  <2>2. PICK old \in objects : old.id = u.cko /\ new.version = old.version + 1
    BY <2>1
  <2>3. old.version \in Nat \ {0} /\ new.version \in Nat
    BY <1>4, <2>2 DEF ObjectType
  <2>4. versions' = versions \cup {new} /\ objects' = {o \in objects : o.id # u.cko} \cup {new}
    BY <1>3, <2>1
  <2>5. \A v \in versions : v.id = u.cko => v.version # new.version /\ v.version <= new.version
    <3>1. ASSUME NEW v \in versions, v.id = u.cko PROVE v.version # new.version /\ v.version <= new.version
      <4>1. v.version <= old.version /\ v.version \in Nat
        BY <1>2, <1>4, <2>2, <3>1 DEF ObjectType
      <4> QED
        BY <4>1, <2>2, <2>3
    <3> QED
      BY <3>1
  <2>6. \A v, w \in versions' : v.id = w.id /\ v.version = w.version => v = w
    BY <1>2, <2>1, <2>4, <2>5
  <2>7. ASSUME NEW o \in objects'
        PROVE  /\ \A n \in 1 .. o.version : \E v \in versions' : v.id = o.id /\ v.version = n
               /\ \A v \in versions' : v.id = o.id => v.version <= o.version
               /\ o.version > 1 => o \in versions'
    <3>1. CASE o \in objects /\ o.id # u.cko
      BY <1>2, <2>1, <2>4, <3>1
    <3>2. CASE o = new
      <4>1. ASSUME NEW n \in 1 .. o.version PROVE \E v \in versions' : v.id = o.id /\ v.version = n
        <5>1. CASE n = new.version
          BY <2>4, <3>2, <5>1
        <5>2. CASE n # new.version
          <6>1. n \in 1 .. old.version
            BY <2>2, <2>3, <3>2, <4>1, <5>2
          <6>2. PICK v \in versions : v.id = old.id /\ v.version = n
            BY <1>2, <6>1
          <6> QED
            BY <2>1, <2>2, <2>4, <3>2, <6>2
        <5> QED
          BY <5>1, <5>2
      <4>2. \A v \in versions' : v.id = o.id => v.version <= o.version
        BY <2>1, <2>3, <2>4, <2>5, <3>2
      <4> QED
        BY <2>4, <3>2, <4>1, <4>2
    <3> QED
      BY <2>4, <3>1, <3>2
  <2> QED
    BY <1>5, <2>6, <2>7 DEF HistoryAgrees
<1> QED
  BY <1>0, <1>6, <1>7, <1>8, CommitCases

LEMMA FinishIndex ==
    ASSUME CaptureInv, NEW r \in Clients, Finish(r)
    PROVE  IndexAgrees'
<1>0. PICK u : u = working[r]
  OBVIOUS
<1>1. /\ artifacts' = artifacts \cup u.mine.artifacts /\ models' = models \cup u.mine.models
      /\ vectors' = vectors \cup u.mine.vectors
  BY <1>0, CommitWrites
<1>2. TextIds(artifacts') = TextIds(artifacts \cup u.mine.artifacts) /\ TextIds(artifacts) \subseteq TextIds(artifacts')
  BY <1>1 DEF TextIds
<1>3. \A k \in vectors' : k[1] \in TextIds(artifacts') /\ k[2] \in models'
  <2>1. \A k \in vectors : k[1] \in TextIds(artifacts) /\ k[2] \in models
    BY DEF CaptureInv, IndexAgrees
  <2>2. \A k \in u.mine.vectors : k[1] \in TextIds(artifacts \cup u.mine.artifacts) /\ k[2] \in models \cup u.mine.models
    BY <1>0, CommitCases DEF WritesVectors
  <2> QED
    BY <1>1, <1>2, <2>1, <2>2
<1>4. ASSUME NEW f \in TextIds(artifacts') PROVE \E m \in models' : <<f, m>> \in vectors'
  <2>1. CASE f \in TextIds(artifacts)
    BY <1>1, <2>1 DEF CaptureInv, IndexAgrees
  <2>2. CASE f \notin TextIds(artifacts)
    <3>1. PICK a \in u.mine.artifacts : a.text /\ a.id = f
      BY <1>1, <1>4, <2>2 DEF TextIds
    <3>2. NewArtifact(u)
      BY <1>0, <3>1, CommitCases
    <3>3. u.text /\ f = u.id
      BY <3>1, <3>2 DEF NewArtifact
    <3> QED
      BY <1>1, <3>2, <3>3 DEF NewArtifact
  <2> QED
    BY <2>1, <2>2
<1> QED
  BY <1>3, <1>4 DEF IndexAgrees

(* What one commits leaves the others what they were doing. *)
LEMMA FinishWork ==
    ASSUME CaptureInv, NEW r \in Clients, Finish(r)
    PROVE  WorkAgrees'
<1>0. PICK u : u = working[r]
  OBVIOUS
<1>1. /\ u \in WorkType /\ Started(u) /\ u.at # "idle" /\ u.id \notin Ids(objects)
  BY <1>0, CommitCases DEF Started, Used
<1>2. /\ working \in [Clients -> WorkType] /\ working' = [working EXCEPT ![r] = NoWork]
      /\ artifacts' = artifacts \cup u.mine.artifacts /\ models' = models \cup u.mine.models
      /\ vectors' = vectors \cup u.mine.vectors /\ stored' = stored /\ received' = received
      /\ objects' = {o \in objects : \A n \in u.mine.objects : n.id # o.id} \cup u.mine.objects
  BY <1>0, CommitWrites DEF CaptureInv, RowsAreTyped
<1>3. \A q \in Clients : working'[q] = IF q = r THEN NoWork ELSE working[q]
  BY <1>2
<1>4. ASSUME NEW q \in Clients \ {r} PROVE WorkOK(working[q])'
  <2>0. PICK v : v = working[q]
    OBVIOUS
  <2>1. v \in WorkType /\ WorkOK(v) /\ Apart(v, u) /\ working'[q] = v
    BY <1>0, <1>3, <2>0, ApartFrom
  <2>2. CASE v = NoWork
    BY <2>1, <2>2 DEF WorkOK
  <2>3. CASE v # NoWork
    <3>1. Started(v) /\ WritesVectors(v) /\ v.at # "idle"
      BY <2>1, <2>3 DEF WorkOK, Started
    <3>2. v.id # u.id /\ v.holds \cap u.holds = {} /\ v.mine.vectors \cap u.mine.vectors = {}
      BY <1>1, <2>1, <3>1 DEF Apart
    <3>3. Started(v)'
      <4>1. Used' \subseteq Used \cup {u.id}
        BY <1>0, IdsAfterCommit
      <4> QED
        BY <1>2, <3>1, <3>2, <4>1 DEF Started
    <3>4. WritesVectors(v)'
      <4>1. TextIds(artifacts \cup v.mine.artifacts) \subseteq TextIds(artifacts' \cup v.mine.artifacts)
        BY <1>2 DEF TextIds
      <4> QED
        BY <1>2, <3>1, <3>2, <4>1 DEF WritesVectors
    <3>5. WritesArtifact(v) => WritesArtifact(v)'
      BY <1>2 DEF WritesArtifact
    <3>6. Ids(objects) \subseteq Ids(objects')
      BY <1>0, IdsAfterCommit
    <3>7. AsEdit(v) => AsEdit(v)'
      <4>1. SUFFICES ASSUME AsEdit(v) PROVE AsEdit(v)'
        OBVIOUS
      <4>2. CASE v.at = "edit"
        BY <4>1, <4>2, <3>6 DEF AsEdit, WritesNothing
      <4>3. CASE v.at # "edit"
        <5>1. PICK new \in ObjectType : /\ v.mine.objects = {new} /\ v.mine.versions = {new} /\ new.id = v.cko
                                        /\ \E o \in objects : o.id = v.cko /\ new.version = o.version + 1
          BY <4>1, <4>3 DEF AsEdit
        <5>2. v.at = "commit" /\ v.holds = {v.cko} /\ v.kind = "edit" /\ v.cko \in Ids(objects) /\ v.mine.artifacts = {}
          BY <4>1, <4>3 DEF AsEdit
        <5>3. PICK o \in objects : o.id = v.cko /\ new.version = o.version + 1
          BY <5>1
        <5>4. \A n \in u.mine.objects : n.id # o.id
          <6>1. CASE NewRow(u)
            BY <1>1, <5>3, <6>1 DEF NewRow, Ids
          <6>2. CASE NextVersion(u)
            BY <3>2, <5>2, <5>3, <6>2 DEF NextVersion
          <6>3. CASE WritesNothing(u)
            BY <6>3 DEF WritesNothing
          <6> QED
            BY <1>0, <6>1, <6>2, <6>3, CommitCases
        <5>5. o \in objects'
          BY <1>2, <5>3, <5>4
        <5> QED
          BY <3>6, <5>1, <5>2, <5>3, <5>5 DEF AsEdit
      <4> QED
        BY <4>2, <4>3
    <3>8. AsCapture(v) => AsCapture(v)'
      BY <3>5 DEF AsCapture
    <3>9. AsUpload(v) => AsUpload(v)'
      BY <3>5, <3>6 DEF AsUpload, WritesNothing
    <3>10. (AsFailed(v) => AsFailed(v)') /\ (AsReindex(v) => AsReindex(v)')
      BY DEF AsFailed, AsReindex, WritesNothing
    <3>11. WorkOK(v)'
      BY <2>1, <2>3, <3>3, <3>4, <3>7, <3>8, <3>9, <3>10 DEF WorkOK
    <3> QED
      BY <2>1, <3>11
  <2> QED
    BY <2>2, <2>3
<1>5. WorkOK(working[r])'
  BY <1>3 DEF WorkOK
<1>6. \A p \in Clients : \A q \in Clients \ {p} : Apart(working'[q], working'[p])
  <2>1. \A p \in Clients : \A q \in Clients \ {p} : Apart(working[q], working[p])
    BY DEF CaptureInv, WorkAgrees
  <2>2. \A v : Apart(v, NoWork) /\ Apart(NoWork, v)
    BY NoWorkType DEF Apart
  <2> QED
    BY <1>3, <2>1, <2>2
<1> QED
  BY <1>4, <1>5, <1>6 DEF WorkAgrees

-----------------------------------------------------------------------------
LEMMA CaptureInitInv == CaptureInit => CaptureInv
<1> SUFFICES ASSUME CaptureInit PROVE CaptureInv
  OBVIOUS
<1>1. /\ objects = {} /\ versions = {} /\ artifacts = {} /\ models = {} /\ jobs = {} /\ vectors = {}
      /\ received = 0 /\ working = [r \in Clients |-> NoWork]
  BY DEF CaptureInit
<1>2. RowsAreTyped
  <2>1. Used = {}
    BY <1>1 DEF Used, Ids
  <2> QED
    BY <1>1, <2>1, NoWorkType, FS_EmptySet DEF RowsAreTyped
<1>3. RowsAgree /\ HistoryAgrees /\ IndexAgrees /\ RowsHaveBytes
  BY <1>1 DEF RowsAgree, HistoryAgrees, IndexAgrees, RowsHaveBytes, Ids, TextIds
<1>4. WorkAgrees
  BY <1>1, NoWorkType DEF WorkAgrees, WorkOK, Apart
<1> QED
  BY <1>2, <1>3, <1>4 DEF CaptureInv

LEMMA Stutter == ASSUME CaptureInv, UNCHANGED captureVars PROVE CaptureInv'
<1>1. UNCHANGED CaptureRows /\ received' = received /\ stored' = stored /\ working' = working
  BY DEF captureVars, CaptureRows
<1>2. received \in Nat /\ working \in [Clients -> WorkType]
  BY DEF CaptureInv, RowsAreTyped
<1>3. RowsAreTyped'
  <2>1. Used' = Used
    BY <1>1 DEF Used, CaptureRows
  <2> QED
    BY <1>1, <2>1 DEF CaptureInv, RowsAreTyped, CaptureRows
<1>4. RowsAgree'
  BY <1>1 DEF CaptureInv, RowsAgree, CaptureRows
<1>5. HistoryAgrees'
  BY <1>1 DEF CaptureInv, HistoryAgrees, CaptureRows
<1>6. IndexAgrees' /\ RowsHaveBytes'
  <2>1. IndexAgrees'
    BY <1>1 DEF CaptureInv, IndexAgrees, CaptureRows
  <2>2. RowsHaveBytes'
    BY <1>1 DEF CaptureInv, RowsHaveBytes, CaptureRows
  <2> QED
    BY <2>1, <2>2
<1>7. ASSUME NEW q \in Clients PROVE WorkOK(working[q])'
  <2>1. PICK v \in WorkType : v = working[q]
    BY <1>2
  <2>2. WorkOK(v)
    BY <2>1 DEF CaptureInv, WorkAgrees
  <2>3. received <= received' /\ stored \subseteq stored' /\ received' \in Nat
    BY <1>1, <1>2
  <2>4. WorkOK(v)'
    BY <2>2, <2>3, <1>1, <1>2, WorkStaysOK
  <2>5. working'[q] = v
    BY <2>1, <1>1
  <2> QED
    BY <2>4, <2>5
<1>8. \A p \in Clients : \A q \in Clients \ {p} : Apart(working'[q], working'[p])
  <2>1. \A p \in Clients : \A q \in Clients \ {p} : Apart(working[q], working[p])
    BY DEF CaptureInv, WorkAgrees
  <2> QED
    BY <1>1, <2>1
<1>9. WorkAgrees'
  BY <1>7, <1>8 DEF WorkAgrees
<1> QED
  BY <1>3, <1>4, <1>5, <1>6, <1>9 DEF CaptureInv

LEMMA CaptureStepInv == CaptureInv /\ [CaptureNext]_captureVars => CaptureInv'
<1> SUFFICES ASSUME CaptureInv, [CaptureNext]_captureVars PROVE CaptureInv'
  OBVIOUS
<1>1. CASE UNCHANGED captureVars
  BY <1>1, Stutter
<1>2. ASSUME NEW r \in Clients, NEW hasNote \in BOOLEAN, NEW kept \in Payloads,
             BeginCapture(r, hasNote, kept) \/ BeginObject(r, kept)
      PROVE  CaptureInv'
  BY <1>2, CaptureBegins
<1>3. ASSUME NEW r \in Clients, NEW o \in {x.id : x \in objects},
             \/ \E text \in BOOLEAN : BeginUpload(r, o, text)
             \/ \E fields \in {{"title"}, {"note"}} : BeginEdit(r, o, fields)
             \/ BeginReindex(r, o)
      PROVE  CaptureInv'
  <2>1. o \in Ids(objects) /\ o \in Ids(objects) \cup {0}
    BY DEF Ids
  <2>2. TRUE \in BOOLEAN /\ {"title"} \in {{"title"}, {"note"}}
    OBVIOUS
  <2> QED
    BY <1>3, <2>1, <2>2, OtherBegins
<1>4. ASSUME NEW r \in Clients, BeginReindex(r, 0) PROVE CaptureInv'
  <2>1. TRUE \in BOOLEAN /\ {"title"} \in {{"title"}, {"note"}} /\ 0 \in Ids(objects) \cup {0}
    OBVIOUS
  <2> QED
    BY <1>4, <2>1, OtherBegins
<1>5. ASSUME NEW r \in Clients, FailWork(r) \/ Vanish(r) PROVE CaptureInv'
  BY <1>5, FailStep, WorkEnds DEF FailWork, Vanish
<1>6. ASSUME NEW r \in Clients, Finish(r) PROVE CaptureInv'
  BY <1>6, FinishTypes, FinishRows, FinishBytes, FinishHistory, FinishIndex, FinishWork DEF CaptureInv
<1> QED
  BY <1>1, <1>2, <1>3, <1>4, <1>5, <1>6, StoreStep, RowsStep, SelectModelStep, SelectMissingStep, EmbedStep, EditStep
     DEF CaptureNext

(* Retrieval comes upon an indexed text once for each row of the model that *)
(* it has a vector of.                                                      *)
LEMMA TextsAreFound == CaptureInv => FragmentsAreFound
<1> SUFFICES ASSUME CaptureInv, NEW a \in artifacts, a.text
             PROVE  TimesFound(a.id) \in 1 .. Cardinality(models)
  BY DEF FragmentsAreFound
<1>1. a.id \in TextIds(artifacts) /\ IsFiniteSet(models)
  BY DEF TextIds, CaptureInv, RowsAreTyped
<1>2. PICK m \in models : <<a.id, m>> \in vectors
  BY <1>1 DEF CaptureInv, IndexAgrees
<1> DEFINE found == {x \in models : <<a.id, x>> \in vectors}
<1>3. found \in SUBSET models /\ found # {}
  BY <1>2
<1> HIDE DEF found
<1>4. IsFiniteSet(found) /\ Cardinality(found) <= Cardinality(models)
  BY <1>1, <1>3, FS_Subset
<1>5. Cardinality(found) \in Nat /\ Cardinality(models) \in Nat /\ Cardinality(found) # 0
  BY <1>1, <1>3, <1>4, FS_CardinalityType, FS_EmptySet
<1>6. TimesFound(a.id) = Cardinality(found)
  BY DEF TimesFound, found
<1> QED
  BY <1>4, <1>5, <1>6

LEMMA VersionsAreKept == CaptureInv => EveryVersionIsKept
<1> SUFFICES ASSUME CaptureInv, NEW o \in objects
             PROVE  /\ \A n \in 1 .. o.version : Cardinality({v \in versions : v.id = o.id /\ v.version = n}) = 1
                    /\ \A v \in versions : v.id = o.id => v.version <= o.version
                    /\ o.version > 1 => o \in versions
  BY DEF EveryVersionIsKept
<1>1. ASSUME NEW n \in 1 .. o.version PROVE Cardinality({v \in versions : v.id = o.id /\ v.version = n}) = 1
  <2>1. PICK w \in versions : w.id = o.id /\ w.version = n
    BY <1>1 DEF CaptureInv, HistoryAgrees
  <2>2. {v \in versions : v.id = o.id /\ v.version = n} = {w}
    BY <2>1 DEF CaptureInv, HistoryAgrees
  <2>3. Cardinality({w}) = 1
    BY FS_Singleton
  <2> QED
    BY <2>2, <2>3
<1> QED
  BY <1>1 DEF CaptureInv, HistoryAgrees

LEMMA InboxIsTrue == CaptureInv => InboxTellsTheTruth
<1> SUFFICES ASSUME CaptureInv, NEW j \in jobs
             PROVE  LET left == \E a \in artifacts : a.id = j.id /\ a.cko = j.id IN
                    IF j.status = "ready" THEN j.id \in {o.id : o \in objects} /\ (left <=> j.bytes)
                    ELSE /\ j.id \notin {o.id : o \in objects \cup versions}
                         /\ \A a \in artifacts : a.id # j.id /\ a.cko # j.id
  BY DEF InboxTellsTheTruth
<1>1. /\ j.id \in Ids(objects) <=> j.status = "ready"
      /\ j.status = "ready" /\ j.bytes => \E a \in artifacts : a.id = j.id /\ a.cko = j.id
      /\ \A a \in artifacts : a.cko \in Ids(objects) /\ (a.id = j.id => j.status = "ready" /\ j.bytes)
  BY DEF CaptureInv, RowsAgree
<1>2. j.id \in Ids(versions) => j.id \in Ids(objects)
  BY DEF CaptureInv, HistoryAgrees
<1>3. /\ {o.id : o \in objects} = Ids(objects)
      /\ {o.id : o \in objects \cup versions} = Ids(objects) \cup Ids(versions)
  BY DEF Ids
<1>4. j.bytes \in BOOLEAN
  BY DEF CaptureInv, RowsAreTyped, JobType
<1>5. CASE j.status = "ready"
  BY <1>1, <1>3, <1>4, <1>5
<1>6. CASE j.status # "ready"
  BY <1>1, <1>2, <1>3, <1>6
<1> QED
  BY <1>5, <1>6

(* A capture is there as a whole or not at all, in the inbox, the rows, the *)
(* storage, the history and the index, whichever step fails and whatever    *)
(* overlaps, for any number of requests at once.                            *)
THEOREM WholeOrNotAtAll == CaptureSpec => []CapturesAreWhole
<1>1. CaptureInv => CapturesAreWhole
  BY TextsAreFound, VersionsAreKept, InboxIsTrue DEF CapturesAreWhole, CaptureInv
<1> QED
  BY <1>1, CaptureInitInv, CaptureStepInv, PTL DEF CaptureSpec

-----------------------------------------------------------------------------
(* WorkspaceGraph: what is said at home                                    *)

LinksLeadHome == \A l \in links : ObjectOf(l) \in Objects

LEMMA HomeIsNotNode == \A w \in Homes : w # EntireNode
  BY HomesAssumption

LEMMA ObjectsAtHome == \A w \in Homes : \A o : o \in ObjectsOf(w) <=> o \in Objects /\ HomeOf[o] = w
  BY HomeIsNotNode DEF ObjectsOf

LEMMA HereIsHome ==
    ASSUME LinksLeadHome, NEW w \in Homes, NEW l \in links
    PROVE  ObjectOf(l) \in ObjectsOf(w) <=> HomeOf[ObjectOf(l)] = w
  BY ObjectsAtHome DEF LinksLeadHome

\* What is said at w, of all that is said.
LEMMA SaidHere ==
    ASSUME NEW w \in Homes, NEW k
    PROVE  /\ k \in SaidAt(w).relations <=> k \in Said.relations /\ SaidIn(Said, k, w)
           /\ SaidIn(SaidAt(w), k, w) <=> SaidIn(Said, k, w)
<1>1. w # EntireNode
  BY HomeIsNotNode
<1>2. SaidIn(Said, k, w) <=> \E l \in links : l[1] = k /\ HomeOf[ObjectOf(l)] = w
  BY <1>1 DEF SaidIn, Said
<1>3. SaidAt(w).links = {l \in links : HomeOf[ObjectOf(l)] = w}
  BY DEF SaidAt
<1>4. SaidIn(SaidAt(w), k, w) <=> \E l \in links : l[1] = k /\ HomeOf[ObjectOf(l)] = w
  BY <1>1, <1>3 DEF SaidIn
<1>5. SaidAt(w).relations = {x \in Said.relations : \E l \in {y \in links : HomeOf[ObjectOf(y)] = w} : l[1] = x}
  BY DEF SaidAt
<1> QED
  BY <1>2, <1>4, <1>5

LEMMA ListSame == ASSUME NEW w \in Homes PROVE EntityList(SaidAt(w), w) = EntityList(Said, w)
<1> DEFINE Of(d, e) == {k \in d.relations : e \in Ends(k) /\ SaidIn(d, k, w)}
           All(d) == UNION {Ends(k) : k \in d.relations}
<1>1. \A e : Of(SaidAt(w), e) = Of(Said, e)
  BY SaidHere
<1>2. \A d : EntityList(d, w) = {<<e, Cardinality(Of(d, e))>> : e \in {x \in All(d) : Of(d, x) # {}}}
  BY DEF EntityList
<1>3. \A d : \A e : Of(d, e) # {} => e \in All(d)
  OBVIOUS
<1>4. {x \in All(SaidAt(w)) : Of(SaidAt(w), x) # {}} = {x \in All(Said) : Of(Said, x) # {}}
  BY <1>1, <1>3
<1> HIDE DEF Of, All
<1> QED
  BY <1>1, <1>2, <1>4

LEMMA ClaimsSame ==
    ASSUME LinksLeadHome, NEW w \in Homes, NEW e
    PROVE  EntityClaims(SaidAt(w), w, e) = EntityClaims(Said, w, e)
<1> DEFINE Evident(d, k) == {ObjectOf(l) : l \in {x \in d.links : x[1] = k}} \cap ObjectsOf(w)
           Of(d) == {r \in d.relations : e \in Ends(r) /\ SaidIn(d, r, w)}
<1>1. Of(SaidAt(w)) = Of(Said)
  BY SaidHere
<1>2. SaidAt(w).links = {l \in links : HomeOf[ObjectOf(l)] = w} /\ Said.links = links
  BY DEF SaidAt, Said
<1>3. \A k : Evident(SaidAt(w), k) = Evident(Said, k)
  BY <1>2, HereIsHome
<1>4. \A d : EntityClaims(d, w, e) = {[claim |-> k, objects |-> Evident(d, k)] : k \in Of(d)}
  BY DEF EntityClaims
<1> HIDE DEF Evident, Of
<1> QED
  BY <1>1, <1>3, <1>4

LEMMA GraphSame == ASSUME NEW w \in Homes PROVE Graph(SaidAt(w), w) = Graph(Said, w)
<1> DEFINE Edges(d) == {k \in d.relations : SaidIn(d, k, w)}
<1>1. Edges(SaidAt(w)) = Edges(Said)
  BY SaidHere
<1>2. \A d : Graph(d, w) = [edges |-> Edges(d), nodes |-> UNION {Ends(k) : k \in Edges(d)}]
  BY DEF Graph
<1> HIDE DEF Edges
<1> QED
  BY <1>1, <1>2

LEMMA LocalSame ==
    ASSUME LinksLeadHome, NEW w \in Homes
    PROVE  LocalGraph(SaidAt(w), w, Objects) = LocalGraph(Said, w, Objects)
<1> DEFINE Shown(d) == {x \in d.links : x[1] \in d.relations /\ ObjectOf(x) \in ObjectsOf(w) \cap Objects}
<1>1. SaidAt(w).links = {l \in links : HomeOf[ObjectOf(l)] = w} /\ Said.links = links
  BY DEF SaidAt, Said
<1>2. \A l \in links : HomeOf[ObjectOf(l)] = w => SaidIn(Said, l[1], w)
  BY DEF SaidIn, Said
<1>3. Shown(SaidAt(w)) = Shown(Said)
  BY <1>1, <1>2, HereIsHome, SaidHere
<1>4. \A d : LocalGraph(d, w, Objects) = {[claim |-> l[1], fragment |-> l[2], object |-> ObjectOf(l)] : l \in Shown(d)}
  BY DEF LocalGraph
<1> HIDE DEF Shown
<1> QED
  BY <1>3, <1>4

LEMMA ObjectsSame ==
    ASSUME LinksLeadHome, NEW w \in Homes, NEW o \in ObjectsOf(w)
    PROVE  ObjectClaims(SaidAt(w), o) = ObjectClaims(Said, o)
<1>1. SaidAt(w).links = {l \in links : HomeOf[ObjectOf(l)] = w} /\ Said.links = links
  BY DEF SaidAt, Said
<1>2. HomeOf[o] = w
  BY ObjectsAtHome
<1> QED
  BY <1>1, <1>2 DEF ObjectClaims

(* A session is shown what it would be shown if nothing else had been said. *)
LEMMA SeenAtHome == LinksLeadHome => NothingSeenFromOutside
<1> SUFFICES ASSUME LinksLeadHome, NEW w \in Homes PROVE Seen(Said, w) = Seen(SaidAt(w), w)
  BY DEF NothingSeenFromOutside
<1>1. [o \in ObjectsOf(w) |-> ObjectClaims(SaidAt(w), o)] = [o \in ObjectsOf(w) |-> ObjectClaims(Said, o)]
  BY ObjectsSame
<1>2. EntityList(SaidAt(w), w) = EntityList(Said, w)
  BY ListSame
<1>3. [e \in {x[1] : x \in EntityList(SaidAt(w), w)} |-> EntityClaims(SaidAt(w), w, e)]
        = [e \in {x[1] : x \in EntityList(Said, w)} |-> EntityClaims(Said, w, e)]
  BY <1>2, ClaimsSame
<1>4. Graph(SaidAt(w), w) = Graph(Said, w) /\ LocalGraph(SaidAt(w), w, Objects) = LocalGraph(Said, w, Objects)
  BY GraphSame, LocalSame
<1> QED
  BY <1>1, <1>2, <1>3, <1>4, Zenon DEF Seen

LEMMA SeenLeadsHome == LinksLeadHome => WhatIsSeenLeadsHome
<1> SUFFICES ASSUME LinksLeadHome, NEW w \in Homes
             PROVE  LET graph == Graph(Said, w)
                        Edges(e) == {k \in graph.edges : e \in Ends(k)} IN
                    /\ EntityList(Said, w) = {<<e, Cardinality(Edges(e))>> : e \in graph.nodes}
                    /\ \A e \in graph.nodes : /\ {c.claim : c \in EntityClaims(Said, w, e)} = Edges(e)
                                              /\ \A c \in EntityClaims(Said, w, e) :
                                                    /\ c.objects # {} /\ c.objects \subseteq ObjectsOf(w)
                                                    /\ \A o \in c.objects : c.claim \in ObjectClaims(Said, o)
                    /\ {x.claim : x \in LocalGraph(Said, w, Objects)} = graph.edges
  BY DEF WhatIsSeenLeadsHome
<1> DEFINE graph == Graph(Said, w)
           Edges(e) == {k \in graph.edges : e \in Ends(k)}
           Of(e) == {k \in Said.relations : e \in Ends(k) /\ SaidIn(Said, k, w)}
           All == UNION {Ends(k) : k \in Said.relations}
<1>1. /\ graph.edges = {k \in Said.relations : SaidIn(Said, k, w)}
      /\ graph.nodes = UNION {Ends(k) : k \in graph.edges}
  BY DEF Graph
<1>2. \A e : Of(e) = Edges(e)
  BY <1>1
<1>3. EntityList(Said, w) = {<<e, Cardinality(Edges(e))>> : e \in graph.nodes}
  <2>1. {x \in All : Of(x) # {}} = graph.nodes
    BY <1>1
  <2>2. EntityList(Said, w) = {<<e, Cardinality(Of(e))>> : e \in {x \in All : Of(x) # {}}}
    BY DEF EntityList
  <2> HIDE DEF Of, Edges, graph, All
  <2> QED
    BY <2>1, <2>2, <1>2
<1>4. \A k : SaidIn(Said, k, w) <=> \E l \in links : l[1] = k /\ HomeOf[ObjectOf(l)] = w
  BY HomeIsNotNode DEF SaidIn, Said
<1>5. ASSUME NEW e \in graph.nodes
      PROVE  /\ {c.claim : c \in EntityClaims(Said, w, e)} = Edges(e)
             /\ \A c \in EntityClaims(Said, w, e) :
                   /\ c.objects # {} /\ c.objects \subseteq ObjectsOf(w)
                   /\ \A o \in c.objects : c.claim \in ObjectClaims(Said, o)
  <2> DEFINE Evident(k) == {ObjectOf(l) : l \in {x \in links : x[1] = k}} \cap ObjectsOf(w)
  <2>1. EntityClaims(Said, w, e) = {[claim |-> k, objects |-> Evident(k)] : k \in Of(e)}
    BY DEF EntityClaims, Said
  <2>2. {c.claim : c \in EntityClaims(Said, w, e)} = Of(e)
    <3> DEFINE Shown(k) == [claim |-> k, objects |-> Evident(k)]
    <3>1. \A k : Shown(k).claim = k
      OBVIOUS
    <3>2. EntityClaims(Said, w, e) = {Shown(k) : k \in Of(e)}
      BY <2>1
    <3> HIDE DEF Evident, Of, Shown
    <3> QED
      BY <3>1, <3>2
  <2>3. ASSUME NEW k \in Of(e)
        PROVE  Evident(k) # {} /\ \A o \in Evident(k) : k \in ObjectClaims(Said, o)
    <3>1. SaidIn(Said, k, w)
      OBVIOUS
    <3>2. PICK l \in links : l[1] = k /\ HomeOf[ObjectOf(l)] = w
      BY <3>1, <1>4
    <3>3. ObjectOf(l) \in ObjectsOf(w)
      BY <3>2, HereIsHome
    <3>4. ObjectOf(l) \in Evident(k)
      BY <3>2, <3>3
    <3>5. \A o \in Evident(k) : k \in ObjectClaims(Said, o)
      BY DEF ObjectClaims, Said
    <3> HIDE DEF Evident
    <3> QED
      BY <3>4, <3>5
  <2>4. \A k : Evident(k) \subseteq ObjectsOf(w)
    OBVIOUS
  <2>5. ASSUME NEW c \in EntityClaims(Said, w, e)
        PROVE  /\ c.objects # {} /\ c.objects \subseteq ObjectsOf(w)
               /\ \A o \in c.objects : c.claim \in ObjectClaims(Said, o)
    <3> HIDE DEF Evident, Of
    <3>1. PICK k \in Of(e) : c = [claim |-> k, objects |-> Evident(k)]
      BY <2>1
    <3> QED
      BY <3>1, <2>3, <2>4
  <2> HIDE DEF Of, Edges
  <2> QED
    BY <2>2, <2>5, <1>2
<1>6. {x.claim : x \in LocalGraph(Said, w, Objects)} = graph.edges
  <2> DEFINE Shown == {x \in links : x[1] \in Said.relations /\ ObjectOf(x) \in ObjectsOf(w) \cap Objects}
  <2>1. LocalGraph(Said, w, Objects) = {[claim |-> l[1], fragment |-> l[2], object |-> ObjectOf(l)] : l \in Shown}
    BY DEF LocalGraph, Said
  <2>2. {x.claim : x \in LocalGraph(Said, w, Objects)} = {l[1] : l \in Shown}
    <3> DEFINE Row(l) == [claim |-> l[1], fragment |-> l[2], object |-> ObjectOf(l)]
    <3>1. \A l : Row(l).claim = l[1]
      OBVIOUS
    <3>2. LocalGraph(Said, w, Objects) = {Row(l) : l \in Shown}
      BY <2>1
    <3> HIDE DEF Shown, Row
    <3> QED
      BY <3>1, <3>2
  <2>3. \A l \in links : l \in Shown <=> l[1] \in Said.relations /\ HomeOf[ObjectOf(l)] = w
    BY HereIsHome DEF LinksLeadHome
  <2>4. \A k : k \in {l[1] : l \in Shown} <=> k \in Said.relations /\ \E l \in links : l[1] = k /\ HomeOf[ObjectOf(l)] = w
    BY <2>3
  <2> HIDE DEF Shown
  <2> QED
    BY <2>2, <2>4, <1>1, <1>4
<1> HIDE DEF Of, All
<1> QED
  BY <1>3, <1>5, <1>6, Zenon

-----------------------------------------------------------------------------
(* Answers: what a ranking of paragraphs gives rise to, and the inductive  *)
(* invariant, as named parts.                                              *)

Paragraphs == {[cko |-> c, subject |-> t.subject, said |-> t.said, denied |-> t.denied] : c \in Objects, t \in Texts}
AssertionType == {<<"assertion", p.cko, p.subject, p.said, p.denied>> : p \in Paragraphs}
AnswerType == [pkg : Nat, contested : BOOLEAN, supporting : SUBSET AssertionType, conflicting : SUBSET AssertionType]

Rankable == Seq(DOMAIN fragments)

Telling(ev) == {f \in Range(ev) : Text(f).subject # ""}
TripleLinks(ev) == {<<Triple(f), f>> : f \in Telling(ev)}
AssertionLinks(ev) == {<<Assertion(f), f>> : f \in Range(ev)}
ClaimsIn(ev) == {l[1] : l \in TripleLinks(ev) \cup AssertionLinks(ev)}

RowOf(k, f) == [key |-> k, f |-> f]
SemanticRows(ev) == {RowOf(l[1], l[2]) : l \in TripleLinks(ev)}
                    \cup {RowOf(Entity(Text(f).subject), f) : f \in Telling(ev)}
                    \cup {RowOf(Entity(Text(f).said), f) : f \in Telling(ev)}
AssertionRows(ev) == {RowOf(l[1], l[2]) : l \in AssertionLinks(ev)}

ScopeClashes(ev) ==
    {<<"scope", {Triple(p[1]), Triple(p[2])}>> :
       p \in {x \in Telling(ev) \X Telling(ev) : ScopeConflict(Triple(x[1]), Triple(x[2]))}}
PolarityClashes(ev) ==
    {<<"polarity", {Assertion(p[1]), Assertion(p[2])}>> :
       p \in {x \in Range(ev) \X Range(ev) : Contradict(Assertion(x[1]), Assertion(x[2]))}}

\* What is left to do in a phase, what has been linked when it ends, and what seen.
ToDo(at, ev) == CASE at = "semantic" -> SemanticRows(ev)
                  [] at = "scope"    -> ScopeClashes(ev)
                  [] at = "claims"   -> AssertionRows(ev)
                  [] at = "polarity" -> PolarityClashes(ev)
                  [] at = "answer"   -> {}

Due(at, kind, ev) ==
    IF at \in {"semantic", "scope"} \/ kind = "semantic" THEN TripleLinks(ev) ELSE TripleLinks(ev) \cup AssertionLinks(ev)

Sought(at, kind, ev) ==
    IF at = "semantic" THEN {}
    ELSE IF at \in {"scope", "claims"} \/ kind = "semantic" THEN ScopeClashes(ev)
    ELSE ScopeClashes(ev) \cup PolarityClashes(ev)

QuestionFields == {"at", "kind", "pkg", "ev", "todo", "found", "mine", "linked", "joined", "seen"}

IsAsked(q) ==
    /\ DOMAIN q = QuestionFields
    /\ q.at \in {"semantic", "scope", "claims", "polarity", "answer"} /\ q.kind \in {"reason", "semantic"}
    /\ q.kind = "semantic" => q.at \in {"semantic", "scope", "answer"}
    /\ q.pkg \in 0 .. Len(packages) /\ q.ev \in Rankable
    /\ q.pkg # 0 => q.ev = packages[q.pkg]
    /\ q.todo \in Seq(ToDo(q.at, q.ev)) /\ q.found \in BOOLEAN
    /\ q.found => q.at \in {"semantic", "claims"} /\ q.todo # <<>>

LinksSoFar(q) ==
    /\ q.linked \subseteq TripleLinks(q.ev) \cup AssertionLinks(q.ev)
    /\ q.joined = {l[1] : l \in q.linked} /\ q.joined \subseteq q.mine \cup BagToSet(rows)
    /\ \A l \in Due(q.at, q.kind, q.ev) :
         l \in q.linked \/ (q.at \in {"semantic", "claims"} /\ RowOf(l[1], l[2]) \in Range(q.todo))

SeenSoFar(q) ==
    /\ q.seen \subseteq Sought(q.at, q.kind, q.ev)
    /\ \A k \in Sought(q.at, q.kind, q.ev) : k \in q.seen \/ (q.at \in {"scope", "polarity"} /\ k \in Range(q.todo))

AskedOK(q) == IsAsked(q) /\ LinksSoFar(q) /\ SeenSoFar(q)

QuestionOK(q) == q = NoQuestion \/ AskedOK(q)

TextsAreTyped == fragments \in Seq(Paragraphs) /\ packages \in Seq(Rankable) /\ answers \in Seq(AnswerType)

OneRowEach ==
    /\ OneRowPerFact
    /\ \A r \in Askers : asking[r].mine \cap BagToSet(rows) = {}
    /\ \A r, o \in Askers : r # o => asking[r].mine \cap asking[o].mine = {}

IsEvident(l) ==
    /\ l[2] \in DOMAIN fragments /\ Committed(l[1])
    /\ l[1] = Triple(l[2]) \/ l[1] = Assertion(l[2])

IsMember(m) == m[1] \in DOMAIN packages /\ Committed(m[2]) /\ m[2] \in ClaimsIn(packages[m[1]])

AnswerAgrees(a) ==
    /\ a.pkg \in DOMAIN packages
    /\ a.supporting = {Assertion(f) : f \in Range(packages[a.pkg])}
    /\ a.conflicting \subseteq a.supporting
    /\ a.contested <=> \E f, g \in Range(packages[a.pkg]) : Contradicts(f, g)
    /\ \A f \in Range(packages[a.pkg]) : <<Assertion(f), f>> \in links

QuestionsAgree == DOMAIN asking = Askers /\ \A r \in Askers : QuestionOK(asking[r])

AnswersInv ==
    /\ TextsAreTyped /\ OneRowEach /\ QuestionsAgree
    /\ \A l \in links : IsEvident(l)
    /\ \A m \in members : IsMember(m)
    /\ \A i \in DOMAIN answers : AnswerAgrees(answers[i])

-----------------------------------------------------------------------------
(* The rows and the clashes of a ranking                                   *)

LEMMA ClaimsAreKeys ==
    \A f : /\ Triple(f)[1] = "triple" /\ Assertion(f)[1] = "assertion" /\ IsClaim(Triple(f)) /\ IsClaim(Assertion(f))
           /\ Triple(f)[3] = Text(f).subject /\ Triple(f)[4] = Text(f).said
           /\ Assertion(f)[2] = Text(f).cko /\ Assertion(f)[3] = Text(f).subject
           /\ Assertion(f)[4] = Text(f).said /\ Assertion(f)[5] = Text(f).denied
<1> TAKE f
<1>1. Triple(f)[1] = "triple" /\ Triple(f)[3] = Text(f).subject /\ Triple(f)[4] = Text(f).said
  BY DEF Triple
<1>2. /\ Assertion(f)[1] = "assertion" /\ Assertion(f)[2] = Text(f).cko /\ Assertion(f)[3] = Text(f).subject
      /\ Assertion(f)[4] = Text(f).said /\ Assertion(f)[5] = Text(f).denied
  BY DEF Assertion
<1> QED
  BY <1>1, <1>2 DEF IsClaim

LEMMA EntitiesAreNoClaims == \A name : ~ IsClaim(Entity(name))
<1> TAKE name
<1>1. Entity(name)[1] = "entity"
  BY DEF Entity
<1> QED
  BY <1>1 DEF IsClaim

LEMMA EnsuresSemantic ==
    ASSUME NEW ev \in Rankable
    PROVE  /\ Ensures("semantic", ev) \in Seq(SemanticRows(ev))
           /\ \A l \in TripleLinks(ev) : RowOf(l[1], l[2]) \in Range(Ensures("semantic", ev))
<1> DEFINE Rows1(f) == IF Text(f).subject = "" THEN <<>>
                      ELSE <<RowOf(Entity(Text(f).subject), f), RowOf(Entity(Text(f).said), f), RowOf(Triple(f), f)>>
           seqs == [i \in DOMAIN ev |-> Rows1(ev[i])]
<1>1. Ensures("semantic", ev) = FlattenSeq(seqs)
  BY DEF Ensures, RowOf
<1>2. DOMAIN ev = 1..Len(ev) /\ Len(ev) \in Nat /\ \A i \in DOMAIN ev : ev[i] \in Range(ev)
  BY DEF Rankable, Range
<1>3. ASSUME NEW f \in Range(ev) PROVE Rows1(f) \in Seq(SemanticRows(ev))
  <2>1. CASE Text(f).subject = ""
    <3>1. Rows1(f) = <<>>
      BY <2>1
    <3> HIDE DEF Rows1
    <3> QED
      BY <3>1
  <2>2. CASE Text(f).subject # ""
    <3>1. f \in Telling(ev)
      BY <2>2 DEF Telling
    <3>2. PICK l : l = <<Triple(f), f>>
      OBVIOUS
    <3>3. l \in TripleLinks(ev) /\ l[1] = Triple(f) /\ l[2] = f
      BY <3>1, <3>2 DEF TripleLinks
    <3>4. RowOf(Triple(f), f) \in SemanticRows(ev)
      BY <3>3 DEF SemanticRows
    <3>5. RowOf(Entity(Text(f).subject), f) \in SemanticRows(ev) /\ RowOf(Entity(Text(f).said), f) \in SemanticRows(ev)
      BY <3>1 DEF SemanticRows
    <3>6. Rows1(f) = <<RowOf(Entity(Text(f).subject), f), RowOf(Entity(Text(f).said), f), RowOf(Triple(f), f)>>
      BY <2>2
    <3> HIDE DEF Rows1
    <3> QED
      BY <3>4, <3>5, <3>6
  <2> QED
    BY <2>1, <2>2
<1>4. seqs \in Seq(Seq(SemanticRows(ev))) /\ DOMAIN seqs = 1..Len(ev) /\ Len(seqs) = Len(ev)
  <2> HIDE DEF Rows1
  <2> QED
    BY <1>2, <1>3
<1>5. /\ FlattenSeq(seqs) \in Seq(SemanticRows(ev))
      /\ \A i \in 1..Len(seqs) : Range(seqs[i]) \subseteq Range(FlattenSeq(seqs))
  <2> HIDE DEF seqs
  <2> QED
    BY <1>4, FlattenType
<1>6. ASSUME NEW l \in TripleLinks(ev) PROVE RowOf(l[1], l[2]) \in Range(FlattenSeq(seqs))
  <2>1. PICK f \in Telling(ev) : l = <<Triple(f), f>>
    BY DEF TripleLinks
  <2>2. PICK i \in DOMAIN ev : ev[i] = f
    BY DEF Telling, Range
  <2>3. seqs[i] = Rows1(f) /\ Rows1(f)[3] = RowOf(Triple(f), f) /\ 3 \in DOMAIN Rows1(f)
    <3>1. Text(f).subject # ""
      BY DEF Telling
    <3>2. Rows1(f) = <<RowOf(Entity(Text(f).subject), f), RowOf(Entity(Text(f).said), f), RowOf(Triple(f), f)>>
      BY <3>1
    <3>3. seqs[i] = Rows1(f)
      BY <2>2
    <3> HIDE DEF seqs, Rows1
    <3> QED
      BY <3>2, <3>3
  <2>4. RowOf(Triple(f), f) \in Range(seqs[i])
    <3> HIDE DEF seqs, Rows1
    <3> QED
      BY <2>3 DEF Range
  <2>5. i \in 1..Len(seqs)
    BY <1>2, <1>4
  <2> HIDE DEF seqs
  <2> QED
    BY <2>1, <2>4, <2>5, <1>5
<1> QED
  BY <1>1, <1>5, <1>6

LEMMA EnsuresClaims ==
    ASSUME NEW ev \in Rankable
    PROVE  /\ Ensures("claims", ev) \in Seq(AssertionRows(ev))
           /\ \A l \in AssertionLinks(ev) : RowOf(l[1], l[2]) \in Range(Ensures("claims", ev))
<1> DEFINE seqs == [i \in DOMAIN ev |-> <<RowOf(Assertion(ev[i]), ev[i])>>]
<1>1. Ensures("claims", ev) = FlattenSeq(seqs)
  BY DEF Ensures, RowOf
<1>2. DOMAIN ev = 1..Len(ev) /\ Len(ev) \in Nat /\ \A i \in DOMAIN ev : ev[i] \in Range(ev)
  BY DEF Rankable, Range
<1>3. \A f \in Range(ev) : RowOf(Assertion(f), f) \in AssertionRows(ev)
  <2> TAKE f \in Range(ev)
  <2>1. <<Assertion(f), f>> \in AssertionLinks(ev)
    BY DEF AssertionLinks
  <2> QED
    BY <2>1 DEF AssertionRows
<1>4. seqs \in Seq(Seq(AssertionRows(ev))) /\ Len(seqs) = Len(ev)
  BY <1>2, <1>3
<1>5. /\ FlattenSeq(seqs) \in Seq(AssertionRows(ev))
      /\ \A i \in 1..Len(seqs) : Range(seqs[i]) \subseteq Range(FlattenSeq(seqs))
  <2> HIDE DEF seqs
  <2> QED
    BY <1>4, FlattenType
<1>6. ASSUME NEW l \in AssertionLinks(ev) PROVE RowOf(l[1], l[2]) \in Range(FlattenSeq(seqs))
  <2>1. PICK f \in Range(ev) : l = <<Assertion(f), f>>
    BY DEF AssertionLinks
  <2>2. PICK i \in DOMAIN ev : ev[i] = f
    BY DEF Range
  <2>3. seqs[i] = <<RowOf(Assertion(f), f)>>
    BY <2>2
  <2>4. RowOf(Assertion(f), f) \in Range(seqs[i])
    <3> HIDE DEF seqs
    <3> QED
      BY <2>3 DEF Range
  <2>5. i \in 1..Len(seqs)
    BY <1>2, <1>4
  <2> HIDE DEF seqs
  <2> QED
    BY <2>1, <2>4, <2>5, <1>5
<1> QED
  BY <1>1, <1>5, <1>6

\* A claim of a ranking is what one of its paragraphs says.
LEMMA ClaimsOfRanking ==
    ASSUME NEW ev
    PROVE  /\ \A k \in ClaimsIn(ev) : \/ \E f \in Telling(ev) : k = Triple(f)
                                      \/ \E f \in Range(ev) : k = Assertion(f)
           /\ \A f \in Telling(ev) : Triple(f) \in ClaimsIn(ev)
           /\ \A f \in Range(ev) : Assertion(f) \in ClaimsIn(ev)
<1>1. \A l \in TripleLinks(ev) \cup AssertionLinks(ev) :
         (\E f \in Telling(ev) : l[1] = Triple(f)) \/ (\E f \in Range(ev) : l[1] = Assertion(f))
  BY DEF TripleLinks, AssertionLinks
<1>2. \A f \in Telling(ev) : <<Triple(f), f>> \in TripleLinks(ev) /\ <<Triple(f), f>>[1] = Triple(f)
  BY DEF TripleLinks
<1>3. \A f \in Range(ev) : <<Assertion(f), f>> \in AssertionLinks(ev) /\ <<Assertion(f), f>>[1] = Assertion(f)
  BY DEF AssertionLinks
<1> QED
  BY <1>1, <1>2, <1>3 DEF ClaimsIn

LEMMA ClashesOfClaims ==
    ASSUME NEW ev, NEW q, ClaimsOf(q) \subseteq ClaimsIn(ev)
    PROVE  /\ (\A f \in Telling(ev) : Triple(f) \in ClaimsOf(q)) => Pairs("scope", q) = ScopeClashes(ev)
           /\ (\A f \in Range(ev) : Assertion(f) \in ClaimsOf(q)) => Pairs("polarity", q) = PolarityClashes(ev)
<1>1. ASSUME \A f \in Telling(ev) : Triple(f) \in ClaimsOf(q)
      PROVE  Pairs("scope", q) = ScopeClashes(ev)
  <2>1. Pairs("scope", q) = {<<"scope", {p[1], p[2]}>> :
                               p \in {x \in ClaimsOf(q) \X ClaimsOf(q) : ScopeConflict(x[1], x[2])}}
    BY Zenon DEF Pairs
  <2>2. ASSUME NEW k \in Pairs("scope", q) PROVE k \in ScopeClashes(ev)
    <3>1. PICK a \in ClaimsOf(q), b \in ClaimsOf(q) : ScopeConflict(a, b) /\ k = <<"scope", {a, b}>>
      BY <2>1
    <3>2. a[1] = "triple" /\ b[1] = "triple"
      BY <3>1 DEF ScopeConflict
    <3>3. PICK f \in Telling(ev) : a = Triple(f)
      BY <3>2, ClaimsOfRanking, ClaimsAreKeys
    <3>4. PICK g \in Telling(ev) : b = Triple(g)
      BY <3>2, ClaimsOfRanking, ClaimsAreKeys
    <3>5. <<f, g>> \in {x \in Telling(ev) \X Telling(ev) : ScopeConflict(Triple(x[1]), Triple(x[2]))}
      BY <3>1, <3>3, <3>4
    <3> QED
      BY <3>1, <3>3, <3>4, <3>5 DEF ScopeClashes
  <2>3. ASSUME NEW k \in ScopeClashes(ev) PROVE k \in Pairs("scope", q)
    <3>1. PICK f \in Telling(ev), g \in Telling(ev) :
             ScopeConflict(Triple(f), Triple(g)) /\ k = <<"scope", {Triple(f), Triple(g)}>>
      BY DEF ScopeClashes
    <3>2. <<Triple(f), Triple(g)>> \in {x \in ClaimsOf(q) \X ClaimsOf(q) : ScopeConflict(x[1], x[2])}
      BY <1>1, <3>1
    <3> QED
      BY <2>1, <3>1, <3>2
  <2> QED
    BY <2>2, <2>3
<1>2. ASSUME \A f \in Range(ev) : Assertion(f) \in ClaimsOf(q)
      PROVE  Pairs("polarity", q) = PolarityClashes(ev)
  <2>1. Pairs("polarity", q) = {<<"polarity", {p[1], p[2]}>> :
                                  p \in {x \in ClaimsOf(q) \X ClaimsOf(q) : Contradict(x[1], x[2])}}
    BY Zenon DEF Pairs
  <2>2. ASSUME NEW k \in Pairs("polarity", q) PROVE k \in PolarityClashes(ev)
    <3>1. PICK a \in ClaimsOf(q), b \in ClaimsOf(q) : Contradict(a, b) /\ k = <<"polarity", {a, b}>>
      BY <2>1
    <3>2. a[1] = "assertion" /\ b[1] = "assertion"
      BY <3>1 DEF Contradict
    <3>3. PICK f \in Range(ev) : a = Assertion(f)
      BY <3>2, ClaimsOfRanking, ClaimsAreKeys
    <3>4. PICK g \in Range(ev) : b = Assertion(g)
      BY <3>2, ClaimsOfRanking, ClaimsAreKeys
    <3>5. <<f, g>> \in {x \in Range(ev) \X Range(ev) : Contradict(Assertion(x[1]), Assertion(x[2]))}
      BY <3>1, <3>3, <3>4
    <3> QED
      BY <3>1, <3>3, <3>4, <3>5 DEF PolarityClashes
  <2>3. ASSUME NEW k \in PolarityClashes(ev) PROVE k \in Pairs("polarity", q)
    <3>1. PICK f \in Range(ev), g \in Range(ev) :
             Contradict(Assertion(f), Assertion(g)) /\ k = <<"polarity", {Assertion(f), Assertion(g)}>>
      BY DEF PolarityClashes
    <3>2. <<Assertion(f), Assertion(g)>> \in {x \in ClaimsOf(q) \X ClaimsOf(q) : Contradict(x[1], x[2])}
      BY <1>2, <3>1
    <3> QED
      BY <2>1, <3>1, <3>2
  <2> QED
    BY <2>2, <2>3
<1> QED
  BY <1>1, <1>2

LEMMA FiniteRange == ASSUME NEW F, IsFiniteSet(DOMAIN F) PROVE IsFiniteSet(Range(F))
<1> DEFINE G == [x \in DOMAIN F |-> F[x]]
<1>1. G \in [DOMAIN F -> Range(F)] /\ \A y \in Range(F) : \E x \in DOMAIN F : G[x] = y
  BY DEF Range
<1>2. G \in Surjection(DOMAIN F, Range(F))
  BY <1>1 DEF Surjection
<1> HIDE DEF G
<1> QED
  BY <1>2, FS_Surjection

LEMMA ClashesAreFinite ==
    ASSUME NEW ev \in Rankable
    PROVE  IsFiniteSet(ScopeClashes(ev)) /\ IsFiniteSet(PolarityClashes(ev))
<1>1. IsFiniteSet(Range(ev)) /\ Telling(ev) \in SUBSET Range(ev)
  BY ElementsOfSeq DEF Rankable, Telling
<1>2. IsFiniteSet(Telling(ev))
  BY <1>1, FS_Subset
<1> DEFINE S == {x \in Telling(ev) \X Telling(ev) : ScopeConflict(Triple(x[1]), Triple(x[2]))}
           P == {x \in Range(ev) \X Range(ev) : Contradict(Assertion(x[1]), Assertion(x[2]))}
           F == [p \in S |-> <<"scope", {Triple(p[1]), Triple(p[2])}>>]
           G == [p \in P |-> <<"polarity", {Assertion(p[1]), Assertion(p[2])}>>]
<1>3. IsFiniteSet(Telling(ev) \X Telling(ev)) /\ S \in SUBSET (Telling(ev) \X Telling(ev))
  BY <1>2, FS_Product
<1>4. IsFiniteSet(Range(ev) \X Range(ev)) /\ P \in SUBSET (Range(ev) \X Range(ev))
  BY <1>1, FS_Product
<1>5. IsFiniteSet(S) /\ IsFiniteSet(P)
  <2> HIDE DEF S, P
  <2> QED
    BY <1>3, <1>4, FS_Subset
<1>6. DOMAIN F = S /\ DOMAIN G = P
  OBVIOUS
<1>7. ScopeClashes(ev) = Range(F) /\ PolarityClashes(ev) = Range(G)
  BY DEF ScopeClashes, PolarityClashes, Range
<1> HIDE DEF F, G, S, P
<1>8. IsFiniteSet(Range(F)) /\ IsFiniteSet(Range(G))
  BY <1>5, <1>6, FiniteRange
<1> QED
  BY <1>7, <1>8

-----------------------------------------------------------------------------
(* A question goes from one phase to the next                              *)

LEMMA ClaimsOfQuestion ==
    ASSUME AnswersInv, NEW q, AskedOK(q)
    PROVE  ClaimsOf(q) \subseteq ClaimsIn(q.ev)
<1>1. \A l \in q.linked : l[1] \in ClaimsIn(q.ev)
  BY DEF AskedOK, LinksSoFar, ClaimsIn
<1>2. q.joined \subseteq ClaimsIn(q.ev)
  BY <1>1 DEF AskedOK, LinksSoFar
<1>3. ASSUME NEW m \in members, m[1] = q.pkg PROVE m[2] \in ClaimsIn(q.ev)
  <2>1. m[1] \in DOMAIN packages /\ m[2] \in ClaimsIn(packages[m[1]]) /\ DOMAIN packages = 1..Len(packages)
    BY DEF AnswersInv, IsMember, TextsAreTyped
  <2>2. q.pkg # 0 /\ q.ev = packages[q.pkg]
    BY <1>3, <2>1 DEF AskedOK, IsAsked
  <2> QED
    BY <1>3, <2>1, <2>2
<1> QED
  BY <1>2, <1>3 DEF ClaimsOf

LEMMA Advances ==
    ASSUME NEW q, AskedOK(q), q.todo = <<>>, NEW at \in {"semantic", "scope", "claims", "polarity", "answer"}, NEW todo,
           q.kind = "semantic" => at \in {"semantic", "scope", "answer"},
           todo \in Seq(ToDo(at, q.ev)),
           \A l \in Due(at, q.kind, q.ev) :
             l \in q.linked \/ (at \in {"semantic", "claims"} /\ RowOf(l[1], l[2]) \in Range(todo)),
           q.seen \subseteq Sought(at, q.kind, q.ev),
           \A k \in Sought(at, q.kind, q.ev) : k \in q.seen \/ (at \in {"scope", "polarity"} /\ k \in Range(todo))
    PROVE  AskedOK([q EXCEPT !.at = at, !.todo = todo])
<1>1. PICK n : n = [q EXCEPT !.at = at, !.todo = todo]
  OBVIOUS
<1>2. DOMAIN q = QuestionFields /\ q.found = FALSE
  BY DEF AskedOK, IsAsked
<1>3. /\ DOMAIN n = QuestionFields /\ n.at = at /\ n.todo = todo /\ n.kind = q.kind /\ n.pkg = q.pkg /\ n.ev = q.ev
      /\ n.found = FALSE /\ n.mine = q.mine /\ n.linked = q.linked /\ n.joined = q.joined /\ n.seen = q.seen
  BY <1>1, <1>2 DEF QuestionFields
<1>4. IsAsked(n)
  BY <1>3 DEF AskedOK, IsAsked
<1>5. LinksSoFar(n)
  BY <1>3 DEF AskedOK, LinksSoFar
<1>6. SeenSoFar(n)
  BY <1>3 DEF AskedOK, SeenSoFar
<1> QED
  BY <1>1, <1>4, <1>5, <1>6 DEF AskedOK

LEMMA NothingToDo == Range(<<>>) = {} /\ \A S : <<>> \in Seq(S)
  BY DEF Range

LEMMA SemanticEnds == ASSUME AnswersInv, NEW q, AskedOK(q) PROVE AskedOK(AfterSemantic(q))
<1>1. CASE q.at = "semantic" /\ q.todo = <<>>
  <2>1. q.ev \in Rankable
    BY DEF AskedOK, IsAsked
  <2>2. \A l \in TripleLinks(q.ev) : l \in q.linked
    BY <1>1, NothingToDo DEF AskedOK, LinksSoFar, Due
  <2>3. \A f \in Telling(q.ev) : Triple(f) \in ClaimsOf(q)
    <3> TAKE f \in Telling(q.ev)
    <3>1. PICK l : l = <<Triple(f), f>>
      OBVIOUS
    <3>2. l \in q.linked /\ l[1] = Triple(f)
      BY <2>2, <3>1 DEF TripleLinks
    <3> QED
      BY <3>2 DEF AskedOK, LinksSoFar, ClaimsOf
  <2>4. Pairs("scope", q) = ScopeClashes(q.ev)
    BY <2>3, ClaimsOfQuestion, ClashesOfClaims
  <2>5. PICK todo : todo = SetToSeq(Pairs("scope", q))
    OBVIOUS
  <2>6. todo \in Seq(ScopeClashes(q.ev)) /\ Range(todo) = ScopeClashes(q.ev)
    BY <2>1, <2>4, <2>5, ClashesAreFinite, InSomeOrder
  <2>7. /\ ToDo("scope", q.ev) = ScopeClashes(q.ev) /\ Due("scope", q.kind, q.ev) = TripleLinks(q.ev)
        /\ Sought("scope", q.kind, q.ev) = ScopeClashes(q.ev) /\ Sought("semantic", q.kind, q.ev) = {}
    BY DEF ToDo, Due, Sought
  <2>8. q.seen = {}
    BY <1>1, <2>7 DEF AskedOK, SeenSoFar
  <2>9. AskedOK([q EXCEPT !.at = "scope", !.todo = todo])
    BY <1>1, <2>2, <2>6, <2>7, <2>8, Advances
  <2> QED
    BY <1>1, <2>5, <2>9 DEF AfterSemantic, Then
<1>2. CASE ~ (q.at = "semantic" /\ q.todo = <<>>)
  BY <1>2 DEF AfterSemantic, Then
<1> QED
  BY <1>1, <1>2

LEMMA ScopeEnds == ASSUME AnswersInv, NEW q, AskedOK(q) PROVE AskedOK(AfterScope(q))
<1>1. CASE q.at = "scope" /\ q.todo = <<>>
  <2>1. q.ev \in Rankable
    BY DEF AskedOK, IsAsked
  <2>2. /\ Due("scope", q.kind, q.ev) = TripleLinks(q.ev) /\ Due("answer", "semantic", q.ev) = TripleLinks(q.ev)
        /\ Sought("scope", q.kind, q.ev) = ScopeClashes(q.ev)
        /\ Sought("answer", "semantic", q.ev) = ScopeClashes(q.ev)
        /\ Sought("claims", q.kind, q.ev) = ScopeClashes(q.ev)
        /\ ToDo("answer", q.ev) = {} /\ ToDo("claims", q.ev) = AssertionRows(q.ev)
        /\ Due("claims", q.kind, q.ev) \subseteq TripleLinks(q.ev) \cup AssertionLinks(q.ev)
    BY DEF ToDo, Due, Sought
  <2>3. (\A l \in TripleLinks(q.ev) : l \in q.linked) /\ q.seen = ScopeClashes(q.ev)
    BY <1>1, <2>2, NothingToDo DEF AskedOK, LinksSoFar, SeenSoFar
  <2>4. CASE q.kind = "semantic"
    <3>1. AskedOK([q EXCEPT !.at = "answer", !.todo = <<>>])
      BY <1>1, <2>2, <2>3, <2>4, NothingToDo, Advances
    <3> QED
      BY <1>1, <2>4, <3>1 DEF AfterScope, Then
  <2>5. CASE q.kind # "semantic"
    <3>1. PICK todo : todo = Ensures("claims", q.ev)
      OBVIOUS
    <3>2. todo \in Seq(AssertionRows(q.ev)) /\ \A l \in AssertionLinks(q.ev) : RowOf(l[1], l[2]) \in Range(todo)
      BY <2>1, <3>1, EnsuresClaims
    <3>3. AskedOK([q EXCEPT !.at = "claims", !.todo = todo])
      BY <1>1, <2>2, <2>3, <2>5, <3>2, Advances
    <3> QED
      BY <1>1, <2>5, <3>1, <3>3 DEF AfterScope, Then
  <2> QED
    BY <2>4, <2>5
<1>2. CASE ~ (q.at = "scope" /\ q.todo = <<>>)
  BY <1>2 DEF AfterScope, Then
<1> QED
  BY <1>1, <1>2

LEMMA ClaimsEnd == ASSUME AnswersInv, NEW q, AskedOK(q) PROVE AskedOK(AfterClaims(q))
<1>1. CASE q.at = "claims" /\ q.todo = <<>>
  <2>1. q.ev \in Rankable /\ q.kind = "reason"
    BY <1>1 DEF AskedOK, IsAsked
  <2>2. /\ \A at \in {"claims", "polarity"} : Due(at, q.kind, q.ev) = TripleLinks(q.ev) \cup AssertionLinks(q.ev)
        /\ Sought("claims", q.kind, q.ev) = ScopeClashes(q.ev)
        /\ Sought("polarity", q.kind, q.ev) = ScopeClashes(q.ev) \cup PolarityClashes(q.ev)
        /\ ToDo("polarity", q.ev) = PolarityClashes(q.ev)
    BY <2>1 DEF ToDo, Due, Sought
  <2>3. (\A l \in TripleLinks(q.ev) \cup AssertionLinks(q.ev) : l \in q.linked) /\ q.seen = ScopeClashes(q.ev)
    BY <1>1, <2>2, NothingToDo DEF AskedOK, LinksSoFar, SeenSoFar
  <2>4. \A f \in Range(q.ev) : Assertion(f) \in ClaimsOf(q)
    <3> TAKE f \in Range(q.ev)
    <3>1. PICK l : l = <<Assertion(f), f>>
      OBVIOUS
    <3>2. l \in q.linked /\ l[1] = Assertion(f)
      BY <2>3, <3>1 DEF AssertionLinks
    <3> QED
      BY <3>2 DEF AskedOK, LinksSoFar, ClaimsOf
  <2>5. Pairs("polarity", q) = PolarityClashes(q.ev)
    BY <2>4, ClaimsOfQuestion, ClashesOfClaims
  <2>6. PICK todo : todo = SetToSeq(Pairs("polarity", q))
    OBVIOUS
  <2>7. todo \in Seq(PolarityClashes(q.ev)) /\ Range(todo) = PolarityClashes(q.ev)
    BY <2>1, <2>5, <2>6, ClashesAreFinite, InSomeOrder
  <2>8. AskedOK([q EXCEPT !.at = "polarity", !.todo = todo])
    BY <1>1, <2>1, <2>2, <2>3, <2>7, Advances
  <2> QED
    BY <1>1, <2>6, <2>8 DEF AfterClaims, Then
<1>2. CASE ~ (q.at = "claims" /\ q.todo = <<>>)
  BY <1>2 DEF AfterClaims, Then
<1> QED
  BY <1>1, <1>2

LEMMA PolarityEnds ==
    ASSUME AnswersInv, NEW q, AskedOK(q)
    PROVE  AskedOK(Then(q, "polarity", "answer", <<>>))
<1>1. CASE q.at = "polarity" /\ q.todo = <<>>
  <2>1. q.kind = "reason"
    BY <1>1 DEF AskedOK, IsAsked
  <2>2. /\ Due("answer", q.kind, q.ev) = Due("polarity", q.kind, q.ev)
        /\ Sought("answer", q.kind, q.ev) = Sought("polarity", q.kind, q.ev)
        /\ ToDo("answer", q.ev) = {}
    BY <2>1 DEF ToDo, Due, Sought
  <2>3. /\ \A l \in Due("polarity", q.kind, q.ev) : l \in q.linked
        /\ q.seen \subseteq Sought("polarity", q.kind, q.ev)
        /\ \A k \in Sought("polarity", q.kind, q.ev) : k \in q.seen
    BY <1>1, NothingToDo DEF AskedOK, LinksSoFar, SeenSoFar
  <2>4. AskedOK([q EXCEPT !.at = "answer", !.todo = <<>>])
    BY <1>1, <2>1, <2>2, <2>3, NothingToDo, Advances
  <2> QED
    BY <1>1, <2>4 DEF Then
<1>2. CASE ~ (q.at = "polarity" /\ q.todo = <<>>)
  BY <1>2 DEF Then
<1> QED
  BY <1>1, <1>2

LEMMA SettledOK == ASSUME AnswersInv, NEW q, AskedOK(q) PROVE AskedOK(Settled(q)) /\ Settled(q).mine = q.mine
<1>1. AskedOK(Settled(q))
  BY SemanticEnds, ScopeEnds, ClaimsEnd, PolarityEnds DEF Settled
<1>2. ASSUME NEW x, DOMAIN x = QuestionFields, NEW from, NEW to, NEW todo
      PROVE  Then(x, from, to, todo).mine = x.mine /\ DOMAIN Then(x, from, to, todo) = QuestionFields
  BY <1>2 DEF Then, QuestionFields
<1>3. ASSUME NEW x, DOMAIN x = QuestionFields
      PROVE  /\ AfterSemantic(x).mine = x.mine /\ DOMAIN AfterSemantic(x) = QuestionFields
             /\ AfterScope(x).mine = x.mine /\ DOMAIN AfterScope(x) = QuestionFields
             /\ AfterClaims(x).mine = x.mine /\ DOMAIN AfterClaims(x) = QuestionFields
  BY <1>2, <1>3 DEF AfterSemantic, AfterScope, AfterClaims
<1>4. DOMAIN q = QuestionFields
  BY DEF AskedOK, IsAsked
<1>5. Settled(q).mine = q.mine
  BY <1>2, <1>3, <1>4 DEF Settled
<1> QED
  BY <1>1, <1>5
-----------------------------------------------------------------------------
(* What was there stays                                                    *)

\* Documents, packages, rows and links are added, never changed.
Grows ==
    /\ \A f \in DOMAIN fragments : f \in DOMAIN fragments' /\ fragments'[f] = fragments[f]
    /\ \A p \in DOMAIN packages : p \in DOMAIN packages' /\ packages'[p] = packages[p]
    /\ BagToSet(rows) \subseteq BagToSet(rows') /\ links \subseteq links'
    /\ TextsAreTyped'

LEMMA TextsStay ==
    ASSUME AnswersInv, Grows, NEW ev \in Rankable
    PROVE  /\ ev \in Rankable' /\ Telling(ev)' = Telling(ev)
           /\ \A f \in Range(ev) : /\ f \in DOMAIN fragments /\ f \in DOMAIN fragments'
                                   /\ Triple(f)' = Triple(f) /\ Assertion(f)' = Assertion(f) /\ Text(f)' = Text(f)
<1>1. \A f \in Range(ev) : f \in DOMAIN fragments
  BY DEF Rankable, Range
<1>2. \A f \in DOMAIN fragments : f \in DOMAIN fragments' /\ Text(f)' = Text(f)
  BY DEF Grows, Text
<1>3. \A f \in DOMAIN fragments : Triple(f)' = Triple(f) /\ Assertion(f)' = Assertion(f)
  BY <1>2 DEF Triple, Assertion
<1>4. ev \in Rankable'
  <2>1. DOMAIN fragments \subseteq DOMAIN fragments'
    BY <1>2
  <2> QED
    BY <2>1 DEF Rankable
<1>5. Telling(ev)' = Telling(ev)
  BY <1>1, <1>2 DEF Telling
<1> QED
  BY <1>1, <1>2, <1>3, <1>4, <1>5

LEMMA EvidenceStays ==
    ASSUME AnswersInv, Grows, NEW ev \in Rankable
    PROVE  /\ TripleLinks(ev)' = TripleLinks(ev) /\ AssertionLinks(ev)' = AssertionLinks(ev)
           /\ ClaimsIn(ev)' = ClaimsIn(ev) /\ SemanticRows(ev)' = SemanticRows(ev)
           /\ AssertionRows(ev)' = AssertionRows(ev)
           /\ ScopeClashes(ev)' = ScopeClashes(ev) /\ PolarityClashes(ev)' = PolarityClashes(ev)
<1>1. /\ Telling(ev)' = Telling(ev) /\ Telling(ev) \subseteq Range(ev)
      /\ \A f \in Range(ev) : Triple(f)' = Triple(f) /\ Assertion(f)' = Assertion(f) /\ Text(f)' = Text(f)
  BY TextsStay DEF Telling
<1>2. TripleLinks(ev)' = TripleLinks(ev) /\ AssertionLinks(ev)' = AssertionLinks(ev)
  BY <1>1 DEF TripleLinks, AssertionLinks
<1>3. ClaimsIn(ev)' = ClaimsIn(ev) /\ AssertionRows(ev)' = AssertionRows(ev)
  BY <1>2 DEF ClaimsIn, AssertionRows, RowOf
<1>4. SemanticRows(ev)' = SemanticRows(ev)
  BY <1>1, <1>2 DEF SemanticRows, RowOf, Entity
<1>5. ScopeClashes(ev)' = ScopeClashes(ev)
  <2>1. {x \in Telling(ev) \X Telling(ev) : ScopeConflict(Triple(x[1]), Triple(x[2]))}'
          = {x \in Telling(ev) \X Telling(ev) : ScopeConflict(Triple(x[1]), Triple(x[2]))}
    BY <1>1 DEF ScopeConflict
  <2> QED
    BY <1>1, <2>1 DEF ScopeClashes
<1>6. PolarityClashes(ev)' = PolarityClashes(ev)
  <2>1. {x \in Range(ev) \X Range(ev) : Contradict(Assertion(x[1]), Assertion(x[2]))}'
          = {x \in Range(ev) \X Range(ev) : Contradict(Assertion(x[1]), Assertion(x[2]))}
    BY <1>1 DEF Contradict
  <2> QED
    BY <1>1, <2>1 DEF PolarityClashes
<1> QED
  BY <1>2, <1>3, <1>4, <1>5, <1>6

LEMMA QuestionStays == ASSUME AnswersInv, Grows, NEW q, QuestionOK(q) PROVE QuestionOK(q)'
<1> SUFFICES ASSUME AskedOK(q) PROVE AskedOK(q)'
  BY DEF QuestionOK
<1>1. q.ev \in Rankable
  BY DEF AskedOK, IsAsked
<1>2. PICK ev \in Rankable : ev = q.ev
  BY <1>1
<1>3. /\ ev \in Rankable' /\ TripleLinks(ev)' = TripleLinks(ev) /\ AssertionLinks(ev)' = AssertionLinks(ev)
      /\ SemanticRows(ev)' = SemanticRows(ev) /\ AssertionRows(ev)' = AssertionRows(ev)
      /\ ScopeClashes(ev)' = ScopeClashes(ev) /\ PolarityClashes(ev)' = PolarityClashes(ev)
  BY TextsStay, EvidenceStays
<1>4. /\ ToDo(q.at, q.ev)' = ToDo(q.at, q.ev) /\ Due(q.at, q.kind, q.ev)' = Due(q.at, q.kind, q.ev)
      /\ Sought(q.at, q.kind, q.ev)' = Sought(q.at, q.kind, q.ev)
  BY <1>2, <1>3 DEF ToDo, Due, Sought
<1>5. Len(packages) \in Nat /\ Len(packages)' \in Nat /\ DOMAIN packages = 1..Len(packages)
      /\ DOMAIN packages' = 1..Len(packages')
  BY DEF AnswersInv, Grows, TextsAreTyped
<1>6. q.pkg \in 0 .. Len(packages)' /\ (q.pkg # 0 => q.ev = packages'[q.pkg])
  BY <1>5 DEF AskedOK, IsAsked, Grows
<1>7. IsAsked(q)'
  BY <1>2, <1>3, <1>4, <1>6 DEF AskedOK, IsAsked
<1>8. LinksSoFar(q)'
  <2>1. q.linked \subseteq TripleLinks(q.ev)' \cup AssertionLinks(q.ev)'
    BY <1>2, <1>3 DEF AskedOK, LinksSoFar
  <2>2. q.joined \subseteq q.mine \cup BagToSet(rows')
    BY DEF AskedOK, LinksSoFar, Grows
  <2>3. \A l \in Due(q.at, q.kind, q.ev) :
           l \in q.linked \/ (q.at \in {"semantic", "claims"} /\ RowOf(l[1], l[2]) \in Range(q.todo))
    BY DEF AskedOK, LinksSoFar
  <2> QED
    BY <2>1, <2>2, <2>3, <1>4 DEF AskedOK, LinksSoFar, RowOf
<1>9. SeenSoFar(q)'
  BY <1>4 DEF AskedOK, SeenSoFar
<1> QED
  BY <1>7, <1>8, <1>9 DEF AskedOK

LEMMA StoredStays ==
    ASSUME AnswersInv, Grows
    PROVE  /\ \A l \in links : IsEvident(l)'
           /\ \A m \in members : IsMember(m)'
           /\ \A a : AnswerAgrees(a) => AnswerAgrees(a)'
<1>1. ASSUME NEW l \in links PROVE IsEvident(l)'
  <2>1. IsEvident(l)
    BY DEF AnswersInv
  <2> QED
    BY <2>1 DEF IsEvident, Grows, Committed, Triple, Assertion, Text
<1>2. ASSUME NEW m \in members PROVE IsMember(m)'
  <2>1. IsMember(m)
    BY DEF AnswersInv
  <2>2. PICK ev \in Rankable : ev = packages[m[1]]
    BY <2>1 DEF IsMember, AnswersInv, TextsAreTyped
  <2>3. ClaimsIn(ev)' = ClaimsIn(ev)
    BY EvidenceStays
  <2>4. m[1] \in DOMAIN packages' /\ packages'[m[1]] = ev
    BY <2>1, <2>2 DEF IsMember, Grows
  <2> QED
    BY <2>1, <2>2, <2>3, <2>4 DEF IsMember, Committed, Grows
<1>3. ASSUME NEW a, AnswerAgrees(a) PROVE AnswerAgrees(a)'
  <2>1. PICK ev \in Rankable : ev = packages[a.pkg]
    BY <1>3 DEF AnswerAgrees, AnswersInv, TextsAreTyped
  <2>2. a.pkg \in DOMAIN packages' /\ packages'[a.pkg] = ev
    BY <1>3, <2>1 DEF AnswerAgrees, Grows
  <2>3. \A f \in Range(ev) : Assertion(f)' = Assertion(f) /\ Text(f)' = Text(f)
    BY TextsStay
  <2>4. \A f, g \in Range(ev) : Contradicts(f, g)' <=> Contradicts(f, g)
    BY <2>3 DEF Contradicts
  <2>5. a.supporting = {Assertion(f)' : f \in Range(ev)} /\ a.conflicting \subseteq a.supporting
    BY <1>3, <2>1, <2>3 DEF AnswerAgrees
  <2>6. a.contested <=> \E f, g \in Range(ev) : Contradicts(f, g)'
    BY <1>3, <2>1, <2>4 DEF AnswerAgrees
  <2>7. \A f \in Range(ev) : <<Assertion(f)', f>> \in links'
    BY <1>3, <2>1, <2>3 DEF AnswerAgrees, Grows
  <2> QED
    BY <2>2, <2>5, <2>6, <2>7 DEF AnswerAgrees
<1> QED
  BY <1>1, <1>2, <1>3
-----------------------------------------------------------------------------
(* One question goes on, or begins, or ends                                *)

LEMMA NoQuestionOK == QuestionOK(NoQuestion) /\ NoQuestion.mine = {} /\ NoQuestion.at = "idle" /\ NoQuestion.todo = <<>>
                      /\ NoQuestion.found = FALSE
  BY DEF QuestionOK, NoQuestion

LEMMA TheQuestion ==
    ASSUME AnswersInv, NEW r \in Askers
    PROVE  /\ QuestionOK(asking[r])
           /\ asking[r].at # "idle" => AskedOK(asking[r])
           /\ asking[r].mine \cap BagToSet(rows) = {}
           /\ \A o \in Askers \ {r} : asking[r].mine \cap asking[o].mine = {}
  BY NoQuestionOK DEF AnswersInv, QuestionsAgree, QuestionOK, OneRowEach

LEMMA OneAsks ==
    ASSUME AnswersInv, NEW r \in Askers, NEW q, QuestionOK(q), asking' = [asking EXCEPT ![r] = q],
           UNCHANGED <<fragments, packages, rows, links, members, answers>>,
           q.mine \cap BagToSet(rows) = {}, \A o \in Askers \ {r} : q.mine \cap asking[o].mine = {}
    PROVE  AnswersInv'
<1>1. TextsAreTyped'
  <2>1. TextsAreTyped /\ Rankable' = Rankable
    BY DEF AnswersInv, Rankable
  <2> QED
    BY <2>1 DEF TextsAreTyped
<1>2. Grows
  BY <1>1 DEF Grows
<1>3. DOMAIN asking = Askers
  BY DEF AnswersInv, QuestionsAgree
<1>4. DOMAIN asking' = Askers /\ \A o \in Askers : asking'[o] = IF o = r THEN q ELSE asking[o]
  BY <1>3
<1>5. ASSUME NEW o \in Askers PROVE QuestionOK(asking[o])'
  <2>1. PICK v : v = IF o = r THEN q ELSE asking[o]
    OBVIOUS
  <2>2. QuestionOK(v)
    <3>1. QuestionOK(asking[o]) /\ QuestionOK(q)
      BY TheQuestion
    <3>2. CASE o = r
      BY <2>1, <3>1, <3>2
    <3>3. CASE o # r
      BY <2>1, <3>1, <3>3
    <3> QED
      BY <3>2, <3>3
  <2>3. QuestionOK(v)' /\ asking'[o] = v
    BY <1>2, <1>4, <2>1, <2>2, QuestionStays
  <2> QED
    BY <2>3
<1>6. OneRowEach'
  <2>1. OneRowPerFact'
    BY DEF AnswersInv, OneRowEach, OneRowPerFact
  <2>2. \A o \in Askers : asking'[o].mine \cap BagToSet(rows') = {}
    BY <1>4 DEF AnswersInv, OneRowEach
  <2>3. \A o, p \in Askers : o # p => asking'[o].mine \cap asking'[p].mine = {}
    BY <1>4 DEF AnswersInv, OneRowEach
  <2> QED
    BY <2>1, <2>2, <2>3 DEF OneRowEach
<1>7. /\ \A l \in links' : IsEvident(l)'
      /\ \A m \in members' : IsMember(m)'
      /\ \A i \in DOMAIN answers' : AnswerAgrees(answers[i])'
  <2>1. \A l \in links : IsEvident(l)'
    BY <1>2, StoredStays
  <2>2. \A m \in members : IsMember(m)'
    BY <1>2, StoredStays
  <2>3. ASSUME NEW i \in DOMAIN answers PROVE AnswerAgrees(answers[i])'
    <3>1. PICK a : a = answers[i]
      OBVIOUS
    <3>2. AnswerAgrees(a)
      BY <3>1 DEF AnswersInv
    <3>3. AnswerAgrees(a)' /\ answers'[i] = a
      BY <1>2, <3>1, <3>2, StoredStays
    <3> QED
      BY <3>3
  <2> QED
    BY <2>1, <2>2, <2>3
<1> QED
  BY <1>1, <1>4, <1>5, <1>6, <1>7 DEF AnswersInv, QuestionsAgree

LEMMA AskerEnds == ASSUME AnswersInv, NEW r \in Askers, QuestionGoes(r, NoQuestion) PROVE AnswersInv'
<1>1. PICK q : q = NoQuestion
  OBVIOUS
<1>2. QuestionOK(q) /\ q.mine = {}
  BY <1>1, NoQuestionOK
<1>3. asking' = [asking EXCEPT ![r] = q] /\ UNCHANGED <<fragments, packages, rows, links, members, answers>>
  BY <1>1 DEF QuestionGoes
<1> QED
  BY <1>2, <1>3, OneAsks

\* A question that has written ws, and maybe a row of its own, and goes on.
LEMMA OneContinues ==
    ASSUME AnswersInv, NEW r \in Askers, NEW q, AskedOK(q), QuestionContinues(r, q),
           q.mine \cap BagToSet(rows) = {}, \A o \in Askers \ {r} : q.mine \cap asking[o].mine = {}
    PROVE  AnswersInv'
<1>1. PICK s : s = Settled(q)
  OBVIOUS
<1>2. QuestionOK(s) /\ s.mine = q.mine
  BY <1>1, SettledOK DEF QuestionOK
<1>3. asking' = [asking EXCEPT ![r] = s] /\ UNCHANGED <<fragments, packages, rows, links, members, answers>>
  BY <1>1 DEF QuestionContinues, QuestionGoes
<1> QED
  BY <1>2, <1>3, OneAsks

LEMMA StartsOK ==
    ASSUME AnswersInv, NEW kind \in {"reason", "semantic"}, NEW p \in 0 .. Len(packages), NEW ev \in Rankable,
           p # 0 => ev = packages[p]
    PROVE  AskedOK(Start(kind, p, ev)) /\ Start(kind, p, ev).mine = {}
<1>1. PICK todo : todo = Ensures("semantic", ev)
  OBVIOUS
<1>2. PICK q : q = [NoQuestion EXCEPT !.at = "semantic", !.kind = kind, !.pkg = p, !.ev = ev, !.todo = todo]
  OBVIOUS
<1>3. /\ DOMAIN q = QuestionFields /\ q.at = "semantic" /\ q.kind = kind /\ q.pkg = p /\ q.ev = ev
      /\ q.todo = todo /\ q.found = FALSE /\ q.mine = {} /\ q.linked = {} /\ q.joined = {} /\ q.seen = {}
  BY <1>2 DEF NoQuestion, QuestionFields
<1>4. todo \in Seq(SemanticRows(ev)) /\ \A l \in TripleLinks(ev) : RowOf(l[1], l[2]) \in Range(todo)
  BY <1>1, EnsuresSemantic
<1>5. /\ ToDo("semantic", ev) = SemanticRows(ev) /\ Due("semantic", kind, ev) = TripleLinks(ev)
      /\ Sought("semantic", kind, ev) = {}
  BY DEF ToDo, Due, Sought
<1>6. IsAsked(q)
  BY <1>3, <1>4, <1>5 DEF IsAsked
<1>7. LinksSoFar(q) /\ SeenSoFar(q)
  BY <1>3, <1>4, <1>5 DEF LinksSoFar, SeenSoFar
<1>8. AskedOK(q)
  BY <1>6, <1>7 DEF AskedOK
<1>9. Start(kind, p, ev) = Settled(q)
  BY <1>1, <1>2 DEF Start
<1> QED
  BY <1>3, <1>8, <1>9, SettledOK

LEMMA AskStarts ==
    ASSUME AnswersInv, NEW r \in Askers, NEW kind \in {"reason", "semantic"}, NEW p \in 0 .. Len(packages),
           NEW ev \in Rankable, p # 0 => ev = packages[p], QuestionBegins(r, Start(kind, p, ev))
    PROVE  AnswersInv'
<1>1. PICK s : s = Start(kind, p, ev)
  OBVIOUS
<1>2. QuestionOK(s) /\ s.mine = {}
  BY <1>1, StartsOK DEF QuestionOK
<1>3. asking' = [asking EXCEPT ![r] = s] /\ UNCHANGED <<fragments, packages, rows, links, members, answers>>
  BY <1>1 DEF QuestionBegins
<1> QED
  BY <1>2, <1>3, OneAsks
-----------------------------------------------------------------------------
(* The steps of a question                                                 *)

LEMMA RowsOfPhase ==
    ASSUME NEW ev
    PROVE  /\ \A at \in {"semantic", "claims"} : \A w \in ToDo(at, ev) :
                IsClaim(w.key) => <<w.key, w.f>> \in TripleLinks(ev) \cup AssertionLinks(ev)
           /\ \A l \in TripleLinks(ev) \cup AssertionLinks(ev) :
                IsClaim(l[1]) /\ RowOf(l[1], l[2]).key = l[1] /\ RowOf(l[1], l[2]).f = l[2] /\ <<l[1], l[2]>> = l
<1>1. ASSUME NEW l \in TripleLinks(ev) \cup AssertionLinks(ev)
      PROVE  IsClaim(l[1]) /\ RowOf(l[1], l[2]).key = l[1] /\ RowOf(l[1], l[2]).f = l[2] /\ <<l[1], l[2]>> = l
  <2>1. \E f : l = <<Triple(f), f>> \/ l = <<Assertion(f), f>>
    BY DEF TripleLinks, AssertionLinks
  <2> QED
    BY <2>1, ClaimsAreKeys DEF RowOf
<1>2. ASSUME NEW w \in ToDo("semantic", ev), IsClaim(w.key) PROVE <<w.key, w.f>> \in TripleLinks(ev)
  <2>1. w \in SemanticRows(ev)
    BY DEF ToDo
  <2>2. CASE \E l \in TripleLinks(ev) : w = RowOf(l[1], l[2])
    <3>1. PICK l \in TripleLinks(ev) : w = RowOf(l[1], l[2])
      BY <2>2
    <3>2. w.key = l[1] /\ w.f = l[2] /\ <<l[1], l[2]>> = l
      BY <3>1, <1>1
    <3> QED
      BY <3>2
  <2>3. CASE \E name, f : w = RowOf(Entity(name), f)
    BY <2>3, <1>2, EntitiesAreNoClaims DEF RowOf
  <2> QED
    BY <2>1, <2>2, <2>3 DEF SemanticRows
<1>3. ASSUME NEW w \in ToDo("claims", ev) PROVE <<w.key, w.f>> \in AssertionLinks(ev)
  <2>1. w \in AssertionRows(ev)
    BY DEF ToDo
  <2>2. PICK l \in AssertionLinks(ev) : w = RowOf(l[1], l[2])
    BY <2>1 DEF AssertionRows
  <2>3. w.key = l[1] /\ w.f = l[2] /\ <<l[1], l[2]>> = l
    BY <2>2, <1>1
  <2> QED
    BY <2>3
<1> QED
  BY <1>1, <1>2, <1>3

Leaves(q, rest, found, mine) == [q EXCEPT !.todo = rest, !.found = found, !.mine = mine]

\* The rows of ws are there, or written; the rest is left.
Advanced(q, rest, ws, found, mine) ==
    /\ AskedOK(q) /\ q.at \in {"semantic", "claims"}
    /\ rest \in Seq(ToDo(q.at, q.ev)) /\ Range(q.todo) = ws \cup Range(rest)
    /\ found \in BOOLEAN
    /\ found => rest # <<>>
    /\ q.mine \subseteq mine
    /\ \A w \in ws : w.key \in mine \cup BagToSet(rows)

LEMMA LinkOK ==
    ASSUME NEW q, NEW rest, NEW ws, NEW found, NEW mine, Advanced(q, rest, ws, found, mine),
           NEW isNew, NEW n, n = Link(Leaves(q, rest, found, mine), ws, isNew)
    PROVE  AskedOK(n) /\ n.mine = mine
<1>0. /\ AskedOK(q) /\ q.at \in {"semantic", "claims"}
      /\ rest \in Seq(ToDo(q.at, q.ev)) /\ Range(q.todo) = ws \cup Range(rest)
      /\ found \in BOOLEAN
      /\ found => rest # <<>>
      /\ q.mine \subseteq mine
      /\ \A w \in ws : w.key \in mine \cup BagToSet(rows)
  BY DEF Advanced
<1> DEFINE claims == {w \in ws : IsClaim(w.key)}
           new == {<<w.key, w.f>> : w \in claims}
           keys == {w.key : w \in claims}
<1>1. PICK p : p = Leaves(q, rest, found, mine)
  OBVIOUS
<1>2. DOMAIN q = QuestionFields
  BY <1>0 DEF AskedOK, IsAsked
<1>3. /\ DOMAIN p = QuestionFields /\ p.at = q.at /\ p.kind = q.kind /\ p.pkg = q.pkg /\ p.ev = q.ev
      /\ p.todo = rest /\ p.found = found /\ p.mine = mine /\ p.linked = q.linked /\ p.joined = q.joined
      /\ p.seen = q.seen
  BY <1>1, <1>2 DEF QuestionFields, Leaves
<1>4. n = [p EXCEPT !.linked = @ \cup new, !.joined = @ \cup keys]
  BY <1>1 DEF Link
<1>6. /\ DOMAIN n = QuestionFields /\ n.at = q.at /\ n.kind = q.kind /\ n.pkg = q.pkg /\ n.ev = q.ev
      /\ n.todo = rest /\ n.found = found /\ n.mine = mine /\ n.seen = q.seen
      /\ n.linked = q.linked \cup new /\ n.joined = q.joined \cup keys
  <2> HIDE DEF new, keys
  <2> QED
    BY <1>3, <1>4 DEF QuestionFields
<1>7. ws \subseteq ToDo(q.at, q.ev)
  <2>1. q.todo \in Seq(ToDo(q.at, q.ev))
    BY <1>0 DEF AskedOK, IsAsked
  <2>2. Range(q.todo) \subseteq ToDo(q.at, q.ev)
    BY <2>1, ElementsOfSeq
  <2> QED
    BY <1>0, <2>2
<1>8. new \subseteq TripleLinks(q.ev) \cup AssertionLinks(q.ev)
  BY <1>0, <1>7, RowsOfPhase
<1>9. keys = {l[1] : l \in new}
  <2>1. \A w : <<w.key, w.f>>[1] = w.key
    OBVIOUS
  <2> QED
    BY <2>1
<1>10. keys \subseteq mine \cup BagToSet(rows)
  BY <1>0
<1>11. ASSUME NEW l \in TripleLinks(q.ev) \cup AssertionLinks(q.ev), RowOf(l[1], l[2]) \in ws PROVE l \in new
  <2>1. IsClaim(l[1]) /\ RowOf(l[1], l[2]).key = l[1] /\ RowOf(l[1], l[2]).f = l[2] /\ <<l[1], l[2]>> = l
    BY RowsOfPhase
  <2>2. RowOf(l[1], l[2]) \in claims
    BY <1>11, <2>1
  <2> QED
    BY <2>1, <2>2
<1>12. IsAsked(n)
  BY <1>0, <1>6 DEF AskedOK, IsAsked
<1>13. LinksSoFar(n)
  <2> HIDE DEF new, keys
  <2>1. n.linked \subseteq TripleLinks(n.ev) \cup AssertionLinks(n.ev)
    BY <1>0, <1>6, <1>8 DEF AskedOK, LinksSoFar
  <2>2. n.joined = {l[1] : l \in n.linked}
    BY <1>0, <1>6, <1>9 DEF AskedOK, LinksSoFar
  <2>3. n.joined \subseteq n.mine \cup BagToSet(rows)
    BY <1>0, <1>6, <1>10 DEF AskedOK, LinksSoFar
  <2>4. ASSUME NEW l \in Due(n.at, n.kind, n.ev)
        PROVE  l \in n.linked \/ (n.at \in {"semantic", "claims"} /\ RowOf(l[1], l[2]) \in Range(n.todo))
    <3>1. l \in Due(q.at, q.kind, q.ev) /\ l \in TripleLinks(q.ev) \cup AssertionLinks(q.ev)
      BY <1>0, <1>6 DEF Due
    <3>2. l \in q.linked \/ RowOf(l[1], l[2]) \in Range(q.todo)
      BY <3>1, <1>0 DEF AskedOK, LinksSoFar
    <3> QED
      BY <1>0, <3>1, <3>2, <1>6, <1>11
  <2> QED
    BY <2>1, <2>2, <2>3, <2>4 DEF LinksSoFar
<1>14. SeenSoFar(n)
  BY <1>0, <1>6 DEF AskedOK, SeenSoFar
<1> QED
  BY <1>6, <1>12, <1>13, <1>14 DEF AskedOK

LEMMA LookStep == ASSUME AnswersInv, NEW r \in Askers, Look(r) PROVE AnswersInv'
<1>1. PICK q : q = asking[r]
  OBVIOUS
<1> DEFINE there == {n \in 0 .. Len(q.todo) : \A i \in 1 .. n : Committed(q.todo[i].key) \/ q.todo[i].key \in q.mine}
           n == CHOOSE i \in there : \A j \in there : j <= i
           ws == {q.todo[i] : i \in 1 .. n}
           rest == SubSeq(q.todo, n + 1, Len(q.todo))
<1>2. /\ q.at \in {"semantic", "claims"}
      /\ QuestionContinues(r, Link([q EXCEPT !.todo = SubSeq(@, n + 1, Len(@)), !.found = n < Len(q.todo)], ws, FALSE))
  BY <1>1, Zenon DEF Look
<1>3. AskedOK(q) /\ q.mine \cap BagToSet(rows) = {} /\ \A o \in Askers \ {r} : q.mine \cap asking[o].mine = {}
  BY <1>1, <1>2, TheQuestion
<1>4. q.todo \in Seq(ToDo(q.at, q.ev)) /\ Len(q.todo) \in Nat
  BY <1>3 DEF AskedOK, IsAsked
<1>5. n \in there
  <2>1. 0 \in there /\ there \subseteq 0 .. Len(q.todo)
    BY <1>4
  <2>2. \E i \in there : \A j \in there : j <= i
    <3> HIDE DEF there
    <3> QED
      BY <2>1, <1>4, GreatestBelow
  <2> HIDE DEF there
  <2> QED
    BY <2>2
<1> HIDE DEF n
<1>6. n \in 0 .. Len(q.todo) /\ \A w \in ws : w.key \in q.mine \cup BagToSet(rows)
  BY <1>5 DEF Committed
<1>7. /\ rest \in Seq(ToDo(q.at, q.ev))
      /\ Range(q.todo) = ws \cup Range(rest)
      /\ (rest = <<>> <=> n = Len(q.todo))
  <2>1. PICK todo, S : todo = q.todo /\ S = ToDo(q.at, q.ev)
    OBVIOUS
  <2>2. todo \in Seq(S) /\ n \in 0 .. Len(todo)
    BY <2>1, <1>4, <1>6
  <2>3. /\ SubSeq(todo, n + 1, Len(todo)) \in Seq(S)
        /\ Range(todo) = {todo[i] : i \in 1..n} \cup Range(SubSeq(todo, n + 1, Len(todo)))
        /\ (SubSeq(todo, n + 1, Len(todo)) = <<>> <=> n = Len(todo))
    BY <2>2, RangeOfRest
  <2> HIDE DEF there
  <2> QED
    BY <2>1, <2>3
<1>8. (n < Len(q.todo)) \in BOOLEAN /\ (n < Len(q.todo) => rest # <<>>)
  <2> HIDE DEF there, rest, ws
  <2> QED
    BY <1>4, <1>6, <1>7
<1> HIDE DEF there, rest, ws
<1>9. PICK found \in BOOLEAN : found = (n < Len(q.todo)) /\ (found => rest # <<>>)
  BY <1>8
<1>10. PICK isNew, s : isNew = FALSE /\ s = Link(Leaves(q, rest, found, q.mine), ws, isNew)
  OBVIOUS
<1>11. AskedOK(s) /\ s.mine = q.mine
  <2>1. PICK mine : mine = q.mine
    OBVIOUS
  <2>2. q.mine \subseteq mine /\ (\A w \in ws : w.key \in mine \cup BagToSet(rows)) /\ (found => rest # <<>>)
    BY <2>1, <1>6, <1>9
  <2>3. s = Link(Leaves(q, rest, found, mine), ws, isNew)
    BY <2>1, <1>10
  <2>4. AskedOK(s) /\ s.mine = mine
    <3>1. AskedOK(q) /\ q.at \in {"semantic", "claims"}
      BY <1>2, <1>3
    <3>2. rest \in Seq(ToDo(q.at, q.ev)) /\ Range(q.todo) = ws \cup Range(rest)
      BY <1>7
    <3>3. found \in BOOLEAN /\ (found = TRUE => rest # <<>>)
      BY <2>2
    <3>4. q.mine \subseteq mine /\ (\A w \in ws : w.key \in mine \cup BagToSet(rows))
      BY <2>2
    <3> QED
      <4>1. Advanced(q, rest, ws, found, mine)
        BY <3>1, <3>2, <3>3, <3>4 DEF Advanced
      <4> QED
        BY <4>1, <2>3, LinkOK
  <2> QED
    BY <2>1, <2>4
<1>12. [q EXCEPT !.todo = SubSeq(@, n + 1, Len(@)), !.found = n < Len(q.todo)]
         = Leaves(q, rest, found, q.mine)
  <2>1. DOMAIN q = QuestionFields
    BY <1>3 DEF AskedOK, IsAsked
  <2> QED
    BY <1>9, <2>1 DEF rest, QuestionFields, Leaves
<1>13. QuestionContinues(r, s)
  BY <1>2, <1>10, <1>12
<1> QED
  BY <1>3, <1>11, <1>13, OneContinues

LEMMA SettledNone == Settled(NoQuestion) = NoQuestion
<1>1. PICK q : q = NoQuestion
  OBVIOUS
<1>2. q.at = "idle"
  BY <1>1, NoQuestionOK
<1>3. \A from \in {"semantic", "scope", "claims", "polarity"} : \A to, todo : Then(q, from, to, todo) = q
  BY <1>2 DEF Then
<1>4. AfterSemantic(q) = q /\ AfterScope(q) = q /\ AfterClaims(q) = q
  BY <1>3 DEF AfterSemantic, AfterScope, AfterClaims
<1>5. Settled(q) = q
  BY <1>3, <1>4 DEF Settled
<1> QED
  BY <1>1, <1>5

\* Who does not wait wants nothing that another has written.
LEMMA NoneElseHas ==
    ASSUME NEW r \in Askers, ~ Waits(r)
    PROVE  \A o \in Askers \ {r} : Wants(r) \cap asking[o].mine = {}
  BY DEF Waits, WaitsFor

LEMMA InsertStep == ASSUME AnswersInv, NEW r \in Askers, Insert(r) PROVE AnswersInv'
<1>1. PICK q, w, key : q = asking[r] /\ w = Head(q.todo) /\ key = w.key
  OBVIOUS
<1>2. /\ q.found /\ ~ Waits(r)
      /\ QuestionContinues(r, IF Committed(key) THEN NoQuestion
                      ELSE Link([q EXCEPT !.todo = Tail(@), !.found = FALSE, !.mine = @ \cup {key}], {w}, TRUE))
  BY <1>1, Zenon DEF Insert
<1>3. AskedOK(q) /\ q.mine \cap BagToSet(rows) = {} /\ \A o \in Askers \ {r} : q.mine \cap asking[o].mine = {}
  <2>1. QuestionOK(q)
    BY <1>1, TheQuestion
  <2>2. q # NoQuestion
    BY <1>2, NoQuestionOK
  <2> QED
    BY <1>1, <2>1, <2>2, TheQuestion DEF QuestionOK
<1>4. q.at \in {"semantic", "claims"} /\ q.todo # <<>> /\ q.todo \in Seq(ToDo(q.at, q.ev)) /\ DOMAIN q = QuestionFields
  BY <1>2, <1>3 DEF AskedOK, IsAsked
<1>5. CASE Committed(key)
  <2>1. QuestionContinues(r, NoQuestion)
    BY <1>2, <1>5
  <2>2. QuestionGoes(r, NoQuestion)
    BY <2>1, SettledNone DEF QuestionContinues
  <2> QED
    BY <2>2, AskerEnds
<1>6. CASE ~ Committed(key)
  <2>1. PICK rest, mine, none, isNew : rest = Tail(q.todo) /\ mine = q.mine \cup {key} /\ none = FALSE /\ isNew = TRUE
    OBVIOUS
  <2>2. [q EXCEPT !.todo = Tail(@), !.found = FALSE, !.mine = @ \cup {key}] = Leaves(q, rest, none, mine)
    BY <2>1, <1>4 DEF Leaves, QuestionFields
  <2>3. PICK s : s = Link(Leaves(q, rest, none, mine), {w}, isNew)
    OBVIOUS
  <2>4. QuestionContinues(r, s)
    BY <1>2, <1>6, <2>1, <2>2, <2>3
  <2>5. rest \in Seq(ToDo(q.at, q.ev)) /\ Range(q.todo) = {w} \cup Range(rest)
    <3>1. PICK S, todo : S = ToDo(q.at, q.ev) /\ todo = q.todo
      OBVIOUS
    <3>2. Tail(todo) \in Seq(S) /\ Range(todo) = {Head(todo)} \cup Range(Tail(todo))
      BY <3>1, <1>4, RangeOfTail
    <3> QED
      BY <3>1, <3>2, <2>1, <1>1
  <2>6. Advanced(q, rest, {w}, none, mine)
    BY <1>1, <1>3, <1>4, <2>1, <2>5 DEF Advanced
  <2>7. AskedOK(s) /\ s.mine = mine
    BY <2>3, <2>6, LinkOK
  <2>8. Wants(r) = {key}
    BY <1>1, <1>2, <1>4 DEF Wants
  <2>9. s.mine \cap BagToSet(rows) = {} /\ \A o \in Askers \ {r} : s.mine \cap asking[o].mine = {}
    BY <1>2, <1>3, <1>6, <2>1, <2>7, <2>8, NoneElseHas DEF Committed
  <2> QED
    BY <2>4, <2>7, <2>9, OneContinues
<1> QED
  BY <1>5, <1>6

\* A clash that is written, or found written, is seen.
LEMMA SeenOK ==
    ASSUME NEW q, AskedOK(q), q.at \in {"scope", "polarity"}, q.todo # <<>>,
           NEW mine, q.mine \subseteq mine,
           NEW n, n = [q EXCEPT !.todo = Tail(@), !.seen = @ \cup {Head(q.todo)}, !.mine = mine]
    PROVE  AskedOK(n) /\ n.mine = mine
<1>1. DOMAIN q = QuestionFields /\ q.todo \in Seq(ToDo(q.at, q.ev)) /\ q.found = FALSE
  BY DEF AskedOK, IsAsked
<1>2. PICK rest, k : rest = Tail(q.todo) /\ k = Head(q.todo)
  OBVIOUS
<1>3. /\ DOMAIN n = QuestionFields /\ n.at = q.at /\ n.kind = q.kind /\ n.pkg = q.pkg /\ n.ev = q.ev
      /\ n.todo = rest /\ n.found = FALSE /\ n.mine = mine /\ n.linked = q.linked /\ n.joined = q.joined
      /\ n.seen = q.seen \cup {k}
  BY <1>1, <1>2 DEF QuestionFields
<1>4. rest \in Seq(ToDo(q.at, q.ev)) /\ k \in ToDo(q.at, q.ev) /\ Range(q.todo) = {k} \cup Range(rest)
  <2>1. PICK S, todo : S = ToDo(q.at, q.ev) /\ todo = q.todo
    OBVIOUS
  <2>2. Tail(todo) \in Seq(S) /\ Head(todo) \in S /\ Range(todo) = {Head(todo)} \cup Range(Tail(todo))
    BY <2>1, <1>1, RangeOfTail
  <2> QED
    BY <2>1, <2>2, <1>2
<1>5. k \in Sought(q.at, q.kind, q.ev)
  <2>1. CASE q.at = "scope"
    BY <2>1, <1>4 DEF ToDo, Sought
  <2>2. CASE q.at = "polarity"
    <3>1. q.kind # "semantic"
      BY <2>2 DEF AskedOK, IsAsked
    <3>2. k \in PolarityClashes(q.ev)
      BY <2>2, <1>4 DEF ToDo
    <3> QED
      BY <2>2, <3>1, <3>2 DEF Sought
  <2> QED
    BY <2>1, <2>2
<1>6. IsAsked(n)
  BY <1>3, <1>4 DEF AskedOK, IsAsked
<1>7. LinksSoFar(n)
  <2>1. n.joined \subseteq n.mine \cup BagToSet(rows)
    BY <1>3 DEF AskedOK, LinksSoFar
  <2>2. \A l \in Due(n.at, n.kind, n.ev) : l \in n.linked
    BY <1>3 DEF AskedOK, LinksSoFar
  <2> QED
    BY <1>3, <2>1, <2>2 DEF AskedOK, LinksSoFar
<1>8. SeenSoFar(n)
  BY <1>3, <1>4, <1>5 DEF AskedOK, SeenSoFar
<1> QED
  BY <1>3, <1>6, <1>7, <1>8 DEF AskedOK

LEMMA DetectStep == ASSUME AnswersInv, NEW r \in Askers, Detect(r) PROVE AnswersInv'
<1>1. PICK q, k, mine : q = asking[r] /\ k = Head(q.todo) /\ mine = IF Committed(k) THEN q.mine ELSE q.mine \cup {k}
  OBVIOUS
<1>2. PICK n : n = [q EXCEPT !.todo = Tail(@), !.seen = @ \cup {Head(q.todo)}, !.mine = mine]
  OBVIOUS
<1>3. q.at \in {"scope", "polarity"} /\ q.todo # <<>> /\ ~ Waits(r)
  BY <1>1 DEF Detect
<1>4. QuestionContinues(r, n)
  <2>1. QuestionContinues(r, [q EXCEPT !.todo = Tail(@), !.seen = @ \cup {k},
                                 !.mine = IF Committed(k) THEN @ ELSE @ \cup {k}])
    BY <1>1, Zenon DEF Detect
  <2>2. [q EXCEPT !.todo = Tail(@), !.seen = @ \cup {k}, !.mine = IF Committed(k) THEN @ ELSE @ \cup {k}] = n
    BY <1>1, <1>2
  <2> QED
    BY <2>1, <2>2
<1>5. AskedOK(q) /\ q.mine \cap BagToSet(rows) = {} /\ \A o \in Askers \ {r} : q.mine \cap asking[o].mine = {}
  BY <1>1, <1>3, TheQuestion
<1>6. AskedOK(n) /\ n.mine = mine
  <2>1. q.mine \subseteq mine
    BY <1>1
  <2> QED
    BY <2>1, <1>2, <1>3, <1>5, SeenOK
<1>7. Wants(r) = {k}
  BY <1>1, <1>3 DEF Wants
<1>8. n.mine \cap BagToSet(rows) = {} /\ \A o \in Askers \ {r} : n.mine \cap asking[o].mine = {}
  BY <1>1, <1>3, <1>5, <1>6, <1>7, NoneElseHas DEF Committed
<1> QED
  BY <1>4, <1>6, <1>8, OneContinues

-----------------------------------------------------------------------------
(* The answer                                                              *)

LEMMA BagAdds ==
    ASSUME NEW B, NEW S, \A k \in BagToSet(B) : B[k] = 1, S \cap BagToSet(B) = {}
    PROVE  /\ BagToSet(B (+) SetToBag(S)) = BagToSet(B) \cup S
           /\ \A k \in BagToSet(B (+) SetToBag(S)) : (B (+) SetToBag(S))[k] = 1
  BY DEF BagToSet, SetToBag, (+)

\* A question has seen a clash when two of its paragraphs contradict each other.
LEMMA ClashesAreContradictions ==
    ASSUME NEW ev
    PROVE  ScopeClashes(ev) \cup PolarityClashes(ev) # {} <=> \E f, g \in Range(ev) : Contradicts(f, g)
<1>1. ASSUME NEW f \in Range(ev), NEW g \in Range(ev), Contradicts(f, g)
      PROVE  ScopeClashes(ev) \cup PolarityClashes(ev) # {}
  <2>1. CASE /\ Text(f).said # "" /\ <<Text(f).subject, Text(f).said>> = <<Text(g).subject, Text(g).said>>
             /\ Text(f).denied # Text(g).denied
    <3>1. Contradict(Assertion(f), Assertion(g))
      BY <2>1, ClaimsAreKeys DEF Contradict
    <3>2. <<f, g>> \in {x \in Range(ev) \X Range(ev) : Contradict(Assertion(x[1]), Assertion(x[2]))}
      BY <3>1
    <3> QED
      BY <3>2 DEF PolarityClashes
  <2>2. CASE Text(f).subject # "" /\ Text(f).subject = Text(g).subject /\ Text(f).said # Text(g).said
    <3>1. ScopeConflict(Triple(f), Triple(g)) /\ f \in Telling(ev) /\ g \in Telling(ev)
      BY <2>2, ClaimsAreKeys DEF ScopeConflict, Telling
    <3>2. <<f, g>> \in {x \in Telling(ev) \X Telling(ev) : ScopeConflict(Triple(x[1]), Triple(x[2]))}
      BY <3>1
    <3> QED
      BY <3>2 DEF ScopeClashes
  <2> QED
    BY <1>1, <2>1, <2>2 DEF Contradicts
<1>2. ASSUME ScopeClashes(ev) # {} PROVE \E f, g \in Range(ev) : Contradicts(f, g)
  <2>1. PICK f \in Telling(ev), g \in Telling(ev) : ScopeConflict(Triple(f), Triple(g))
    BY <1>2 DEF ScopeClashes
  <2>2. f \in Range(ev) /\ g \in Range(ev) /\ Text(f).subject # ""
    BY DEF Telling
  <2>3. Contradicts(f, g)
    BY <2>1, <2>2, ClaimsAreKeys DEF ScopeConflict, Contradicts
  <2> QED
    BY <2>2, <2>3
<1>3. ASSUME PolarityClashes(ev) # {} PROVE \E f, g \in Range(ev) : Contradicts(f, g)
  <2>1. PICK f \in Range(ev), g \in Range(ev) : Contradict(Assertion(f), Assertion(g))
    BY <1>3 DEF PolarityClashes
  <2>2. Contradicts(f, g)
    BY <2>1, ClaimsAreKeys DEF Contradict, Contradicts
  <2> QED
    BY <2>2
<1> QED
  BY <1>1, <1>2, <1>3

\* What a question that is to be answered has found.
LEMMA Answerable ==
    ASSUME AnswersInv, NEW q, AskedOK(q), q.at = "answer"
    PROVE  /\ q.ev \in Rankable /\ \A k \in q.joined : k \in ClaimsIn(q.ev)
           /\ q.kind # "semantic" =>
                /\ \A f \in Range(q.ev) : <<Assertion(f), f>> \in q.linked
                /\ q.seen = ScopeClashes(q.ev) \cup PolarityClashes(q.ev)
<1>1. q.ev \in Rankable
  BY DEF AskedOK, IsAsked
<1>2. \A k \in q.joined : k \in ClaimsIn(q.ev)
  BY ClaimsOfQuestion DEF ClaimsOf
<1>3. ASSUME q.kind # "semantic"
      PROVE  /\ \A f \in Range(q.ev) : <<Assertion(f), f>> \in q.linked
             /\ q.seen = ScopeClashes(q.ev) \cup PolarityClashes(q.ev)
  <2>1. /\ AssertionLinks(q.ev) \subseteq Due(q.at, q.kind, q.ev)
        /\ Sought(q.at, q.kind, q.ev) = ScopeClashes(q.ev) \cup PolarityClashes(q.ev)
    BY <1>3 DEF Due, Sought
  <2>2. \A l \in AssertionLinks(q.ev) : l \in q.linked
    BY <2>1 DEF AskedOK, LinksSoFar
  <2>3. \A f \in Range(q.ev) : <<Assertion(f), f>> \in AssertionLinks(q.ev)
    BY DEF AssertionLinks
  <2> QED
    BY <2>1, <2>2, <2>3 DEF AskedOK, SeenSoFar
<1> QED
  BY <1>1, <1>2, <1>3

LEMMA AssertionsAreTyped ==
    ASSUME AnswersInv, NEW ev \in Rankable
    PROVE  {Assertion(f) : f \in Range(ev)} \subseteq AssertionType
<1>1. \A f \in Range(ev) : f \in DOMAIN fragments
  BY DEF Rankable, Range
<1>2. \A f \in DOMAIN fragments : fragments[f] \in Paragraphs
  BY DEF AnswersInv, TextsAreTyped
<1> QED
  BY <1>1, <1>2 DEF AssertionType, Assertion, Text

\* The record that Answer writes.
AnswerOf(q, p) ==
    [pkg |-> p, contested |-> q.seen # {},
     supporting |-> {Assertion(f) : f \in {q.ev[i] : i \in DOMAIN q.ev}},
     conflicting |-> UNION {k[2] : k \in {s \in q.seen : s[1] = "polarity"}}]

LEMMA AnswerIsTrue ==
    ASSUME AnswersInv, NEW q, AskedOK(q), q.at = "answer", q.kind # "semantic", NEW p \in Nat,
           NEW a, a = AnswerOf(q, p)
    PROVE  /\ a \in AnswerType /\ a.pkg = p
           /\ a.supporting = {Assertion(f) : f \in Range(q.ev)}
           /\ a.conflicting \subseteq a.supporting
           /\ (a.contested <=> \E f, g \in Range(q.ev) : Contradicts(f, g))
<1>1. PICK supporting, conflicting, contested :
         /\ supporting = {Assertion(f) : f \in {q.ev[i] : i \in DOMAIN q.ev}}
         /\ conflicting = UNION {k[2] : k \in {s \in q.seen : s[1] = "polarity"}}
         /\ contested = (q.seen # {})
  OBVIOUS
<1>2. a = [pkg |-> p, contested |-> contested, supporting |-> supporting, conflicting |-> conflicting]
  BY <1>1, Zenon DEF AnswerOf
<1>3. supporting = {Assertion(f) : f \in Range(q.ev)}
  BY <1>1 DEF Range
<1>4. q.seen = ScopeClashes(q.ev) \cup PolarityClashes(q.ev) /\ q.ev \in Rankable
  BY Answerable
<1>5. conflicting \subseteq supporting
  <2>1. ASSUME NEW k \in q.seen, k[1] = "polarity" PROVE k[2] \subseteq supporting
    <3>1. k \notin ScopeClashes(q.ev)
      BY <2>1 DEF ScopeClashes
    <3>2. k \in PolarityClashes(q.ev)
      BY <1>4, <3>1
    <3>3. PICK f \in Range(q.ev), g \in Range(q.ev) : k = <<"polarity", {Assertion(f), Assertion(g)}>>
      BY <3>2 DEF PolarityClashes
    <3> QED
      BY <1>3, <3>3
  <2> QED
    BY <1>1, <2>1
<1>6. supporting \subseteq AssertionType
  BY <1>3, <1>4, AssertionsAreTyped
<1>7. contested \in BOOLEAN /\ (contested <=> \E f, g \in Range(q.ev) : Contradicts(f, g))
  BY <1>1, <1>4, ClashesAreContradictions
<1>8. a.pkg = p /\ a.supporting = supporting /\ a.conflicting = conflicting /\ (a.contested <=> contested)
  BY <1>2
<1>9. a \in AnswerType
  BY <1>2, <1>5, <1>6, <1>7 DEF AnswerType
<1> QED
  BY <1>3, <1>5, <1>7, <1>8, <1>9

LEMMA AnswerStep == ASSUME AnswersInv, NEW r \in Askers, Answer(r) PROVE AnswersInv'
<1>1. PICK q, p, ev : q = asking[r] /\ p = (IF q.pkg = 0 THEN Len(packages) + 1 ELSE q.pkg) /\ ev = q.ev
  OBVIOUS
<1>2. /\ q.at = "answer"
      /\ packages' = IF q.pkg = 0 THEN Append(packages, ev) ELSE packages
      /\ rows' = rows (+) SetToBag(q.mine)
      /\ links' = links \cup q.linked
      /\ members' = members \cup {<<p, k>> : k \in q.joined}
      /\ answers' = IF q.kind = "semantic" THEN answers ELSE Append(answers, AnswerOf(q, p))
      /\ asking' = [asking EXCEPT ![r] = NoQuestion]
      /\ fragments' = fragments
  BY <1>1, Zenon DEF Answer, AnswerOf
<1>3. AskedOK(q) /\ q.mine \cap BagToSet(rows) = {}
  BY <1>1, <1>2, TheQuestion
<1>4. ev \in Rankable /\ q.pkg \in 0 .. Len(packages) /\ (q.pkg # 0 => ev = packages[q.pkg])
  BY <1>1, <1>3 DEF AskedOK, IsAsked
<1>5. TextsAreTyped
  BY DEF AnswersInv
<1>6. Rankable' = Rankable /\ \A f : Assertion(f)' = Assertion(f) /\ Triple(f)' = Triple(f) /\ Text(f)' = Text(f)
  BY <1>2 DEF Rankable, Assertion, Triple, Text
<1>7. p \in Nat /\ p \in DOMAIN packages' /\ packages'[p] = ev /\ packages' \in Seq(Rankable)
  <2>1. packages \in Seq(Rankable) /\ Len(packages) \in Nat
    BY <1>5 DEF TextsAreTyped
  <2>2. CASE q.pkg = 0
    BY <2>1, <2>2, <1>1, <1>2, <1>4
  <2>3. CASE q.pkg # 0
    BY <2>1, <2>3, <1>1, <1>2, <1>4
  <2> QED
    BY <2>2, <2>3
<1>8. \A x \in DOMAIN packages : x \in DOMAIN packages' /\ packages'[x] = packages[x]
  <2>1. packages \in Seq(Rankable)
    BY <1>5 DEF TextsAreTyped
  <2> QED
    BY <2>1, <1>2, <1>4
<1>9. TextsAreTyped'
  <2>1. answers' \in Seq(AnswerType)
    <3>1. q.kind # "semantic" => AnswerOf(q, p) \in AnswerType
      BY <1>2, <1>3, <1>7, AnswerIsTrue
    <3> QED
      BY <3>1, <1>2, <1>5 DEF TextsAreTyped
  <2> QED
    BY <2>1, <1>2, <1>5, <1>6, <1>7 DEF TextsAreTyped
<1>10. BagToSet(rows') = BagToSet(rows) \cup q.mine /\ \A k \in BagToSet(rows') : rows'[k] = 1
  <2>1. \A k \in BagToSet(rows) : rows[k] = 1
    BY DEF AnswersInv, OneRowEach, OneRowPerFact
  <2> QED
    BY <2>1, <1>2, <1>3, BagAdds
<1>11. Grows
  BY <1>2, <1>8, <1>9, <1>10 DEF Grows
<1>12. DOMAIN asking' = Askers /\ \A o \in Askers : asking'[o] = IF o = r THEN NoQuestion ELSE asking[o]
  BY <1>2 DEF AnswersInv, QuestionsAgree
<1>13. OneRowEach'
  <2>1. OneRowPerFact'
    BY <1>10 DEF OneRowPerFact
  <2>2. \A o \in Askers : asking'[o].mine \cap BagToSet(rows') = {}
    BY <1>1, <1>10, <1>12, NoQuestionOK DEF AnswersInv, OneRowEach
  <2>3. \A o, x \in Askers : o # x => asking'[o].mine \cap asking'[x].mine = {}
    BY <1>12, NoQuestionOK DEF AnswersInv, OneRowEach
  <2> QED
    BY <2>1, <2>2, <2>3 DEF OneRowEach
<1>14. QuestionsAgree'
  <2>1. ASSUME NEW o \in Askers PROVE QuestionOK(asking[o])'
    <3>1. PICK v : v = IF o = r THEN NoQuestion ELSE asking[o]
      OBVIOUS
    <3>2. QuestionOK(v)
      BY <3>1, NoQuestionOK, TheQuestion
    <3>3. QuestionOK(v)' /\ asking'[o] = v
      BY <3>1, <3>2, <1>11, <1>12, QuestionStays
    <3> QED
      BY <3>3
  <2> QED
    BY <2>1, <1>12 DEF QuestionsAgree
<1>15. ASSUME NEW l \in links' PROVE IsEvident(l)'
  <2>1. CASE l \in links
    BY <2>1, <1>11, StoredStays
  <2>2. CASE l \in q.linked
    <3>1. l \in TripleLinks(ev) \cup AssertionLinks(ev) /\ l[1] \in q.joined /\ q.joined \subseteq q.mine \cup BagToSet(rows)
      BY <2>2, <1>1, <1>3 DEF AskedOK, LinksSoFar
    <3>2. PICK f \in Range(ev) : l = <<Triple(f), f>> \/ l = <<Assertion(f), f>>
      BY <3>1 DEF TripleLinks, AssertionLinks, Telling
    <3>3. f \in DOMAIN fragments'
      BY <1>2, <1>4 DEF Rankable, Range
    <3>4. l[2] = f /\ (l[1] = Triple(f) \/ l[1] = Assertion(f))
      BY <3>2
    <3>5. Committed(l[1])'
      BY <3>1, <1>10 DEF Committed
    <3> QED
      BY <3>3, <3>4, <3>5, <1>6 DEF IsEvident
  <2> QED
    BY <1>2, <1>15, <2>1, <2>2
<1>16. ASSUME NEW m \in members' PROVE IsMember(m)'
  <2>1. CASE m \in members
    BY <2>1, <1>11, StoredStays
  <2>2. CASE \E k \in q.joined : m = <<p, k>>
    <3>1. PICK k \in q.joined : m = <<p, k>>
      BY <2>2
    <3>2. k \in ClaimsIn(ev) /\ Committed(k)'
      BY <1>1, <1>2, <1>3, <1>10, Answerable DEF AskedOK, LinksSoFar, Committed
    <3>3. ClaimsIn(ev)' = ClaimsIn(ev)
      BY <1>4, <1>11, EvidenceStays
    <3>4. m[1] = p /\ m[2] = k
      BY <3>1
    <3> QED
      BY <3>2, <3>3, <3>4, <1>7 DEF IsMember
  <2> QED
    BY <1>2, <1>16, <2>1, <2>2
<1>17. ASSUME NEW i \in DOMAIN answers' PROVE AnswerAgrees(answers[i])'
  <2>1. answers \in Seq(AnswerType)
    BY <1>5 DEF TextsAreTyped
  <2>2. CASE i \in DOMAIN answers
    <3>1. PICK a : a = answers[i]
      OBVIOUS
    <3>2. answers'[i] = a
      BY <3>1, <2>1, <2>2, <1>2
    <3>3. AnswerAgrees(a)
      BY <3>1, <2>2 DEF AnswersInv
    <3> QED
      BY <3>2, <3>3, <1>11, StoredStays
  <2>3. CASE i \notin DOMAIN answers
    <3>1. PICK a : a = AnswerOf(q, p)
      OBVIOUS
    <3>2. q.kind # "semantic" /\ answers'[i] = a
      BY <3>1, <2>1, <2>3, <1>2, <1>17
    <3>3. /\ a.pkg = p /\ a.supporting = {Assertion(f) : f \in Range(ev)} /\ a.conflicting \subseteq a.supporting
          /\ (a.contested <=> \E f, g \in Range(ev) : Contradicts(f, g))
      BY <3>1, <3>2, <1>1, <1>2, <1>3, <1>7, AnswerIsTrue
    <3>4. \A f \in Range(ev) : <<Assertion(f), f>> \in links'
      BY <3>2, <1>1, <1>2, <1>3, Answerable
    <3>5. \A f, g : Contradicts(f, g)' <=> Contradicts(f, g)
      BY <1>6 DEF Contradicts
    <3>6. AnswerAgrees(a)'
      BY <3>3, <3>4, <3>5, <1>6, <1>7 DEF AnswerAgrees
    <3> QED
      BY <3>2, <3>6
  <2> QED
    BY <2>2, <2>3
<1> QED
  BY <1>9, <1>13, <1>14, <1>15, <1>16, <1>17 DEF AnswersInv

-----------------------------------------------------------------------------
(* Documents, packages, and the specification                              *)

LEMMA StoreGrows ==
    ASSUME AnswersInv, TextsAreTyped', UNCHANGED <<rows, links, members, answers, asking>>,
           \A f \in DOMAIN fragments : f \in DOMAIN fragments' /\ fragments'[f] = fragments[f],
           \A p \in DOMAIN packages : p \in DOMAIN packages' /\ packages'[p] = packages[p]
    PROVE  AnswersInv'
<1>1. Grows
  BY DEF Grows
<1>2. OneRowEach'
  BY DEF AnswersInv, OneRowEach, OneRowPerFact
<1>3. QuestionsAgree'
  <2>1. ASSUME NEW o \in Askers PROVE QuestionOK(asking[o])'
    <3>1. PICK v : v = asking[o]
      OBVIOUS
    <3>2. QuestionOK(v)
      BY <3>1, TheQuestion
    <3>3. QuestionOK(v)' /\ asking'[o] = v
      BY <3>1, <3>2, <1>1, QuestionStays
    <3> QED
      BY <3>3
  <2> QED
    BY <2>1 DEF AnswersInv, QuestionsAgree
<1>4. /\ \A l \in links : IsEvident(l)'
      /\ \A m \in members : IsMember(m)'
  BY <1>1, StoredStays
<1>5. ASSUME NEW i \in DOMAIN answers PROVE AnswerAgrees(answers[i])'
  <2>1. PICK a : a = answers[i]
    OBVIOUS
  <2>2. AnswerAgrees(a)
    BY <2>1 DEF AnswersInv
  <2>3. AnswerAgrees(a)' /\ answers'[i] = a
    BY <1>1, <2>1, <2>2, StoredStays
  <2> QED
    BY <2>3
<1> QED
  BY <1>2, <1>3, <1>4, <1>5 DEF AnswersInv

LEMMA IngestStep == ASSUME AnswersInv, NEW c \in Objects, NEW t \in Texts, Ingest(c, t) PROVE AnswersInv'
<1>1. PICK text : text = [cko |-> c, subject |-> t.subject, said |-> t.said, denied |-> t.denied]
  OBVIOUS
<1>2. text \in Paragraphs
  BY <1>1 DEF Paragraphs
<1>3. fragments' = Append(fragments, text) /\ UNCHANGED <<packages, rows, links, members, answers, asking>>
  BY <1>1 DEF Ingest
<1>4. fragments \in Seq(Paragraphs) /\ packages \in Seq(Rankable) /\ answers \in Seq(AnswerType)
  BY DEF AnswersInv, TextsAreTyped
<1>5. /\ fragments' \in Seq(Paragraphs)
      /\ \A f \in DOMAIN fragments : f \in DOMAIN fragments' /\ fragments'[f] = fragments[f]
  BY <1>2, <1>3, <1>4
<1>6. Rankable \subseteq Rankable'
  <2>1. DOMAIN fragments \subseteq DOMAIN fragments'
    BY <1>5
  <2> QED
    BY <2>1 DEF Rankable
<1>7. TextsAreTyped'
  <2>1. packages' \in Seq(Rankable')
    BY <1>3, <1>4, <1>6
  <2> QED
    BY <2>1, <1>3, <1>4, <1>5 DEF TextsAreTyped
<1> QED
  BY <1>3, <1>5, <1>7, StoreGrows

LEMMA RankingsAreTyped == Rankings \subseteq Rankable
<1> SUFFICES ASSUME NEW ev \in Rankings PROVE ev \in Rankable
  OBVIOUS
<1>1. PICK n \in 1 .. Len(fragments) : ev \in [1 .. n -> DOMAIN fragments]
  BY DEF Rankings
<1>2. n \in Nat
  OBVIOUS
<1> QED
  BY <1>1, <1>2 DEF Rankable

LEMMA AssembleStep == ASSUME AnswersInv, NEW ev \in Rankings, Assemble(ev) PROVE AnswersInv'
<1>1. packages' = Append(packages, ev) /\ UNCHANGED <<fragments, rows, links, members, answers, asking>>
  BY DEF Assemble
<1>2. fragments \in Seq(Paragraphs) /\ packages \in Seq(Rankable) /\ answers \in Seq(AnswerType) /\ ev \in Rankable
  BY RankingsAreTyped DEF AnswersInv, TextsAreTyped
<1>3. packages' \in Seq(Rankable) /\ \A p \in DOMAIN packages : p \in DOMAIN packages' /\ packages'[p] = packages[p]
  BY <1>1, <1>2
<1>4. Rankable' = Rankable
  BY <1>1 DEF Rankable
<1>5. TextsAreTyped'
  BY <1>1, <1>2, <1>3, <1>4 DEF TextsAreTyped
<1> QED
  BY <1>1, <1>3, <1>5, StoreGrows

LEMMA AskStep == ASSUME AnswersInv, NEW r \in Askers, NEW ev \in Rankings, Ask(r, ev) PROVE AnswersInv'
<1>1. ev \in Rankable /\ 0 \in 0 .. Len(packages)
  BY RankingsAreTyped DEF AnswersInv, TextsAreTyped
<1>2. QuestionBegins(r, Start("reason", 0, ev))
  BY DEF Ask
<1> QED
  BY <1>1, <1>2, AskStarts

LEMMA ReasonStep ==
    ASSUME AnswersInv, NEW r \in Askers, NEW p \in DOMAIN packages, NEW kind \in {"reason", "semantic"},
           Reason(r, kind, p)
    PROVE  AnswersInv'
<1>1. packages \in Seq(Rankable)
  BY DEF AnswersInv, TextsAreTyped
<1>2. PICK ev \in Rankable : ev = packages[p]
  BY <1>1
<1>3. p \in 0 .. Len(packages)
  BY <1>1
<1>4. QuestionBegins(r, Start(kind, p, ev))
  BY <1>2 DEF Reason
<1> QED
  BY <1>2, <1>3, <1>4, AskStarts

LEMMA AnswersStutter == ASSUME AnswersInv, UNCHANGED answerVars PROVE AnswersInv'
<1>1. UNCHANGED <<fragments, packages, rows, links, members, answers, asking>>
  BY DEF answerVars
<1>2. TextsAreTyped'
  <2>1. TextsAreTyped /\ Rankable' = Rankable
    BY <1>1 DEF AnswersInv, Rankable
  <2> QED
    BY <1>1, <2>1 DEF TextsAreTyped
<1> QED
  BY <1>1, <1>2, StoreGrows

LEMMA AnswersStepInv == ASSUME AnswersInv, [AnswersNext]_answerVars PROVE AnswersInv'
<1>1. ASSUME NEW r \in Askers, Proceed(r) PROVE AnswersInv'
  <2>1. ASSUME BreakDeadlock(r) PROVE AnswersInv'
    BY <2>1, AskerEnds DEF BreakDeadlock
  <2> QED
    BY <1>1, <2>1, LookStep, InsertStep, DetectStep, AnswerStep DEF Proceed
<1>2. ASSUME NEW r \in Askers, Fail(r) PROVE AnswersInv'
  BY <1>2, AskerEnds DEF Fail
<1> QED
  BY <1>1, <1>2, IngestStep, AssembleStep, AskStep, ReasonStep, AnswersStutter DEF AnswersNext

LEMMA AnswersInitInv == AnswersInit => AnswersInv
<1> SUFFICES ASSUME AnswersInit PROVE AnswersInv
  OBVIOUS
<1>1. /\ fragments = <<>> /\ packages = <<>> /\ answers = <<>> /\ rows = EmptyBag /\ links = {} /\ members = {}
      /\ asking = [r \in Askers |-> NoQuestion]
  BY DEF AnswersInit
<1>2. BagToSet(rows) = {}
  BY <1>1 DEF EmptyBag, SetToBag, BagToSet
<1>3. TextsAreTyped
  BY <1>1 DEF TextsAreTyped
<1>4. OneRowEach
  BY <1>1, <1>2, NoQuestionOK DEF OneRowEach, OneRowPerFact
<1>5. QuestionsAgree
  BY <1>1, NoQuestionOK DEF QuestionsAgree
<1> QED
  BY <1>1, <1>3, <1>4, <1>5 DEF AnswersInv

LEMMA AnswersAlways == AnswersSpec => []AnswersInv
<1>1. AnswersInit => AnswersInv
  BY AnswersInitInv
<1>2. AnswersInv /\ [AnswersNext]_answerVars => AnswersInv'
  BY AnswersStepInv
<1> QED
  BY <1>1, <1>2, PTL DEF AnswersSpec

-----------------------------------------------------------------------------
LEMMA InvImpliesShared == AnswersInv => FactsAreShared
<1> SUFFICES ASSUME AnswersInv PROVE FactsAreShared
  OBVIOUS
<1>1. OneRowPerFact
  BY DEF AnswersInv, OneRowEach
<1>2. ASSUME NEW a \in DOMAIN answers
      PROVE  /\ (answers[a].contested <=> \E f, g \in Evidence(a) : Contradicts(f, g))
             /\ Evidence(a) \subseteq TraceOf(a)
             /\ \A f \in TraceOf(a) : \E g \in Evidence(a) : Text(f).cko = Text(g).cko
  <2>1. PICK x : x = answers[a]
    OBVIOUS
  <2>2. AnswerAgrees(x)
    BY <2>1 DEF AnswersInv
  <2>3. PICK ev : ev = packages[x.pkg]
    OBVIOUS
  <2>4. Evidence(a) = Range(ev)
    BY <2>1, <2>3 DEF Evidence, Range
  <2>5. x.contested <=> \E f, g \in Range(ev) : Contradicts(f, g)
    BY <2>2, <2>3 DEF AnswerAgrees
  <2>6. x.supporting = {Assertion(f) : f \in Range(ev)} /\ x.supporting \cup x.conflicting = x.supporting
    BY <2>2, <2>3 DEF AnswerAgrees
  <2>7. TraceOf(a) = {l[2] : l \in {y \in links : y[1] \in x.supporting}}
    BY <2>1, <2>6 DEF TraceOf
  <2>8. ASSUME NEW f \in Range(ev) PROVE f \in TraceOf(a)
    <3>1. PICK l : l = <<Assertion(f), f>>
      OBVIOUS
    <3>2. l \in links /\ l[1] \in x.supporting /\ l[2] = f
      BY <2>2, <2>3, <2>6, <3>1 DEF AnswerAgrees
    <3> QED
      BY <2>7, <3>2
  <2>9. ASSUME NEW f \in TraceOf(a) PROVE \E g \in Range(ev) : Text(f).cko = Text(g).cko
    <3>1. PICK l \in links : l[1] \in x.supporting /\ l[2] = f
      BY <2>7
    <3>2. PICK g \in Range(ev) : l[1] = Assertion(g)
      BY <2>6, <3>1
    <3>3. IsEvident(l)
      BY DEF AnswersInv
    <3>4. l[1] = Triple(f) \/ l[1] = Assertion(f)
      BY <3>1, <3>3 DEF IsEvident
    <3>5. l[1] = Assertion(f)
      BY <3>2, <3>4, ClaimsAreKeys
    <3> QED
      BY <3>2, <3>5, ClaimsAreKeys
  <2> QED
    BY <2>1, <2>4, <2>5, <2>8, <2>9
<1>3. ContestedIffContradicted
  BY <1>2 DEF ContestedIffContradicted
<1>4. TraceIsTheEvidence
  BY <1>2 DEF TraceIsTheEvidence
<1> QED
  BY <1>1, <1>3, <1>4 DEF FactsAreShared

(* However many questions are asked at once: an entity, a claim or a       *)
(* conflict is one row, an answer is contested exactly when two of its     *)
(* paragraphs contradict each other, and its trace leads to all of them    *)
(* and to no object that it has nothing of (executeSemanticKnowledge-      *)
(* Reasoning, loadAnswerTrace).                                            *)
THEOREM FactsStayShared == AnswersSpec => []FactsAreShared
  BY AnswersAlways, InvImpliesShared, PTL

LEMMA InvLeadsHome == AnswersInv => LinksLeadHome
<1> SUFFICES ASSUME AnswersInv, NEW l \in links PROVE ObjectOf(l) \in Objects
  BY DEF LinksLeadHome
<1>1. IsEvident(l)
  BY DEF AnswersInv
<1>2. PICK f \in DOMAIN fragments : f = l[2]
  BY <1>1 DEF IsEvident
<1>3. fragments[f] \in Paragraphs
  BY DEF AnswersInv, TextsAreTyped
<1>4. fragments[f].cko \in Objects
  BY <1>3 DEF Paragraphs
<1> QED
  BY <1>2, <1>4 DEF ObjectOf, Text

(* A session of a workspace sees, of objects, entities, claims and graph,  *)
(* what it would see had nothing been said elsewhere on the node, and what *)
(* it sees it can follow home (workspace.ts), through every answer that    *)
(* any workspace's questions write.                                        *)
THEOREM WorkspaceStaysClosed == AnswersSpec => []WorkspaceSeesItsOwn
<1>1. AnswersInv => WorkspaceSeesItsOwn
  BY InvLeadsHome, SeenAtHome, SeenLeadsHome DEF WorkspaceSeesItsOwn
<1> QED
  BY <1>1, AnswersAlways, PTL

(* What the answers store is well-formed: claims that evidence and packages *)
(* name are there, and packages name paragraphs there are.                  *)
THEOREM AnswersStayTyped == AnswersSpec => []AnswersTypeOK
<1>1. ASSUME AnswersInv PROVE AnswersTypeOK
  <2>1. \A f \in DOMAIN fragments : fragments[f].cko \in Objects
    <3> TAKE f \in DOMAIN fragments
    <3>1. fragments[f] \in Paragraphs
      BY <1>1 DEF AnswersInv, TextsAreTyped
    <3> QED
      BY <3>1 DEF Paragraphs
  <2>2. \A p \in DOMAIN packages : packages[p] \in Seq(DOMAIN fragments)
    BY <1>1 DEF AnswersInv, TextsAreTyped, Rankable
  <2>3. \A l \in links : Committed(l[1]) /\ l[2] \in DOMAIN fragments
    BY <1>1 DEF AnswersInv, IsEvident
  <2>4. \A m \in members : m[1] \in DOMAIN packages /\ Committed(m[2])
    BY <1>1 DEF AnswersInv, IsMember
  <2>5. \A a \in DOMAIN answers : answers[a].pkg \in DOMAIN packages
    BY <1>1 DEF AnswersInv, AnswerAgrees
  <2> QED
    BY <2>1, <2>2, <2>3, <2>4, <2>5 DEF AnswersTypeOK
<1> QED
  BY <1>1, AnswersAlways, PTL
=============================================================================

------------------------------- MODULE Corpus -------------------------------
(***************************************************************************)
(* The corpora an object is filed in (apps/api/src/corpus-engine.ts,       *)
(* life-corpus.ts, packages/corpus-engine, packages/life-corpus) and the   *)
(* views over them (vault-explorer.ts, corpus-semantic-views.ts,           *)
(* corpus-runtime-view.ts).                                                *)
(*                                                                         *)
(* A classification is one PostgreSQL transaction at READ COMMITTED that   *)
(* looks for a suppression and then upserts, candidate after candidate.    *)
(* A filing by hand is a transaction that deletes the suppression and then *)
(* upserts the row, a removal one that deletes the row and then inserts    *)
(* the suppression: each statement waits for the rows another transaction  *)
(* has written, and what it writes shows once it commits.  The other       *)
(* operations write once and are one step.                                 *)
(*                                                                         *)
(* Abstracted: the terms of the branches (a content says which fields of   *)
(* an object name which branch, with one term each); reasons, sensitivity, *)
(* receipts, hooks, custom corpora; the enterprise tenants, so that corpus *)
(* is like any other; one workspace, whose objects everybody may retrieve. *)
(* Confidences are in hundredths.                                          *)
(***************************************************************************)
EXTENDS Integers, Sequences, FiniteSets, SequencesExt

CONSTANTS Curators,       \* principals
          Classifiers,    \* transactions that classify
          Editors,        \* transactions that file or remove by hand
          Documents,      \* knowledge objects
          Coordinates,    \* [corpus, tab, subtab]; "" for no subtab
          SealedAt,       \* those of sealed subtabs of the life corpus
          Contents,       \* sets of [at, field]: which field names which branch
          MaxWrites       \* bound: operations that begin

\* "" stands for any corpus in a view, and names none.
ASSUME CorpusAssumption == \A at \in Coordinates : at.corpus # ""

VARIABLES owner,        \* of the built-in corpora, "" before they are registered
          installed,    \* the life corpus has its branch policies
          grants,       \* corpus_access_grants
          content,
          filings,      \* corpus_memberships
          suppressed,   \* corpus_membership_suppressions: object and coordinate
          unlocked,     \* life_sealed_access_sessions: principal and coordinate
          running,      \* the transaction of each classifier
          editing,      \* and of each editor
          history,      \* [filed: rows as a person filed them; raced: see PersonHasLastWord]
          writes

corpusVars == <<owner, installed, grants, content, filings, suppressed, unlocked, running, editing, history, writes>>

NoClassification == [at |-> "idle", who |-> "", cko |-> "", todo |-> <<>>, mine |-> {}, holds |-> {},
                     removed |-> {}]

\* at: "put" and "filed" of a filing, "suppress" and "removed" of a removal; lifts: it has
\* deleted a suppression; overtaken: a removal of the row was committed since it began.
NoEdit == [at |-> "idle", row |-> [cko |-> "", at |-> ""], keeps |-> FALSE, lifts |-> FALSE, overtaken |-> FALSE]

CorpusInit ==
    /\ owner = "" /\ installed = FALSE /\ grants = {} /\ filings = {} /\ suppressed = {} /\ unlocked = {}
    /\ content \in [Documents -> Contents]
    /\ running = [k \in Classifiers |-> NoClassification] /\ editing = [e \in Editors |-> NoEdit]
    /\ history = [filed |-> {}, raced |-> {}] /\ writes = 0

Writes == writes < MaxWrites /\ writes' = writes + 1

Visibility(c) == CASE c \in {"life", "experience"} -> "private"
                   [] c \in {"enterprise", "machine", "ai"} -> "restricted"
                   [] OTHER -> "node"

VisibleTo(c, p) == \/ Visibility(c) \in {"public", "node"} \/ owner = p
                   \/ \E g \in grants : g.corpus = c /\ g.who = p

Granted(c, p, levels) == owner = p \/ \E g \in grants : g.corpus = c /\ g.who = p /\ g.level \in levels

Place(r) == <<r.cko, r.at>>

HoldsRow(u) == u.at \in {"filed", "suppress", "removed"}

\* Another transaction's write of the row has not been committed.
Held(o, at) == \/ \E k \in Classifiers : running[k].cko = o /\ at \in running[k].holds
               \/ \E e \in Editors : HoldsRow(editing[e]) /\ Place(editing[e].row) = <<o, at>>

\* Nor has its write of the suppression.
HoldsSuppression(u) == u.lifts \/ u.at = "removed"
SuppressionHeld(o, at) == \E e \in Editors : HoldsSuppression(editing[e]) /\ Place(editing[e].row) = <<o, at>>

RowsAt(rows, o, at) == {r \in rows : r.cko = o /\ r.at = at}

-----------------------------------------------------------------------------
(* Registration and access.                                                *)

\* ensureBuiltinCorpora: whoever comes first owns them.
RegisterCorpora(p) ==
    /\ owner = "" /\ Writes /\ owner' = p
    /\ UNCHANGED <<installed, grants, content, filings, suppressed, unlocked, running, editing, history>>

InstallLife(p) ==
    /\ owner \in {"", p} /\ ~installed /\ Writes /\ owner' = p /\ installed' = TRUE
    /\ UNCHANGED <<grants, content, filings, suppressed, unlocked, running, editing, history>>

GrantAccess(p, c, q, level) ==
    /\ owner # "" /\ Granted(c, p, {"manage"}) /\ Writes
    /\ grants' = {g \in grants : <<g.corpus, g.who>> # <<c, q>>} \cup {[corpus |-> c, who |-> q, level |-> level]}
    /\ UNCHANGED <<owner, installed, content, filings, suppressed, unlocked, running, editing, history>>

\* unlockLifeSealedBranch, by whoever may view the life corpus.
UnlockBranch(p, at) ==
    /\ owner # "" /\ Granted("life", p, {"view", "classify", "manage"}) /\ at \in SealedAt /\ Writes
    /\ unlocked' = unlocked \cup {<<p, at>>}
    /\ UNCHANGED <<owner, installed, grants, content, filings, suppressed, running, editing, history>>

UnlockExpires(u) ==
    /\ unlocked' = unlocked \ {u}
    /\ UNCHANGED <<owner, installed, grants, content, filings, suppressed, running, editing, history, writes>>

-----------------------------------------------------------------------------
(* Classification.                                                         *)

Weight(field) == CASE field = "topic" -> 55  [] field = "tag" -> 65  [] field = "type" -> 45
                   [] field = "source" -> 40 [] field = "provenance" -> 35
                   [] field = "relationship" -> 40 [] field = "authority" -> 30

Least(a, b) == IF a < b THEN a ELSE b
Most(a, b) == IF a < b THEN b ELSE a

\* classifyForCorpora; the rules of the life corpus have the topic alone.
Score(hits, at) ==
    LET fields == {h.field : h \in {x \in hits : x.at = at /\ (at.corpus = "life" => x.field = "topic")}} IN
    FoldSet(LAMBDA f, sum : sum + Weight(f), 0, fields)

\* classifyLife: a quarter, and twelve hundredths for each term, here each field.
LifeScore(hits, at) == 25 + 12 * Cardinality({h \in hits : h.at = at})

Candidates(o, p) ==
    LET whole == {at \in Coordinates : at.subtab = ""}
        generic == {[at |-> at, confidence |-> Least(99, Score(content[o], at))] :
                      at \in {x \in whole : VisibleTo(x.corpus, p) /\ Score(content[o], x) >= 30}}
        life == {[at |-> at, confidence |-> Least(99, LifeScore(content[o], at))] :
                   at \in {x \in whole : /\ x.corpus = "life" /\ installed
                                         /\ Granted("life", p, {"classify", "manage"})
                                         /\ \E h \in content[o] : h.at = x}}
        Sorted(S) == SetToSortSeq(S, LAMBDA a, b : a.confidence > b.confidence) IN
    Sorted(generic) \o Sorted(life)

ClassificationGoes(k, t) ==
    /\ running' = [running EXCEPT ![k] = t]
    /\ UNCHANGED <<owner, installed, grants, content, filings, suppressed, unlocked, editing, history, writes>>

\* classifyCko, or the creation of an object with the life corpus after it.
Classify(k, p, o) ==
    /\ running[k].at = "idle" /\ owner # "" /\ Writes
    /\ running' = [running EXCEPT ![k] = [NoClassification EXCEPT !.at = "check", !.who = p, !.cko = o,
                                              !.todo = Candidates(o, p)]]
    /\ UNCHANGED <<owner, installed, grants, content, filings, suppressed, unlocked, editing, history>>

\* Mutant: removals are not looked for.
CheckNothing(k) ==
    LET t == running[k] IN
    /\ t.at = "check" /\ t.todo # <<>>
    /\ ClassificationGoes(k, [t EXCEPT !.at = "upsert"])

\* SELECT 1 FROM corpus_membership_suppressions
Check(k) ==
    LET t == running[k] IN
    /\ t.at = "check" /\ t.todo # <<>>
    /\ ClassificationGoes(k, IF <<t.cko, Head(t.todo).at>> \in suppressed
                             THEN [t EXCEPT !.todo = Tail(@)] ELSE [t EXCEPT !.at = "upsert"])

\* branch_visibility of a row a classification writes.
VisibilityOfBranch(at) == IF at.corpus = "life" /\ installed THEN "private" ELSE "node"

\* ON CONFLICT DO UPDATE ... WHERE membership_source<>'manual'
Upserted(t, c) ==
    LET mine == RowsAt(t.mine, t.cko, c.at)
        old == IF mine # {} THEN mine ELSE RowsAt(filings, t.cko, c.at)
        new == [cko |-> t.cko, at |-> c.at, source |-> "automatic", confidence |-> c.confidence,
                by |-> t.who, visibility |-> VisibilityOfBranch(c.at)] IN
    IF old = {} THEN t.mine \cup {new}
    ELSE (t.mine \ mine) \cup {[r EXCEPT !.confidence = Most(@, c.confidence), !.visibility = new.visibility] :
                                 r \in {x \in old : x.source # "manual"}}

Upsert(k) ==
    LET t == running[k]  c == Head(t.todo) IN
    /\ t.at = "upsert" /\ (c.at \in t.holds \/ ~Held(t.cko, c.at))
    /\ ClassificationGoes(k, [t EXCEPT !.at = "check", !.todo = Tail(@), !.holds = @ \cup {c.at},
                                       !.mine = Upserted(t, c)])

Commit(k) ==
    LET t == running[k] IN
    /\ t.at = "check" /\ t.todo = <<>>
    /\ filings' = {r \in filings : RowsAt(t.mine, r.cko, r.at) = {}} \cup t.mine
    /\ history' = [history EXCEPT !.raced = @ \cup {<<t.cko, r.at>> : r \in {x \in t.mine : x.at \in t.removed}}]
    /\ running' = [running EXCEPT ![k] = NoClassification]
    /\ UNCHANGED <<owner, installed, grants, content, suppressed, unlocked, editing, writes>>

\* The transaction fails, or PostgreSQL ends a deadlock of two.
RollBack(k) == running[k].at # "idle" /\ ClassificationGoes(k, NoClassification)

-----------------------------------------------------------------------------
(* Filing and removal by hand.                                             *)

EditGoes(e, u) ==
    /\ editing' = [editing EXCEPT ![e] = u]
    /\ UNCHANGED <<owner, installed, grants, content, filings, suppressed, unlocked, running, history>>

\* DELETE FROM corpus_membership_suppressions; keeps: a row that is there stays who classified it.
BeginFiling(e, row, keeps) ==
    LET there == Place(row) \in suppressed IN
    /\ editing[e].at = "idle" /\ (there => ~SuppressionHeld(row.cko, row.at)) /\ Writes
    /\ EditGoes(e, [at |-> "put", row |-> row, keeps |-> keeps, lifts |-> there, overtaken |-> FALSE])

\* addManualMembership
File(e, p, o, at, confidence) ==
    LET branch == IF at.corpus # "life" \/ ~installed
                  THEN (IF Visibility(at.corpus) = "private" THEN "private" ELSE "node")
                  ELSE IF at \in SealedAt THEN "sealed" ELSE "private" IN
    /\ owner # "" /\ VisibleTo(at.corpus, p)
    /\ BeginFiling(e, [cko |-> o, at |-> at, source |-> "manual", confidence |-> confidence, by |-> p,
                       visibility |-> branch], FALSE)

\* fileLifeCko
FileLife(e, p, o, at) ==
    /\ owner # "" /\ at.corpus = "life" /\ Granted("life", p, {"classify", "manage"})
    /\ BeginFiling(e, [cko |-> o, at |-> at, source |-> "manual", confidence |-> 100, by |-> p,
                       visibility |-> IF at \in SealedAt THEN "sealed" ELSE "private"], TRUE)

\* INSERT INTO corpus_memberships ... ON CONFLICT DO UPDATE SET membership_source='manual'
PutFiling(e) ==
    LET u == editing[e]  old == RowsAt(filings, u.row.cko, u.row.at) IN
    /\ u.at = "put" /\ ~Held(u.row.cko, u.row.at) /\ UNCHANGED writes
    /\ \E by \in IF u.keeps /\ old # {} THEN {r.by : r \in old} ELSE {u.row.by} :
          EditGoes(e, [u EXCEPT !.at = "filed", !.row.by = by])

CommitFiling(e) ==
    LET u == editing[e]  key == Place(u.row) IN
    /\ u.at = "filed"
    /\ filings' = (filings \ RowsAt(filings, u.row.cko, u.row.at)) \cup {u.row}
    /\ suppressed' = IF u.lifts THEN suppressed \ {key} ELSE suppressed
    /\ history' = [filed |-> (history.filed \ RowsAt(history.filed, u.row.cko, u.row.at)) \cup {u.row},
                   raced |-> (history.raced \ {key}) \cup IF u.overtaken THEN {key} ELSE {}]
    /\ editing' = [editing EXCEPT ![e] = NoEdit]
    /\ UNCHANGED <<owner, installed, grants, content, unlocked, running, writes>>

\* removeMembership: SELECT ... FOR UPDATE, and DELETE FROM corpus_memberships
RemoveFiling(e, p, r) ==
    /\ editing[e].at = "idle" /\ (p = r.by \/ Granted(r.at.corpus, p, {"manage"}))
    /\ ~Held(r.cko, r.at) /\ Writes
    /\ EditGoes(e, [NoEdit EXCEPT !.at = "suppress", !.row = r])

\* INSERT INTO corpus_membership_suppressions ... ON CONFLICT DO UPDATE
Suppress(e) ==
    LET u == editing[e] IN
    /\ u.at = "suppress" /\ ~SuppressionHeld(u.row.cko, u.row.at) /\ UNCHANGED writes
    /\ EditGoes(e, [u EXCEPT !.at = "removed"])

CommitRemoval(e) ==
    LET r == editing[e].row IN
    /\ editing[e].at = "removed"
    /\ filings' = filings \ RowsAt(filings, r.cko, r.at)
    /\ suppressed' = suppressed \cup {Place(r)}
    /\ history' = [filed |-> history.filed \ RowsAt(history.filed, r.cko, r.at),
                   raced |-> history.raced \ {Place(r)}]
    /\ running' = [k \in Classifiers |-> IF running[k].cko = r.cko
                                         THEN [running[k] EXCEPT !.removed = @ \cup {r.at}] ELSE running[k]]
    /\ editing' = [f \in Editors |-> IF f = e THEN NoEdit
                                     ELSE IF editing[f].at \in {"put", "filed"} /\ Place(editing[f].row) = Place(r)
                                          THEN [editing[f] EXCEPT !.overtaken = TRUE] ELSE editing[f]]
    /\ UNCHANGED <<owner, installed, grants, content, unlocked, writes>>

\* The transaction fails, or PostgreSQL ends a deadlock.
EditRollsBack(e) == editing[e].at # "idle" /\ UNCHANGED writes /\ EditGoes(e, NoEdit)

\* Another version of the object; nothing is classified by it.
Revise(o, text) ==
    /\ text # content[o] /\ Writes /\ content' = [content EXCEPT ![o] = text]
    /\ UNCHANGED <<owner, installed, grants, filings, suppressed, unlocked, running, editing, history>>

Corpora == {at.corpus : at \in Coordinates}

CorpusNext ==
    \/ \E p \in Curators :
         \/ RegisterCorpora(p) \/ InstallLife(p)
         \/ \E c \in Corpora, q \in Curators, l \in {"view", "classify", "manage"} : GrantAccess(p, c, q, l)
         \/ \E at \in Coordinates : UnlockBranch(p, at)
         \/ \E k \in Classifiers, o \in Documents : Classify(k, p, o)
         \/ \E e \in Editors :
              \/ \E o \in Documents, at \in Coordinates :
                    (\E c \in {50, 100} : File(e, p, o, at, c)) \/ FileLife(e, p, o, at)
              \/ \E r \in filings : RemoveFiling(e, p, r)
    \/ \E u \in unlocked : UnlockExpires(u)
    \/ \E o \in Documents, text \in Contents : Revise(o, text)
    \/ \E k \in Classifiers : Check(k) \/ Upsert(k) \/ Commit(k) \/ RollBack(k)
    \/ \E e \in Editors : PutFiling(e) \/ CommitFiling(e) \/ Suppress(e) \/ CommitRemoval(e) \/ EditRollsBack(e)

CorpusSpec == CorpusInit /\ [][CorpusNext]_corpusVars

-----------------------------------------------------------------------------
(* The views, of a set of membership rows, for a principal.  "" asks for   *)
(* any corpus, tab or subtab; limits are left out.                         *)

Open(p, r) == r.visibility = "sealed" => <<p, r.at>> \in unlocked

Asked(r, c, tab, subtab) ==
    c \in {"", r.at.corpus} /\ tab \in {"", r.at.tab} /\ subtab \in {"", r.at.subtab}

\* queryCorpusView
CorpusView(rows, p, c, tab, subtab) ==
    {r \in rows : VisibleTo(r.at.corpus, p) /\ Asked(r, c, tab, subtab) /\ Open(p, r)}

\* getLifeCorpus
LifeView(rows, p) == {r \in rows : r.at.corpus = "life" /\ Open(p, r)}

\* corpusRuntimeEnvelope: the objects of the rows, once each.
Envelope(rows) == [objects |-> Cardinality({r.cko : r \in rows}), memberships |-> Cardinality(rows)]

\* querySemanticViews
SemanticView(rows, p, c) == Envelope({r \in rows : r.at.corpus = c /\ Open(p, r)})

\* Mutant: the filter asks only where the object is filed.
ExplorerListUnlocked(rows, p, c, tab, subtab) ==
    IF <<c, tab, subtab>> = <<"", "", "">> THEN Documents
    ELSE {o \in Documents : \E r \in rows : r.cko = o /\ Asked(r, c, tab, subtab) /\ VisibleTo(r.at.corpus, p)}

\* listVaultExplorerObjects
ExplorerList(rows, p, c, tab, subtab) ==
    IF <<c, tab, subtab>> = <<"", "", "">> THEN Documents
    ELSE {o \in Documents : \E r \in rows : /\ r.cko = o /\ Asked(r, c, tab, subtab)
                                           /\ VisibleTo(r.at.corpus, p) /\ Open(p, r)}

\* loadVaultExplorerObject, getCkoMemberships
ExplorerObject(rows, p, o) == {r \in rows : r.cko = o /\ VisibleTo(r.at.corpus, p) /\ Open(p, r)}

\* loadVaultExplorer: one corpus the principal may not see refuses the whole.
Home(rows, p) ==
    IF \E c \in Corpora : ~VisibleTo(c, p) THEN "CORPUS_RUNTIME_VIEW_FORBIDDEN"
    ELSE <<Cardinality(Documents), [c \in Corpora |-> SemanticView(rows, p, c)]>>

\* relatedVaultKnowledge, of the object a capture made or found: what shares a tab with it.
Related(rows, p, o) ==
    {r \in rows : /\ r.cko # o /\ VisibleTo(r.at.corpus, p) /\ Open(p, r)
                  /\ \E c \in rows : c.cko = o /\ <<c.at.corpus, c.at.tab>> = <<r.at.corpus, r.at.tab>>}

Viewed(rows, p) ==
    [home    |-> Home(rows, p),
     corpora |-> [at \in Coordinates |-> CorpusView(rows, p, at.corpus, at.tab, at.subtab)],
     counts  |-> [c \in Corpora |-> SemanticView(rows, p, c)],
     life    |-> LifeView(rows, p),
     lists   |-> [at \in Coordinates |-> ExplorerList(rows, p, at.corpus, at.tab, at.subtab)],
     objects |-> [o \in Documents |-> ExplorerObject(rows, p, o)]]

-----------------------------------------------------------------------------
CorpusTypeOK ==
    /\ \A r, s \in filings : <<r.cko, r.at>> = <<s.cko, s.at>> => r = s
    /\ \A r \in filings : /\ r.cko \in Documents /\ r.at \in Coordinates /\ r.by \in Curators
                         /\ r.confidence \in 1 .. 100 /\ r.source \in {"manual", "automatic"}
    /\ \A k, l \in Classifiers : k # l /\ running[k].cko = running[l].cko =>
                                  running[k].holds \cap running[l].holds = {}
    /\ \A e, f \in Editors : e # f /\ HoldsRow(editing[e]) /\ HoldsRow(editing[f]) =>
                              Place(editing[e].row) # Place(editing[f].row)

(* What a person filed is as it was filed, and what a person removed is    *)
(* not there, until a person says otherwise: no classification changes it, *)
(* nor do filings and removals that overlap mix.  The one exception: a     *)
(* classification or a filing that had looked at the suppression before    *)
(* the removal was committed, and writes the row after it.                 *)
PersonHasLastWord ==
    /\ history.filed = {r \in filings : r.source = "manual"}
    /\ \A r \in filings : Place(r) \in suppressed => Place(r) \in history.raced

(* A classification never puts back what a person removed.                 *)
RemovalHolds == \A r \in filings : r.source # "manual" => Place(r) \notin suppressed

(* A row of a sealed branch shows in no view of a principal without an     *)
(* unlocked session for it: not in a count, nor by what a filter finds.    *)
NothingSealedShows ==
    \A p \in Curators :
        LET open == {r \in filings : r.visibility = "sealed" => <<p, r.at>> \in unlocked} IN
        open # filings => Viewed(filings, p) = Viewed(open, p)

(* Nor in what a capture says is related: where the object is filed under  *)
(* the seal does not choose the neighbours that are shown.                 *)
RelatedKeepsTheSeal ==
    \A p \in Curators, o \in Documents :
        LET open == {r \in filings : r.visibility = "sealed" => <<p, r.at>> \in unlocked} IN
        Related(filings, p, o) = Related(open, p, o)

(* The explorer, the corpus view, the life view and the counts speak of    *)
(* the same rows: an object is found by a coordinate exactly when opening  *)
(* it shows that coordinate, and the counts are those of the rows shown.   *)
ViewsAgree ==
    \A p \in Curators, at \in Coordinates :
        LET c == at.corpus
            shown == CorpusView(filings, p, c, at.tab, at.subtab)
            all == CorpusView(filings, p, c, "", "") IN
        /\ ExplorerList(filings, p, c, at.tab, at.subtab) = {r.cko : r \in shown}
        /\ shown = {r \in UNION {ExplorerObject(filings, p, o) : o \in Documents} : Asked(r, c, at.tab, at.subtab)}
        /\ VisibleTo(c, p) => SemanticView(filings, p, c) = Envelope(all)
        /\ c = "life" /\ VisibleTo(c, p) => LifeView(filings, p) = all

(* Whatever is filed, granted and unlocked, the views show the same rows,  *)
(* and none of a sealed branch.                                            *)
ViewsKeepTheSeal == NothingSealedShows /\ ViewsAgree
=============================================================================

------------------------------ MODULE Capture ------------------------------
(***************************************************************************)
(* How knowledge objects come about and change (apps/api/src/experience.ts,*)
(* objects.ts, artifacts.ts, ingestion.ts, embeddings.ts, storage.ts).     *)
(*                                                                         *)
(* A capture, an upload, an edit and a reindexing are each one PostgreSQL  *)
(* transaction at READ COMMITTED, and the bytes go to the storage on the   *)
(* way, which no rollback reaches.  A capture that fails goes back to its  *)
(* savepoint and commits its job as failed.                                *)
(*                                                                         *)
(* Abstracted: an artifact is a text of one paragraph, which is its        *)
(* fragment, or no text; libraries, provenance, the summary.  What a       *)
(* request writes (object, artifact, model, title, body of a note) is named*)
(* by its number.  A source's revision of an object is in SourceSync.      *)
(***************************************************************************)
EXTENDS Naturals, FiniteSets, FiniteSetsExt

CONSTANTS Clients,      \* requests the API may be serving at once
          MaxStored,    \* bound: among the first so many there may be captures and uploads
          MaxWork       \* bound: requests that begin

VARIABLES objects,      \* rows [id, version, title, note]; note 0 for none
          versions,     \* cko_versions: the snapshots
          artifacts,    \* rows [id, cko, text]
          stored,       \* artifacts whose bytes are in the storage
          models,       \* rows of the embedding model
          vectors,      \* embeddings, <<fragment, model>>, which is UNIQUE
          jobs,         \* capture_jobs [id, status]; ghost: were there bytes?
          working,      \* the transaction of each client
          received      \* how many requests have begun

captureVars == <<objects, versions, artifacts, stored, models, vectors, jobs, working, received>>

NoWrites == [objects |-> {}, versions |-> {}, artifacts |-> {}, models |-> {}, vectors |-> {}]

NoWork == [at |-> "idle", kind |-> "", id |-> 0, cko |-> 0, bytes |-> FALSE, text |-> FALSE,
           fields |-> {}, status |-> "ready", model |-> 0, todo |-> {}, holds |-> {}, mine |-> NoWrites]

CaptureInit ==
    /\ objects = {} /\ versions = {} /\ artifacts = {} /\ stored = {} /\ models = {} /\ jobs = {}
    /\ vectors = {} /\ received = 0
    /\ working = [r \in Clients |-> NoWork]

WorkGoes(r, w) ==
    /\ working' = [working EXCEPT ![r] = w]
    /\ UNCHANGED <<objects, versions, artifacts, stored, models, vectors, jobs, received>>

WorkBegins(r, w) ==
    /\ working[r].at = "idle" /\ received < MaxWork /\ received' = received + 1
    /\ working' = [working EXCEPT ![r] = [w EXCEPT !.id = received + 1]]
    /\ UNCHANGED <<objects, versions, artifacts, stored, models, vectors, jobs>>

\* Another transaction has written the row of the object and not ended.
Locked(o) == \E q \in Clients : o \in working[q].holds

-----------------------------------------------------------------------------
(* The requests.                                                           *)

\* createKnowledgeObject
NewObject(n) == [id |-> n, version |-> 1, title |-> n, note |-> 0]

\* What a capture may come with.  A note has a body, yet its bytes may be those of
\* the content beside it, and that may decode to none.
Payloads == {"text", "binary", "none"}
Made(kind, row, new, kept) ==
    [NoWork EXCEPT !.at = IF kept = "none" THEN "commit" ELSE "store", !.kind = kind, !.cko = new.id,
                   !.bytes = kept # "none", !.text = kept = "text",
                   !.mine.objects = {row}, !.mine.versions = {new}]

\* captureKnowledge up to the object; its first snapshot has no note yet.
BeginCapture(r, hasNote, kept) ==
    LET new == NewObject(received + 1)
        row == [new EXCEPT !.note = IF hasNote THEN received + 1 ELSE 0] IN
    received < MaxStored /\ WorkBegins(r, Made("capture", row, new, kept))

\* An object that has no capture job: POST /v1/objects, which has no content, the
\* first import of a source's file, the captures of browser and phone, the compiler.
BeginObject(r, kept) ==
    LET new == NewObject(received + 1) IN
    received < MaxStored /\ WorkBegins(r, Made("object", new, new, kept))

\* POST /v1/objects/:id/artifacts
BeginUpload(r, o, text) ==
    /\ received < MaxStored
    /\ WorkBegins(r, [NoWork EXCEPT !.at = "store", !.kind = "upload", !.cko = o, !.bytes = TRUE,
                                   !.text = text])

\* POST /v1/embeddings/reindex, of one object or of all (0).
BeginReindex(r, o) == WorkBegins(r, [NoWork EXCEPT !.at = "model", !.kind = "reindex", !.cko = o])

\* PATCH /v1/workspace/objects/:id, of the title or of the note.
BeginEdit(r, o, fields) ==
    WorkBegins(r, [NoWork EXCEPT !.at = "edit", !.kind = "edit", !.cko = o, !.fields = fields])

-----------------------------------------------------------------------------
(* registerArtifact and ingestTextArtifact.                                *)

\* putArtifact
Store(r) ==
    LET w == working[r] IN
    /\ w.at = "store" /\ stored' = stored \cup {w.id}
    /\ working' = [working EXCEPT ![r].at = "rows"]
    /\ UNCHANGED <<objects, versions, artifacts, models, vectors, jobs, received>>

\* Mutant: the object's row is not written, and so not locked.
RowsUnlocked(r) ==
    LET w == working[r] IN
    /\ w.at = "rows"
    /\ WorkGoes(r, [w EXCEPT !.at = IF w.text THEN "model" ELSE "commit", !.holds = {w.cko},
                             !.mine.artifacts = {[id |-> w.id, cko |-> w.cko, text |-> w.text]}])

\* INSERT artifacts, UPDATE knowledge_objects, INSERT fragments
Rows(r) ==
    LET w == working[r] IN
    /\ w.at = "rows" /\ ~Locked(w.cko)
    /\ WorkGoes(r, [w EXCEPT !.at = IF w.text THEN "model" ELSE "commit", !.holds = {w.cko},
                             !.mine.artifacts = {[id |-> w.id, cko |-> w.cko, text |-> w.text]}])

-----------------------------------------------------------------------------
(* embedMissingFragments.                                                  *)

\* ensureEmbeddingModel: any of the rows there are, or a new one.
SelectModel(r) ==
    LET w == working[r] IN
    /\ w.at = "model"
    /\ IF models # {} THEN \E m \in models : WorkGoes(r, [w EXCEPT !.at = "missing", !.model = m])
       ELSE WorkGoes(r, [w EXCEPT !.at = "missing", !.model = w.id, !.mine.models = {w.id}])

Fragments(w) == {a \in artifacts \cup w.mine.artifacts : a.text /\ w.cko \in {0, a.cko}}

SelectMissing(r) ==
    LET w == working[r]
        missing == {f \in {a.id : a \in Fragments(w)} : <<f, w.model>> \notin vectors} IN
    /\ w.at = "missing"
    /\ WorkGoes(r, [w EXCEPT !.at = "embed", !.todo = missing])

\* The failure of a request: a capture returns to its savepoint and says so.
Failed(w) == IF w.kind = "capture" THEN [w EXCEPT !.at = "commit", !.status = "failed", !.todo = {},
                                                      !.holds = {}, !.mine = NoWrites]
             ELSE NoWork

\* The oldest first (ORDER BY created_at).  INSERT INTO embeddings waits for
\* one that inserts the same and fails when that one commits.
Embed(r) ==
    LET w == working[r]  next == Min(w.todo)  key == <<next, w.model>> IN
    /\ w.at = "embed" /\ w.todo # {} /\ \A q \in Clients \ {r} : key \notin working[q].mine.vectors
    /\ WorkGoes(r, IF key \in vectors THEN Failed(w)
                   ELSE [w EXCEPT !.todo = @ \ {next}, !.mine.vectors = @ \cup {key}])

-----------------------------------------------------------------------------
(* editObject, and the ends of the transactions.                           *)

\* The UPDATE waits for the row and takes it as it is then.
Edit(r) ==
    LET w == working[r]  old == CHOOSE o \in objects : o.id = w.cko
        new == [old EXCEPT !.version = @ + 1, !.title = IF "title" \in w.fields THEN w.id ELSE @,
                           !.note = IF "note" \in w.fields THEN w.id ELSE @] IN
    /\ w.at = "edit" /\ ~Locked(w.cko)
    /\ WorkGoes(r, [w EXCEPT !.at = "commit", !.holds = {w.cko}, !.mine.objects = {new}, !.mine.versions = {new}])

Finish(r) ==
    LET w == working[r] IN
    /\ w.at \in {"commit", "embed"} /\ w.todo = {}
    /\ objects' = {o \in objects : \A n \in w.mine.objects : n.id # o.id} \cup w.mine.objects
    /\ versions' = versions \cup w.mine.versions
    /\ artifacts' = artifacts \cup w.mine.artifacts
    /\ models' = models \cup w.mine.models
    /\ vectors' = vectors \cup w.mine.vectors
    /\ jobs' = IF w.kind = "capture" THEN jobs \cup {[id |-> w.id, status |-> w.status, bytes |-> w.bytes]}
             ELSE jobs
    /\ working' = [working EXCEPT ![r] = NoWork] /\ UNCHANGED <<stored, received>>

\* Mutant: a failed capture keeps what it has written.
FailKeeping(r) ==
    /\ working[r].at # "idle" /\ working[r].status = "ready"
    /\ WorkGoes(r, IF working[r].kind = "capture" THEN [working[r] EXCEPT !.at = "commit", !.status = "failed", !.todo = {}] ELSE NoWork)

\* A step throws: the storage, the limits, the libraries, PostgreSQL.
FailWork(r) ==
    /\ working[r].at # "idle" /\ working[r].status = "ready"
    /\ WorkGoes(r, Failed(working[r]))

\* The connection or the process is gone.
Vanish(r) == working[r].at # "idle" /\ WorkGoes(r, NoWork)

CaptureNext == \E r \in Clients :
    \/ \E kept \in Payloads : BeginObject(r, kept) \/ \E hasNote \in BOOLEAN : BeginCapture(r, hasNote, kept)
    \/ \E o \in {x.id : x \in objects} :
         \/ \E text \in BOOLEAN : BeginUpload(r, o, text)
         \/ \E fields \in {{"title"}, {"note"}} : BeginEdit(r, o, fields)
         \/ BeginReindex(r, o)
    \/ BeginReindex(r, 0)
    \/ Store(r) \/ Rows(r) \/ SelectModel(r) \/ SelectMissing(r) \/ Embed(r)
    \/ Edit(r) \/ Finish(r) \/ FailWork(r) \/ Vanish(r)

CaptureSpec == CaptureInit /\ [][CaptureNext]_captureVars

\* How often retrieval comes upon a fragment: it joins the embeddings by the
\* name of the model, which all rows share.
TimesFound(f) == Cardinality({m \in models : <<f, m>> \in vectors})

-----------------------------------------------------------------------------
CaptureTypeOK ==
    /\ \A o, p \in objects : o.id = p.id => o = p
    /\ \A a \in artifacts : \E o \in objects : o.id = a.cko
    /\ \A v \in vectors : v[2] \in models /\ \E a \in artifacts : a.id = v[1] /\ a.text
    /\ \A q, r \in Clients : q # r => working[q].holds \cap working[r].holds = {}

(* Whatever fails between the storage and PostgreSQL, an artifact in the   *)
(* database has its bytes (registerArtifact stores them first).            *)
RowsHaveBytes == \A a \in artifacts : a.id \in stored

(* The inbox tells the truth: a capture that is ready left its object and, *)
(* if it came with any bytes, its artifact; one that failed left nothing,  *)
(* not even a version (captureKnowledge, SAVEPOINT).  A capture may be     *)
(* ready without anything in it, and an object be there without a job.     *)
InboxTellsTheTruth ==
    \A j \in jobs :
        LET left == \E a \in artifacts : a.id = j.id /\ a.cko = j.id IN
        IF j.status = "ready" THEN j.id \in {o.id : o \in objects} /\ (left <=> j.bytes)
        ELSE /\ j.id \notin {o.id : o \in objects \cup versions}
             /\ \A a \in artifacts : a.id # j.id /\ a.cko # j.id

(* Every version of an object is kept, one snapshot each, and the last one *)
(* is the object as it is, note included, but for the note of a capture    *)
(* (createKnowledgeObject, editObject, UNIQUE(cko_id,version)).            *)
EveryVersionIsKept ==
    \A o \in objects :
        /\ \A n \in 1 .. o.version : Cardinality({v \in versions : v.id = o.id /\ v.version = n}) = 1
        /\ \A v \in versions : v.id = o.id => v.version <= o.version
        /\ o.version > 1 => o \in versions

(* Retrieval comes upon every paragraph, whatever indexings overlap, and   *)
(* upon none more often than the node has rows for its model: one, unless  *)
(* the first two indexings of the node overlapped and both made it.        *)
FragmentsAreFound == \A a \in artifacts : a.text => TimesFound(a.id) \in 1 .. Cardinality(models)

(* A capture is there as a whole or not at all, in the inbox, the rows, the*)
(* storage, the history and the index, whichever step fails and whatever   *)
(* overlaps.                                                               *)
CapturesAreWhole == InboxTellsTheTruth /\ RowsHaveBytes /\ EveryVersionIsKept /\ FragmentsAreFound
=============================================================================

------------------------------ MODULE SourceSync ------------------------------
(***************************************************************************)
(* Knowledge sources: one connected cloud-drive account, the watches on    *)
(* its files, and the transactions that keep the imported documents up to  *)
(* date (apps/api/src/connectors.ts, source-sync-v2.ts,                    *)
(* source-experience-v2.ts, connector-routes.ts, workers/source-sync.ts).  *)
(*                                                                         *)
(* Everything the program writes goes through one PostgreSQL transaction   *)
(* per call, READ COMMITTED: what a transaction wrote is invisible to the  *)
(* others until it commits, rows it wrote or locked make the others wait,  *)
(* and an error that leaves the call rolls all of it back.  A transaction  *)
(* here has its own `writes' over the committed rows `db', and `locks'.    *)
(* Between its steps lie the calls to the provider.                        *)
(*                                                                         *)
(* There are four callers: the worker process (the first version of the    *)
(* synchronization, a batch of due sources), the dispatcher route (the     *)
(* second version, a batch), "Sync now" (the second version, one file) and *)
(* the delta synchronization of the account.                               *)
(***************************************************************************)
EXTENDS Naturals, Sequences, FiniteSets, SequencesExt, TLC

CONSTANTS
    Files,       \* remote ids of the files of the account
    Folder,      \* remote id of the folder that holds them, watched recursively
    Contents,    \* what the bytes of a file can be (their SHA-256)
    Poison,      \* contents PostgreSQL refuses as text (a NUL character)
    NoContent,   \* no document yet; at the provider, a file that is gone
    Txs,         \* transactions that may be in progress at a time
    Kinds,       \* callers a run considers
    UserOps,     \* what a run lets the user do
    Failures,    \* what a run lets fail
    BatchLimit,  \* sources in one batch (20)
    PageLimit,   \* changes in one page of the delta feed (100)
    FromNow,     \* whether the provider's feed begins at the time it is first asked
                 \* for (Google Drive's start page token), and not at its first entry
    MaxChanges,  \* bound: changes at the provider
    MaxUser,     \* bound: user operations after the watch was set up
    MaxFaults    \* bound: expiries, provider and storage failures, exits

ASSUME SourceSyncAssumption ==
    /\ Poison \subseteq Contents
    /\ Folder \notin Files
    /\ NoContent \notin Contents
    /\ Kinds \subseteq {"worker", "batch", "manual", "delta"}
    /\ UserOps \subseteq {"pause", "disconnect", "reconnect", "health", "sync"}
    /\ Failures \subseteq {"expire", "refresh", "provider", "upload", "exit"}
    /\ BatchLimit \in Nat \ {0}
    /\ PageLimit \in Nat \ {0}
    /\ FromNow \in BOOLEAN
    /\ MaxChanges \in Nat
    /\ IsFiniteSet(Files)

VARIABLES
    remote,    \* [Files -> content at the provider]
    feed,      \* the provider's list of changes
    skipped,   \* ghost: changes that came before a start page token was asked for
    db,        \* [rows -> committed value]
    tx,        \* [Txs -> transaction in progress]
    outcome,   \* ghost: result of the latest finished check of a watch
    wish,      \* ghost: what the user last asked of a watch, of the account
    used       \* [user |-> operations so far, faults |-> faults so far]

vars == <<remote, feed, skipped, db, tx, outcome, wish, used>>

-----------------------------------------------------------------------------
\* Rows.  source_connections has one row, watched_sources one per file and one
\* for the folder; `Doc(f)' stands for the source_documents row of the watch
\* and the knowledge object, versions and artifacts it points to.

Watches == Files \cup {Folder}
Conn == <<"conn", Folder>>
Watch(w) == <<"watch", w>>
Doc(f) == <<"doc", f>>
Rows == {Conn} \cup {Watch(w) : w \in Watches} \cup {Doc(f) : f \in Files}

\* A row with its value, and rows with others written over them, as TLC's :> and @@
\* (which the prover has no definition of).
Only(r, value) == [x \in {r} |-> value]

new ++ old ==
    [r \in DOMAIN new \cup DOMAIN old |-> IF r \in DOMAIN new THEN new[r] ELSE old[r]]

\* `begun': delta_cursor is not NULL; `cursor' is the position it stands for.
Connected == [status |-> "connected", token |-> "live", begun |-> FALSE, cursor |-> 0]

\* No row yet.  `due' and `late' compare next_sync_at and last_success_at with
\* the clock; `run' is the status of the latest source_sync_runs row; `alerts'
\* are the open health notifications; `asOf' is a ghost, the length of the feed
\* when the last successful check read the file.
NoWatch == [exists |-> FALSE, enabled |-> FALSE, due |-> FALSE, late |-> FALSE,
            status |-> "pending", run |-> "none", alerts |-> {}, asOf |-> 0]

\* `artifacts' are the contents registered so far, `live' the indices of those
\* with is_current; `version' is object_version, `snapshots' the versions
\* recorded in cko_versions, `objects' how many knowledge objects the watch made.
NoDoc == [sha |-> NoContent, current |-> FALSE, version |-> 0, objects |-> 0,
          snapshots |-> {}, artifacts |-> <<>>, live |-> {}]

\* addWatch: insert, or enable again what was there.
Watched(row) == [row EXCEPT !.exists = TRUE, !.enabled = TRUE, !.due = TRUE,
                            !.status = "pending"]

-----------------------------------------------------------------------------
\* Transactions

Idle == [kind |-> "none", stage |-> "idle", todo |-> <<>>, at |-> 0,
         first |-> FALSE, more |-> FALSE, held |-> Connected, content |-> NoContent, same |-> FALSE, seen |-> 0,
         writes |-> <<>>, locks |-> {}, results |-> <<>>]

\* What transaction t reads in row r.
Row(t, r) == IF r \in DOMAIN tx[t].writes THEN tx[t].writes[r] ELSE db[r]

\* The transaction of t after it wrote the rows of W.
Having(t, W) == [tx[t] EXCEPT !.writes = W ++ @, !.locks = @ \cup DOMAIN W]

V1(t) == tx[t].kind = "worker"

At(t, stage) == tx[t].stage = stage
HeadFile(t) == Head(tx[t].todo).file
HeadOp(t) == Head(tx[t].todo).op
CurrentOp(t, op) == At(t, "next") /\ tx[t].todo # <<>> /\ HeadOp(t) = op

\* The rows refreshHealth marks stale, as transaction t reads them.
Stale(row) == row.exists /\ row.enabled /\ row.status = "fresh" /\ row.late

StaleRows(t) == {Watch(w) : w \in {v \in Watches : Stale(Row(t, Watch(v)))}}

\* The rows the next step of t needs for itself.
Wants(t) ==
    CASE CurrentOp(t, "sync") \/ CurrentOp(t, "adopt") -> {Watch(HeadFile(t))}
      [] CurrentOp(t, "drop") ->
            IF Row(t, Doc(HeadFile(t))).sha = NoContent THEN {} ELSE {Doc(HeadFile(t))}
      [] At(t, "refresh") -> {Conn}
      [] At(t, "authorize") /\ V1(t) /\ tx[t].held.token = "none" -> {Conn}
      [] At(t, "store") -> (IF tx[t].same THEN {} ELSE {Doc(HeadFile(t))})
                              \cup (IF V1(t) THEN {Conn} ELSE {})
      [] At(t, "next") /\ tx[t].todo = <<>> /\ tx[t].kind = "delta" -> {Conn}
      [] At(t, "next") /\ tx[t].todo = <<>> /\ V1(t) -> StaleRows(t)
      [] OTHER -> {}

BlockedBy(t) == {u \in Txs \ {t} : Wants(t) \cap tx[u].locks # {}}
Unblocked(t, stage) == At(t, stage) /\ BlockedBy(t) = {}

\* A statement outside a transaction in `tx' may write these rows.
Unlocked(R) == \A u \in Txs : tx[u].locks \cap R = {}

Init ==
    /\ remote \in [Files -> Contents]
    /\ feed = <<>> /\ skipped = {}
    /\ \E begun \in {FALSE, FromNow} :   \* the account may have a cursor already
          db = Only(Conn, [Connected EXCEPT !.begun = begun])
                 ++ [r \in {Watch(w) : w \in Watches} |-> NoWatch]
                 ++ [r \in {Doc(f) : f \in Files} |-> NoDoc]
    /\ tx = [t \in Txs |-> Idle]
    /\ outcome = [w \in Watches |-> "none"]
    /\ wish = [w \in Watches |-> "none"] ++ Only(Conn, "on")
    /\ used = [user |-> 0, faults |-> 0]

provider == <<remote, feed, skipped>>
ghosts == <<outcome, wish>>
Fault(what) ==
    /\ what \in Failures
    /\ used.faults < MaxFaults
    /\ used' = [used EXCEPT !.faults = @ + 1]

\* The transaction commits, with the rows of W written last.
Commit(t, W) ==
    /\ db' = W ++ tx[t].writes ++ db
    /\ tx' = [tx EXCEPT ![t] = Idle]
    /\ outcome' = tx[t].results ++ outcome

\* An error leaves the call: nothing was written, and the check that failed,
\* if one did, is over.
Rollback(t, results) ==
    /\ tx' = [tx EXCEPT ![t] = Idle]
    /\ outcome' = results ++ outcome
    /\ UNCHANGED db

-----------------------------------------------------------------------------
\* The provider and the clock (external)

Edit(f, c) ==
    /\ Len(feed) < MaxChanges
    /\ remote[f] # c
    /\ remote' = [remote EXCEPT ![f] = c]
    /\ feed' = Append(feed, [file |-> f, deleted |-> c = NoContent])
    /\ UNCHANGED <<skipped, db, tx, ghosts, used>>

\* Time passes: a watch becomes due, or has missed three intervals.
Tick(f) ==
    LET row == db[Watch(f)] IN
    /\ row.exists
    /\ \/ ~row.due /\ db' = [db EXCEPT ![Watch(f)].due = TRUE]
       \/ /\ row.due /\ ~row.late /\ row.status = "fresh"
          /\ db' = [db EXCEPT ![Watch(f)].late = TRUE]
    /\ UNCHANGED <<provider, tx, ghosts, used>>

\* The access token runs out (while no transaction holds a copy of it).
TokenExpires ==
    /\ db[Conn].token = "live"
    /\ \A t \in Txs : At(t, "idle")
    /\ Fault("expire")
    /\ db' = [db EXCEPT ![Conn].token = "expired"]
    /\ UNCHANGED <<provider, tx, ghosts>>

-----------------------------------------------------------------------------
\* The user's requests, each a transaction of its own

UserMay(op) ==
    /\ op \in UserOps
    /\ used.user < MaxUser
    /\ used' = [used EXCEPT !.user = @ + 1]

\* POST /v1/watched-sources with a recursive folder: the folder and every file
\* in it (with a token that need not be refreshed; the walk through the folder
\* and its inserts, one transaction, are one step, which the others see at once).
WatchFolder ==
    LET W == {Folder} \cup {f \in Files : remote[f] # NoContent} IN
    /\ wish[Folder] = "none"
    /\ db[Conn].status # "disconnected" /\ db[Conn].token = "live"
    /\ Unlocked({Watch(w) : w \in W})
    /\ db' = [r \in {Watch(w) : w \in W} |-> Watched(db[r])] ++ db
    /\ wish' = [w \in W |-> "on"] ++ wish
    /\ UNCHANGED <<provider, tx, outcome, used>>

\* PATCH /v1/watched-sources/:id with sync_enabled.
SetEnabled(w, value) ==
    LET row == db[Watch(w)] IN
    /\ row.exists
    /\ UserMay("pause")
    /\ Unlocked({Watch(w)})
    /\ db' = [db EXCEPT ![Watch(w)] =
                 [row EXCEPT !.enabled = value,
                             !.due = row.due \/ value,
                             !.status = IF ~value THEN "paused"
                                        ELSE IF row.status = "paused" THEN "pending"
                                        ELSE row.status]]
    /\ wish' = [wish EXCEPT ![w] = IF value THEN "on" ELSE "paused"]
    /\ UNCHANGED <<provider, tx, outcome>>

\* DELETE /v1/connectors/:id.
Disconnect ==
    LET W == {Watch(w) : w \in {v \in Watches : db[Watch(v)].exists}} IN
    /\ UserMay("disconnect")
    /\ Unlocked({Conn} \cup W)
    /\ db' = Only(Conn, [db[Conn] EXCEPT !.status = "disconnected", !.token = "none"])
             ++ [r \in W |-> [db[r] EXCEPT !.enabled = FALSE, !.status = "paused"]]
             ++ db
    /\ wish' = [wish EXCEPT ![Conn] = "off"]
    /\ UNCHANGED <<provider, tx, outcome>>

\* connectorCallback for an account that is already there.
Reconnect ==
    /\ UserMay("reconnect")
    /\ Unlocked({Conn})
    /\ db' = [db EXCEPT ![Conn].status = "connected", ![Conn].token = "live"]
    /\ wish' = [wish EXCEPT ![Conn] = "on"]
    /\ UNCHANGED <<provider, tx, outcome>>

\* How refreshHealth marks them.
StaleMarked(row) ==
    [row EXCEPT !.status = "stale", !.alerts = @ \cup {"source_stale"}]

\* GET /v1/knowledge-health.
AskHealth ==
    LET W == {Watch(f) : f \in {g \in Files : Stale(db[Watch(g)])}} IN
    /\ W # {}
    /\ UserMay("health")
    /\ Unlocked(W)
    /\ db' = [r \in W |-> StaleMarked(db[r])] ++ db
    /\ UNCHANGED <<provider, tx, ghosts>>

-----------------------------------------------------------------------------
\* Beginning a transaction

SyncOf(f) == [op |-> "sync", file |-> f]

\* POST /v1/watched-sources/:id/sync on a file.
BeginManual(t, f) ==
    /\ "manual" \in Kinds
    /\ At(t, "idle")
    /\ db[Watch(f)].exists
    /\ UserMay("sync")
    /\ tx' = [tx EXCEPT ![t] = [Idle EXCEPT !.kind = "manual", !.stage = "next",
                                            !.todo = <<SyncOf(f)>>]]
    /\ UNCHANGED <<provider, db, ghosts>>

\* syncDueSources and syncDueSourcesV2: the due sources, earliest first (the
\* times are left out: any order, any choice when there are more than fit).
\* Only the second version leaves folders out.
BeginBatch(t, kind) ==
    LET due == {w \in IF kind = "worker" THEN Watches ELSE Files :
                   db[Watch(w)].exists /\ db[Watch(w)].enabled /\ db[Watch(w)].due}
    IN  /\ kind \in Kinds \cap {"worker", "batch"}
        /\ At(t, "idle")
        /\ due # {}
        /\ \E order \in SetToSeqs(due) :
              LET n == IF Len(order) <= BatchLimit THEN Len(order) ELSE BatchLimit
              IN  tx' = [tx EXCEPT ![t] =
                           [Idle EXCEPT !.kind = kind, !.stage = "next",
                              !.todo = [i \in 1..n |-> SyncOf(order[i])]]]
        /\ UNCHANGED <<provider, db, ghosts, used>>

\* syncConnectionDeltaV2, from its route, from "Sync now" on a folder or from the
\* dispatcher: load the connection, and with it the cursor (when nothing is new
\* the call changes nothing and is left out).  activateProviderWebhook does the
\* same to the connection where the feed begins at "now" and no cursor is stored.
BeginDelta(t) ==
    /\ "delta" \in Kinds
    /\ At(t, "idle")
    /\ db[Conn].status # "disconnected"
    /\ db[Conn].token # "none"
    /\ db[Conn].cursor < Len(feed) \/ (FromNow /\ ~db[Conn].begun)
    /\ tx' = [tx EXCEPT ![t] =
                [Idle EXCEPT !.kind = "delta", !.at = db[Conn].cursor,
                   !.first = FromNow /\ ~db[Conn].begun,
                   !.stage = IF db[Conn].token = "expired" THEN "refresh" ELSE "page"]]
    /\ UNCHANGED <<provider, db, ghosts, used>>

-----------------------------------------------------------------------------
\* One check of one file: syncWatch and syncWatchV2

\* The transaction of t with the rows of W written and stage and outcome of the
\* file noted: the check is over and the batch goes on.
Checked(t, W, result) ==
    [Having(t, W) EXCEPT !.stage = "next", !.todo = Tail(@),
                         !.held = Connected, !.content = NoContent, !.same = FALSE,
                         !.seen = 0,
                         !.results = Only(HeadFile(t), result) ++ @]

\* Mutant: the first version throws the error again, like the second.
Fail_Rethrown(t, W, reauth) == Rollback(t, Only(HeadFile(t), "failed"))

\* The catch clauses.  The first version and the dispatcher's batch record the
\* failure and go on; for the other callers the error leaves the call.
Fail(t, W, reauth) ==
    LET f == HeadFile(t)
        row == [Row(t, Watch(f)) EXCEPT !.status = "error", !.due = FALSE,
                                        !.run = "failed"]
        alert == IF reauth THEN "reauth_required" ELSE "sync_failed"
        conn == [Row(t, Conn) EXCEPT !.status = "reauth_required"]
    IN  CASE V1(t) ->
               /\ tx' = [tx EXCEPT ![t] = Checked(t,
                            Only(Watch(f), [row EXCEPT !.alerts = @ \cup {alert}])
                              ++ (IF reauth THEN Only(Conn, conn) ELSE <<>>) ++ W,
                            "failed")]
               /\ UNCHANGED <<db, outcome>>
          [] tx[t].kind = "batch" ->
               /\ tx' = [tx EXCEPT ![t] = Checked(t, Only(Watch(f), row) ++ W, "failed")]
               /\ UNCHANGED <<db, outcome>>
          [] OTHER -> Rollback(t, Only(f, "failed"))

\* Mutant: the watch is read without FOR UPDATE.
LockWatch_NoLock(t) ==
    /\ CurrentOp(t, "sync")
    /\ tx' = [tx EXCEPT ![t].stage = "authorize",
                        ![t].held = IF V1(t) THEN Row(t, Conn) ELSE @]
    /\ UNCHANGED <<provider, db, ghosts, used>>

LockWatch(t) ==
    /\ CurrentOp(t, "sync")
    /\ BlockedBy(t) = {}
    /\ tx' = [tx EXCEPT ![t].stage = "authorize",
                        ![t].held = IF V1(t) THEN Row(t, Conn) ELSE @,
                        ![t].locks = @ \cup {Watch(HeadFile(t))}]
    /\ UNCHANGED <<provider, db, ghosts, used>>

\* tokenFor with the connection read when the watch was locked; loadConnection
\* and providerAccessToken.
Authorize(t) ==
    LET conn == IF V1(t) THEN tx[t].held ELSE Row(t, Conn) IN
    /\ Unblocked(t, "authorize")
    /\ \/ ~V1(t) /\ conn.status = "disconnected" /\ Fail(t, <<>>, FALSE)
       \/ /\ V1(t) \/ conn.status # "disconnected"
          /\ conn.token = "none"
          /\ Fail(t, <<>>, TRUE)
       \/ /\ V1(t) \/ conn.status # "disconnected"
          /\ conn.token # "none"
          /\ tx' = [tx EXCEPT ![t].held = Connected,
                ![t].stage = IF conn.token = "live" THEN "fetch" ELSE "refresh"]
          /\ UNCHANGED <<db, outcome>>
    /\ UNCHANGED <<provider, wish, used>>

\* The provider grants a new access token: written by id, whatever has become
\* of the connection in the meantime.
Refreshed(t) ==
    [Row(t, Conn) EXCEPT !.token = "live", !.status = IF V1(t) THEN @ ELSE "connected"]

RefreshGranted(t) ==
    /\ Unblocked(t, "refresh")
    /\ tx' = [tx EXCEPT ![t] =
         [Having(t, Only(Conn, Refreshed(t))) EXCEPT
            !.stage = IF tx[t].todo = <<>> THEN "page" ELSE "fetch"]]
    /\ UNCHANGED <<provider, db, ghosts, used>>

RefreshDenied(t) ==
    LET conn == [Row(t, Conn) EXCEPT !.status = "reauth_required"] IN
    /\ Unblocked(t, "refresh")
    /\ Fault("refresh")
    /\ IF tx[t].todo = <<>> THEN Rollback(t, <<>>) ELSE Fail(t, Only(Conn, conn), TRUE)
    /\ UNCHANGED <<provider, wish>>

\* remoteFile and fetchProviderFileBounded: a folder cannot be downloaded.
Available(w) == w \in Files /\ remote[w] # NoContent

\* Mutant: any stored document counts as unchanged.
Fetch_AnyDocument(t) ==
    LET f == HeadFile(t) IN
    /\ At(t, "fetch")
    /\ Available(f)
    /\ tx' = [tx EXCEPT ![t].stage = "store", ![t].content = remote[f],
                        ![t].same = Row(t, Doc(f)).sha # NoContent,
                        ![t].seen = Len(feed)]
    /\ UNCHANGED <<provider, db, ghosts, used>>

\* ... and then source_documents is read: the hash stored last decides.
Fetch(t) ==
    LET f == HeadFile(t) IN
    /\ At(t, "fetch")
    /\ Available(f)
    /\ tx' = [tx EXCEPT ![t].stage = "store", ![t].content = remote[f],
                        ![t].same = Row(t, Doc(f)).sha = remote[f],
                        ![t].seen = Len(feed)]
    /\ UNCHANGED <<provider, db, ghosts, used>>

Missing(t) ==
    /\ At(t, "fetch")
    /\ ~Available(HeadFile(t))
    /\ Fail(t, <<>>, FALSE)
    /\ UNCHANGED <<provider, wish, used>>

FetchFails(t) ==
    /\ At(t, "fetch")
    /\ Available(HeadFile(t))
    /\ Fault("provider")
    /\ Fail(t, <<>>, FALSE)
    /\ UNCHANGED <<provider, wish>>

\* resolveHealth
Resolved(alerts) ==
    LET open == {"source_stale", "sync_failed", "reauth_required"} IN
    IF alerts \cap open = {} THEN alerts
    ELSE (alerts \ open) \cup {"source_recovered"}

\* Mutant: alerts are resolved when the content changed only.
Fresh_UnchangedUnresolved(t, run) ==
    LET row == [Row(t, Watch(HeadFile(t))) EXCEPT !.status = "fresh", !.due = FALSE,
                   !.late = FALSE, !.run = run, !.asOf = tx[t].seen]
    IN  IF V1(t) /\ run = "changed" THEN [row EXCEPT !.alerts = Resolved(@)] ELSE row

\* The watch after a successful check.  Only the first version resolves what
\* was open and marks the connection.
Fresh(t, run) ==
    LET row == [Row(t, Watch(HeadFile(t))) EXCEPT !.status = "fresh", !.due = FALSE,
                   !.late = FALSE, !.run = run, !.asOf = tx[t].seen]
    IN  IF V1(t) THEN [row EXCEPT !.alerts = Resolved(@)] ELSE row

ConnWritten(t) ==
    IF V1(t) THEN Only(Conn, [Row(t, Conn) EXCEPT !.status = "connected"]) ELSE <<>>

Unchanged(t) ==
    /\ Unblocked(t, "store")
    /\ tx[t].same
    /\ tx' = [tx EXCEPT ![t] = Checked(t,
                Only(Watch(HeadFile(t)), Fresh(t, "unchanged")) ++ ConnWritten(t),
                "unchanged")]
    /\ UNCHANGED <<provider, db, ghosts, used>>

\* Mutant: no row in cko_versions.
Advanced_NoSnapshot(t, doc) ==
    IF doc.sha = NoContent
      THEN [doc EXCEPT !.objects = @ + 1, !.version = 1, !.snapshots = {1}]
      ELSE [doc EXCEPT !.version = @ + 1, !.live = IF V1(t) THEN @ ELSE {}]

\* The knowledge object before the bytes are stored: created, or its version
\* advanced.  The first version records the new version, the second the old one
\* and takes the artifacts it had out of use.
Advanced(t, doc) ==
    IF doc.sha = NoContent
      THEN [doc EXCEPT !.objects = @ + 1, !.version = 1, !.snapshots = {1}]
    ELSE IF V1(t)
      THEN [doc EXCEPT !.version = @ + 1, !.snapshots = @ \cup {doc.version + 1}]
    ELSE [doc EXCEPT !.version = @ + 1, !.snapshots = @ \cup {doc.version},
                     !.live = {}]

\* Mutant: the new artifact is registered, the others are left in use.
Imported_StillInUse(t, doc) ==
    LET n == Len(doc.artifacts) + 1 IN
    [Advanced(t, doc) EXCEPT
        !.sha = tx[t].content,
        !.artifacts = Append(@, tx[t].content),
        !.live = @ \cup {n},
        !.current = TRUE]

\* ... and once the artifact, the fragments and the source document are stored.
Imported(t, doc) ==
    LET n == Len(doc.artifacts) + 1 IN
    [Advanced(t, doc) EXCEPT
        !.sha = tx[t].content,
        !.artifacts = Append(@, tx[t].content),
        !.live = IF V1(t) THEN {n} ELSE @ \cup {n},
        !.current = @ \/ doc.sha = NoContent \/ ~V1(t)]

Changed(t) ==
    LET f == HeadFile(t) IN
    /\ Unblocked(t, "store")
    /\ ~tx[t].same
    /\ tx[t].content \notin Poison
    /\ tx' = [tx EXCEPT ![t] = Checked(t,
                Only(Watch(f), Fresh(t, "changed"))
                  ++ Only(Doc(f), Imported(t, Row(t, Doc(f)))) ++ ConnWritten(t),
                "changed")]
    /\ UNCHANGED <<provider, db, ghosts, used>>

\* registerArtifact fails to store the bytes: what was written to the knowledge
\* object stays in the transaction.
UploadFails(t) ==
    LET f == HeadFile(t)
        doc == Row(t, Doc(f))
        left == IF doc.sha = NoContent THEN [doc EXCEPT !.objects = @ + 1]
                ELSE Advanced(t, doc)
    IN  /\ Unblocked(t, "store")
        /\ ~tx[t].same
        /\ Fault("upload")
        /\ Fail(t, Only(Doc(f), left), FALSE)
        /\ UNCHANGED <<provider, wish>>

\* The text of the fragments is refused: PostgreSQL has aborted the transaction,
\* the catch clause's own statements fail, and nothing of the call remains.
Refused(t) ==
    /\ Unblocked(t, "store")
    /\ ~tx[t].same
    /\ tx[t].content \in Poison
    /\ Rollback(t, Only(HeadFile(t), "failed"))
    /\ UNCHANGED <<provider, wish, used>>

EndBatch(t) ==
    /\ Unblocked(t, "next")
    /\ tx[t].todo = <<>>
    /\ tx[t].kind # "delta"
    /\ Commit(t, IF V1(t) THEN [r \in StaleRows(t) |-> StaleMarked(Row(t, r))] ELSE <<>>)
    /\ UNCHANGED <<provider, wish, used>>

-----------------------------------------------------------------------------
\* syncConnectionDeltaV2

\* What a page of changes asks for: each change is offered to every enabled
\* watch, in the order PostgreSQL returns them.
OpsOf(t, change, folderFirst) ==
    LET f == change.file
        own == IF Row(t, Watch(f)).enabled
                 THEN <<[op |-> IF change.deleted THEN "drop" ELSE "sync", file |-> f]>>
                 ELSE <<>>
        folder == IF Row(t, Watch(Folder)).enabled /\ ~change.deleted
                    THEN <<[op |-> "adopt", file |-> f], SyncOf(f)>> ELSE <<>>
    IN  IF folderFirst THEN folder \o own ELSE own \o folder

PageEnd(t) ==
    IF tx[t].at + PageLimit < Len(feed) THEN tx[t].at + PageLimit ELSE Len(feed)

\* The first answer of a feed that begins at "now": no change, and the token.
StartPage(t) ==
    /\ At(t, "page")
    /\ tx[t].first
    /\ skipped' = skipped \cup 1..Len(feed)
    /\ tx' = [tx EXCEPT ![t].stage = "next", ![t].at = Len(feed), ![t].first = FALSE]
    /\ UNCHANGED <<remote, feed, db, ghosts, used>>

ReadPage(t) ==
    /\ At(t, "page")
    /\ ~tx[t].first
    /\ \E folderFirst \in BOOLEAN :
         tx' = [tx EXCEPT ![t].stage = "next", ![t].at = PageEnd(t),
                  ![t].more = PageEnd(t) < Len(feed),
                  ![t].todo = FlattenSeq(
                      [i \in 1..(PageEnd(t) - tx[t].at) |->
                          OpsOf(t, feed[tx[t].at + i], folderFirst)])]
    /\ UNCHANGED <<provider, db, ghosts, used>>

PageFails(t) ==
    /\ At(t, "page")
    /\ Fault("provider")
    /\ Rollback(t, <<>>)
    /\ UNCHANGED <<provider, wish>>

\* addWatch for a file the folder's watch is responsible for.
Adopt(t) ==
    LET r == Watch(HeadFile(t)) IN
    /\ CurrentOp(t, "adopt")
    /\ BlockedBy(t) = {}
    /\ IF Row(t, Conn).status = "disconnected" THEN Rollback(t, <<>>)
       ELSE /\ tx' = [tx EXCEPT ![t] =
                        [Having(t, Only(r, Watched(Row(t, r)))) EXCEPT !.todo = Tail(@)]]
            /\ UNCHANGED <<db, outcome>>
    /\ UNCHANGED <<provider, wish, used>>

Drop(t) ==
    LET r == Doc(HeadFile(t))
        W == IF Row(t, r).sha = NoContent THEN <<>>
             ELSE Only(r, [Row(t, r) EXCEPT !.current = FALSE])
    IN  /\ CurrentOp(t, "drop")
        /\ BlockedBy(t) = {}
        /\ tx' = [tx EXCEPT ![t] = [Having(t, W) EXCEPT !.todo = Tail(@)]]
        /\ UNCHANGED <<provider, db, ghosts, used>>

\* The page is done.
NextPage(t) ==
    /\ At(t, "next")
    /\ tx[t].todo = <<>>
    /\ tx[t].more
    /\ tx' = [tx EXCEPT ![t].stage = "page"]
    /\ UNCHANGED <<provider, db, ghosts, used>>

\* Mutant: the cursor of the feed as it is when the pages are done.
NewCursor_Latest(t) == Len(feed)

\* The cursor the provider returned with the last page, written by id.
NewCursor(t) == tx[t].at

\* No page is left, or a thousand changes have been looked at (which are not
\* counted here: the call may end after any page).
EndDelta(t) ==
    /\ Unblocked(t, "next")
    /\ tx[t].kind = "delta"
    /\ tx[t].todo = <<>>
    /\ Commit(t, Only(Conn, [Row(t, Conn) EXCEPT !.begun = TRUE, !.cursor = NewCursor(t)]))
    /\ UNCHANGED <<provider, wish, used>>

-----------------------------------------------------------------------------
\* Failures

\* Transactions that wait for each other: PostgreSQL aborts one of them.
DeadlockVictim(t) ==
    /\ \E S \in SUBSET Txs : t \in S /\ \A u \in S : BlockedBy(u) \cap S # {}
    /\ Rollback(t, <<>>)
    /\ UNCHANGED <<provider, wish, used>>

\* The process, or its connection to the database, is lost.
Exit(t) ==
    /\ ~At(t, "idle")
    /\ Fault("exit")
    /\ Rollback(t, <<>>)
    /\ UNCHANGED <<provider, wish>>

-----------------------------------------------------------------------------
User ==
    \/ WatchFolder
    \/ \E w \in Watches, value \in BOOLEAN : SetEnabled(w, value)
    \/ Disconnect
    \/ Reconnect
    \/ AskHealth
    \/ \E t \in Txs, f \in Files : BeginManual(t, f)

World == TokenExpires \/ \E f \in Files, c \in Contents \cup {NoContent} : Edit(f, c)

Scheduler(t) == (\E kind \in Kinds : BeginBatch(t, kind)) \/ BeginDelta(t)

\* What a transaction in progress does by itself.
Step(t) ==
    \/ LockWatch(t) \/ Authorize(t) \/ RefreshGranted(t) \/ Fetch(t) \/ Missing(t)
    \/ Unchanged(t) \/ Changed(t) \/ Refused(t) \/ EndBatch(t)
    \/ StartPage(t) \/ ReadPage(t) \/ Adopt(t) \/ Drop(t) \/ NextPage(t) \/ EndDelta(t)

Failure(t) ==
    \/ RefreshDenied(t) \/ FetchFails(t) \/ UploadFails(t) \/ PageFails(t)
    \/ DeadlockVictim(t) \/ Exit(t)

Next ==
    \/ User \/ World
    \/ \E f \in Files : Tick(f)
    \/ \E t \in Txs : Scheduler(t) \/ Step(t) \/ Failure(t)

Spec == Init /\ [][Next]_vars

\* The clock goes on, the scheduler calls again, and a transaction goes on.
FairSpec ==
    /\ Spec
    /\ \A f \in Files : WF_vars(Tick(f) /\ ~db[Watch(f)].due)
    /\ \A t \in Txs : WF_vars(Scheduler(t)) /\ WF_vars(Step(t))

-----------------------------------------------------------------------------
WatchRow == [exists : BOOLEAN, enabled : BOOLEAN, due : BOOLEAN, late : BOOLEAN,
             status : {"pending", "fresh", "stale", "error", "paused"},
             run : {"none", "changed", "unchanged", "failed"},
             alerts : SUBSET {"source_stale", "sync_failed", "reauth_required",
                              "source_recovered"},
             asOf : 0..MaxChanges]

ConnRow == [status : {"connected", "reauth_required", "disconnected"},
            token : {"live", "expired", "none"}, begun : BOOLEAN, cursor : 0..MaxChanges]

IsDoc(doc) ==
    /\ doc.sha \in Contents \cup {NoContent}
    /\ doc.current \in BOOLEAN
    /\ doc.live \subseteq DOMAIN doc.artifacts
    /\ doc.version \in Nat /\ doc.objects \in Nat
    /\ doc.snapshots \subseteq 0..doc.version

\* Every row has its type, and the rows a transaction wrote are locked by it
\* and by no other: withTransaction over PostgreSQL's row locks.
TypeOK ==
    /\ remote \in [Files -> Contents \cup {NoContent}]
    /\ feed \in Seq([file : Files, deleted : BOOLEAN]) /\ skipped \subseteq 1..Len(feed)
    /\ DOMAIN db = Rows
    /\ db[Conn] \in ConnRow
    /\ \A w \in Watches : db[Watch(w)] \in WatchRow
    /\ \A f \in Files : IsDoc(db[Doc(f)])
    /\ \A t \in Txs : DOMAIN tx[t].writes \subseteq tx[t].locks \cap Rows
    /\ \A t, u \in Txs : t # u => tx[t].locks \cap tx[u].locks = {}
    /\ outcome \in [Watches -> {"none", "changed", "unchanged", "failed"}]

\* Checks of one file that run at the same time, whoever began them, never
\* register the same content twice in a row: the row lock on the watch
\* (docs/pr7-principle-lock.md).
NoDuplicateRevision ==
    \A f \in Files :
        LET a == db[Doc(f)].artifacts IN
        \A i \in 1..(Len(a) - 1) : a[i] # a[i + 1]

\* A document that was imported has exactly one artifact in use, and it is the
\* content the next check compares with.
OneCurrentArtifact ==
    \A f \in Files :
        LET doc == db[Doc(f)] IN
        doc.sha # NoContent =>
            \E i \in DOMAIN doc.artifacts :
                doc.live = {i} /\ doc.artifacts[i] = doc.sha

\* Every version before the current one has a row in cko_versions.
HistoryComplete ==
    \A f \in Files : 1..(db[Doc(f)].version - 1) \subseteq db[Doc(f)].snapshots

\* A source that is fresh has no open alert that says otherwise.
HealthIsResolved ==
    \A w \in Watches :
        db[Watch(w)].status = "fresh" =>
            db[Watch(w)].alerts \subseteq {"source_recovered"}

\* A check that failed leaves a failed run behind, and a source that is not
\* shown as fresh.
FailureIsDurable ==
    \A w \in Watches :
        outcome[w] = "failed" =>
            /\ db[Watch(w)].run = "failed"
            /\ db[Watch(w)].status \notin {"fresh", "stale"}

\* A change of a file that the delta cursor has passed has been read, or is
\* going to be: the file's watch is due, or shows an error.  Not so the changes
\* before a start page token: where the feed begins at "now", the first cursor
\* passes them unread, and a later check of each file has to find them.
CursorSound ==
    \A i \in 1..db[Conn].cursor \ skipped :
        LET row == db[Watch(feed[i].file)] IN
        (row.enabled /\ ~feed[i].deleted) =>
            \/ row.asOf >= i
            \/ row.due
            \/ row.status = "error"

\* What the user paused stays paused until the user resumes it.
PausedStaysPaused ==
    \A w \in Watches : wish[w] = "paused" => ~db[Watch(w)].enabled

\* An account the user disconnected keeps no credentials and no other status.
DisconnectionHolds ==
    wish[Conn] = "off" =>
        db[Conn].status = "disconnected" /\ db[Conn].token = "none"

\* A watch makes one knowledge object, however often its check is repeated.
OneObjectPerWatch == \A f \in Files : db[Doc(f)].objects <= 1

\* The document of a source that was read after its file last changed, and is
\* fresh, is current.
ReadIsCurrent ==
    \A f \in Files :
        (/\ db[Watch(f)].status = "fresh"
         /\ db[Watch(f)].asOf = Len(feed)
         /\ remote[f] # NoContent) => db[Doc(f)].current

\* A watched file holds what PostgreSQL refuses, for as long as nobody changes it.
Poisoned(f) == db[Watch(f)].enabled /\ remote[f] \in Poison

\* A watched file whose content PostgreSQL can store is imported, or its watch
\* is disabled, or the file changes again.
GoodChangeIsImported ==
    \A f \in Files, c \in Contents \ Poison :
        (db[Watch(f)].enabled /\ remote[f] = c)
            ~> db[Doc(f)].sha = c \/ ~db[Watch(f)].enabled \/ remote[f] # c

\* A watched file whose content PostgreSQL can store is imported, or its watch
\* is disabled, or the file changes again, or a file of the same batch holds
\* what PostgreSQL refuses: that one takes the whole batch with it each time
\* (syncDueSourcesV2 catches the error inside the transaction it has aborted).
ChangeIsImported ==
    \A f \in Files, c \in Contents \ Poison :
        (db[Watch(f)].enabled /\ remote[f] = c)
            ~> \/ db[Doc(f)].sha = c \/ ~db[Watch(f)].enabled \/ remote[f] # c
               \/ \E g \in Files : Poisoned(g)
=============================================================================

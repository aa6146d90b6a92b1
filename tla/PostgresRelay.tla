---------------------------- MODULE PostgresRelay ----------------------------
(***************************************************************************)
(* The relay on PostgreSQL (apps/sync-relay/src/postgres-relay.ts behind   *)
(* server.ts): every request is one READ COMMITTED transaction that holds  *)
(* the row of its device shared, then a nonce, and does its work under     *)
(* further row locks.  What it wrote others see at its COMMIT.             *)
(*                                                                         *)
(* The clock counts units of five minutes, the window of verifyRequest; a *)
(* nonce is kept for two.  It does not advance during a transaction.       *)
(* Requests of the Vault's devices are signed with their keys; a request   *)
(* may arrive late, twice, or not at all, and its answer may be lost.      *)
(*                                                                         *)
(* Not here: chunks (module ChunkUpload), which take the same locks as a   *)
(* pull, and the keys of a device, which enrolling it again may replace.   *)
(***************************************************************************)
EXTENDS SequencesExt, FiniteSets, Naturals

CONSTANTS
    Peers,          \* device ids
    RecordsOf,      \* [Peers -> records a device may push, in its order]
    Txns,           \* transactions the relay may have open at once
    PageSize,       \* records of a page
    Operations,     \* operations a run lets the devices ask for
    MaxRequests,    \* bound: requests made in one behaviour
    MaxTime         \* bound: the clock

ASSUME RelayAssumption ==
    /\ \A d \in Peers : RecordsOf[d] \in Seq(Range(RecordsOf[d]))
    /\ PageSize \in Nat \ {0}
    /\ MaxRequests \in Nat
    /\ MaxTime \in Nat

VARIABLES
    next_sequence,  \* of the Vault's row; 0 when the Vault is deleted
    sync_devices,   \* [Peers -> "unknown", "active" or "revoked"]
    sync_records,   \* set of [sequence, record]
    sync_nonces,    \* set of [nonce, expires]
    signed,         \* signed requests made so far
    txn,            \* [Txns -> a transaction and the request it serves]
    got,            \* [Peers -> records a device has pulled, in order]
    done,           \* ghost: [nonces -> times the request was carried out]
    now             \* the clock

relayDataVars == <<next_sequence, sync_devices, sync_records, sync_nonces>>
relayVars == <<relayDataVars, signed, txn, got, done, now>>

Unsigned == [nonce |-> 0]

NoTxn == [stage |-> "idle", request |-> Unsigned, next |-> 0, new |-> {},
           left |-> {}, page |-> <<>>, held |-> {}]

\* registerVault by one device, and some others enrolled since.
RelayInit ==
    /\ next_sequence = 1
    /\ \E S \in (SUBSET Peers) \ {{}} :
          sync_devices = [d \in Peers |-> IF d \in S THEN "active" ELSE "unknown"]
    /\ sync_records = {}
    /\ sync_nonces = {}
    /\ signed = {}
    /\ txn = [c \in Txns |-> NoTxn]
    /\ got = [d \in Peers |-> <<>>]
    /\ done = [n \in 1..MaxRequests |-> 0]
    /\ now = 0

-----------------------------------------------------------------------------
\* Requests

Wish(op, batch, after, device) ==
    [op |-> op, batch |-> batch, after |-> after, device |-> device]

Batches(d) == {SubSeq(RecordsOf[d], i, j) : i, j \in DOMAIN RecordsOf[d]} \ {<<>>}

\* Push some of its records, pull after its cursor, enroll or revoke a device,
\* delete the Vault.
Wishes(d) ==
    {w \in {Wish("push", b, 0, d) : b \in Batches(d)}
           \cup {Wish("pull", <<>>, Len(got[d]), d), Wish("delete", <<>>, 0, d)}
           \cup {Wish(op, <<>>, 0, e) : op \in {"enroll", "revoke"}, e \in Peers} :
        w.op \in Operations}

\* signRequest, with the clock of the device one unit ahead at most.
Sign(d) ==
    /\ Cardinality(signed) < MaxRequests
    /\ sync_devices[d] # "unknown"
    /\ \E w \in Wishes(d), ahead \in {0, 1} :
          signed' = signed \cup
              {[op |-> w.op, batch |-> w.batch, after |-> w.after, device |-> w.device,
                by |-> d, nonce |-> Cardinality(signed) + 1, stamp |-> now + ahead]}
    /\ UNCHANGED <<relayDataVars, txn, got, done, now>>

-----------------------------------------------------------------------------
\* Locks.  `held' names the row locks of a transaction: <<"share", d>> and
\* <<"update", d>> of a device, <<"vault">> of the Vault's row together with
\* the advisory lock on its id.

OtherTxns(c) == Txns \ {c}

FreeFor(c, lock) == \A o \in OtherTxns(c) : lock \notin txn[o].held

Lockable(c, d) == FreeFor(c, <<"share", d>>) /\ FreeFor(c, <<"update", d>>)

TxnEnds(c) == txn' = [txn EXCEPT ![c] = NoTxn]

\* An error, a lost connection or the end of the server's process: ROLLBACK.
TxnRollsBack(c) == TxnEnds(c) /\ UNCHANGED <<relayDataVars, signed, got, done, now>>

-----------------------------------------------------------------------------
\* authenticated(), up to the work, in one step: what waits here holds at most
\* its device's row, which only a revocation, or its own repetition, waits for.

\* verifyRequest: the stamp is at most five now away.
InTime(r) == r.stamp <= now + 1 /\ now <= r.stamp + 1

\* DELETE ... WHERE expires_at < now().
Unexpired == {n \in sync_nonces : n.expires >= now}

\* The device's row FOR SHARE, and the nonce by its unique index.
Locks(r) == {<<"share", r.by>>, <<"nonce", r.nonce>>}

\* A request arrives, for the first time or again.
Authenticate(c) ==
    /\ txn[c].stage = "idle"
    /\ \E r \in signed :
          /\ sync_devices[r.by] = "active"
          /\ InTime(r)
          /\ FreeFor(c, <<"update", r.by>>)
          /\ FreeFor(c, <<"nonce", r.nonce>>)
          /\ \A n \in Unexpired : n.nonce # r.nonce
          /\ txn' = [txn EXCEPT ![c].stage = r.op, ![c].request = r, ![c].held = Locks(r)]
    /\ UNCHANGED <<relayDataVars, signed, got, done, now>>

\* Mutant: nonces are kept for five now.
KeptForFive(c) == {[nonce |-> txn[c].request.nonce, expires |-> now + 1]}

Kept(c) == {[nonce |-> txn[c].request.nonce, expires |-> now + 2]}

\* COMMIT: the nonce and what the work wrote.
Commits(c) ==
    /\ sync_nonces' = Unexpired \cup Kept(c)
    /\ done' = [done EXCEPT ![txn[c].request.nonce] = @ + 1]
    /\ UNCHANGED <<signed, now>>

-----------------------------------------------------------------------------
\* push

\* Mutant: the numbers come from a sequence, which no transaction holds.
LockVaultOfSequence(c) ==
    /\ txn[c].stage = "push"
    /\ next_sequence > 0
    /\ txn' = [txn EXCEPT ![c].stage = "insert", ![c].next = next_sequence]
    /\ next_sequence' = next_sequence + Len(txn[c].request.batch)
    /\ UNCHANGED <<sync_devices, sync_records, sync_nonces, signed, got, done, now>>

\* The advisory lock and next_sequence FOR UPDATE.
LockVault(c) ==
    /\ txn[c].stage = "push"
    /\ FreeFor(c, <<"vault">>)
    /\ IF next_sequence > 0
       THEN /\ txn' = [txn EXCEPT ![c].stage = "insert", ![c].next = next_sequence,
                                  ![c].held = @ \cup {<<"vault">>}]
            /\ UNCHANGED <<relayDataVars, signed, got, done, now>>
       ELSE TxnRollsBack(c)

StoredRecords == {row.record : row \in sync_records}

\* ON CONFLICT DO NOTHING: the positions of a batch that are inserted.
Fresh(batch) ==
    {i \in DOMAIN batch :
        batch[i] \notin StoredRecords \cup {batch[k] : k \in 1..(i - 1)}}

\* The rows of a batch; each but the first has the number after the one before.
RowsOf(first, batch) ==
    {[sequence |-> first + Cardinality({k \in Fresh(batch) : k < i}),
      record |-> batch[i]] : i \in Fresh(batch)}

\* The envelopes one by one; next_sequence is written back; COMMIT.
StoreRecords(c) ==
    LET batch == txn[c].request.batch IN
    /\ txn[c].stage = "insert"
    /\ next_sequence' = txn[c].next + Cardinality(Fresh(batch))
    /\ sync_records' = sync_records \cup RowsOf(txn[c].next, batch)
    /\ Commits(c) /\ TxnEnds(c)
    /\ UNCHANGED <<sync_devices, got>>

-----------------------------------------------------------------------------
\* pull

\* ORDER BY sequence.
Sorted(rows) ==
    [i \in 1..Cardinality(rows) |->
        CHOOSE row \in rows :
            Cardinality({s \in rows : s.sequence < row.sequence}) = i - 1]

Later(after) == {row \in sync_records : row.sequence > after}

PageAfter(after) ==
    LET rows == Later(after) IN
    SubSeq(Sorted(rows), 1,
           IF Cardinality(rows) < PageSize THEN Cardinality(rows) ELSE PageSize)

\* The page is selected, COMMIT, and the answer is under way.
SelectPage(c) ==
    /\ txn[c].stage = "pull"
    /\ txn' = [txn EXCEPT ![c].stage = "answer", ![c].held = {},
                          ![c].page = PageAfter(txn[c].request.after)]
    /\ Commits(c)
    /\ UNCHANGED <<next_sequence, sync_devices, sync_records, got>>

\* The device takes the page, unless it gave this request up and pulled again:
\* its cursor, the length of what it got, becomes the last sequence of the page.
TakePage(c) ==
    LET r == txn[c].request
        p == txn[c].page
    IN
    /\ txn[c].stage = "answer"
    /\ got' = IF r.after # Len(got[r.by]) THEN got
              ELSE [got EXCEPT ![r.by] = @ \o [i \in 1..Len(p) |-> p[i].record]]
    /\ TxnEnds(c)
    /\ UNCHANGED <<relayDataVars, signed, done, now>>

-----------------------------------------------------------------------------
\* Devices

\* enrollDevice: upsert, unless the row is revoked, which is no error here.
EnrollDevice(c) ==
    LET d == txn[c].request.device IN
    /\ txn[c].stage = "enroll"
    /\ Lockable(c, d)
    /\ sync_devices[d] = "unknown" => FreeFor(c, <<"vault">>)
    /\ sync_devices' = [sync_devices EXCEPT ![d] = IF @ = "revoked" THEN @ ELSE "active"]
    /\ Commits(c) /\ TxnEnds(c)
    /\ UNCHANGED <<next_sequence, sync_records, got>>

Active == {d \in Peers : sync_devices[d] = "active"}

\* revokeDevice: the active devices are selected FOR UPDATE, ...
SelectActive(c) ==
    /\ txn[c].stage = "revoke"
    /\ txn' = [txn EXCEPT ![c].stage = "locking", ![c].left = Active]
    /\ UNCHANGED <<relayDataVars, signed, got, done, now>>

\* ... one row after the other; a row revoked during the wait is left out.
LockDevice(c, d) ==
    /\ d \in txn[c].left
    /\ Lockable(c, d)
    /\ LET still == {d} \cap Active IN
       txn' = [txn EXCEPT ![c].left = @ \ {d}, ![c].new = @ \cup still,
                          ![c].held = @ \cup {<<"update", e>> : e \in still}]

LockDevices(c) ==
    /\ txn[c].stage = "locking"
    /\ \/ /\ \E d \in Peers : LockDevice(c, d)
          /\ UNCHANGED <<relayDataVars, signed, got, done, now>>
       \/ /\ txn[c].left = {}
          /\ Cardinality(txn[c].new) <= 1
          /\ TxnRollsBack(c)
       \/ /\ txn[c].left = {}
          /\ Cardinality(txn[c].new) > 1
          /\ txn' = [txn EXCEPT ![c].stage = "revoking"]
          /\ UNCHANGED <<relayDataVars, signed, got, done, now>>

\* UPDATE ... WHERE revoked_at IS NULL, COMMIT; no row is an error.
RevokeDevice(c) ==
    LET d == txn[c].request.device IN
    /\ txn[c].stage = "revoking"
    /\ Lockable(c, d)
    /\ IF sync_devices[d] = "active"
       THEN /\ sync_devices' = [sync_devices EXCEPT ![d] = "revoked"]
            /\ Commits(c) /\ TxnEnds(c)
            /\ UNCHANGED <<next_sequence, sync_records, got>>
       ELSE TxnRollsBack(c)

\* deleteVault: the row of the Vault, then by cascade those of its devices.
LockForDelete(c) ==
    /\ txn[c].stage = "delete"
    /\ FreeFor(c, <<"vault">>)
    /\ IF next_sequence > 0
       THEN /\ txn' = [txn EXCEPT ![c].stage = "cascade", ![c].held = @ \cup {<<"vault">>}]
            /\ UNCHANGED <<relayDataVars, signed, got, done, now>>
       ELSE TxnRollsBack(c)

Cascade(c) ==
    /\ txn[c].stage = "cascade"
    /\ \A d \in Peers : sync_devices[d] # "unknown" => Lockable(c, d)
    /\ next_sequence' = 0
    /\ sync_records' = {}
    /\ sync_nonces' = {}
    /\ sync_devices' = [d \in Peers |-> "unknown"]
    /\ done' = [done EXCEPT ![txn[c].request.nonce] = @ + 1]
    /\ TxnEnds(c)
    /\ UNCHANGED <<signed, got, now>>

-----------------------------------------------------------------------------
\* A request fails or its answer is lost; PostgreSQL ends a deadlock this way.
TxnFails(c) == txn[c].stage # "idle" /\ TxnRollsBack(c)

Tick ==
    /\ now < MaxTime
    /\ \A c \in Txns : txn[c].stage = "idle"
    /\ now' = now + 1
    /\ UNCHANGED <<relayDataVars, signed, txn, got, done>>

RunTxn(c) ==
    \/ LockVault(c) \/ StoreRecords(c)
    \/ SelectPage(c) \/ TakePage(c)
    \/ EnrollDevice(c) \/ SelectActive(c) \/ LockDevices(c) \/ RevokeDevice(c)
    \/ LockForDelete(c) \/ Cascade(c)

RelayNext ==
    \/ \E d \in Peers : Sign(d)
    \/ \E c \in Txns : Authenticate(c) \/ RunTxn(c) \/ TxnFails(c)
    \/ Tick

RelaySpec == RelayInit /\ [][RelayNext]_relayVars

-----------------------------------------------------------------------------
\* Properties

\* Whatever order transactions begin, wait, fail and commit in, the devices see
\* the relay of the module RelayLog: sequence numbers become visible in their
\* order and without gaps, so that no cursor passes a record; no request of a
\* revoked device takes effect after its revocation; a device that was revoked
\* stays out; the last device cannot be revoked.
Log == INSTANCE RelayLog WITH
    Devices <- Peers,
    log <- [i \in 1..Cardinality(sync_records) |-> Sorted(sync_records)[i].record],
    members <- Active,
    former <- {d \in Peers : sync_devices[d] = "revoked"},
    received <- got

RelayImplementsLog == Log!Spec

\* A signed request that arrives twice is carried out at most once: as long as
\* its signature is in time, its nonce is kept.
NonceServesOnce == \A n \in DOMAIN done : done[n] <= 1

\* What pushes are accepted for is in the log: the ids answered were stored, and
\* no two rows hold one record or one number.
RelayTypeOK ==
    /\ next_sequence \in Nat /\ now \in 0..MaxTime
    /\ sync_devices \in [Peers -> {"unknown", "active", "revoked"}]
    /\ \A r, s \in sync_records : (r.sequence = s.sequence \/ r.record = s.record) => r = s
    /\ sync_records # {} => {r.sequence : r \in sync_records} = 1..(next_sequence - 1)
    /\ \A c \in Txns : txn[c].request \in signed \cup {Unsigned}

\* The relay's rows stay one log, and no request counts twice.
RequestsServeOnce == RelayTypeOK /\ NonceServesOnce
=============================================================================

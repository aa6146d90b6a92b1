------------------------- MODULE PostgresRelayProofs -------------------------
(***************************************************************************)
(* Proofs about PostgresRelay, for any number of devices, records, open    *)
(* transactions and requests: its transactions implement RelayLog, and no  *)
(* request is carried out twice.                                           *)
(***************************************************************************)
EXTENDS PostgresRelay, FiniteSetTheorems, SequenceTheorems, TLAPS

-----------------------------------------------------------------------------
(* Counting: the rank of a row, and of a position                          *)

(* A set numbered a+1, a+2, ... up to m - 1 has as many elements as numbers. *)
LEMMA CountNumbered ==
    ASSUME NEW T, NEW num, NEW a \in Nat, NEW m \in Nat, a < m,
           num \in [T -> (a + 1)..(m - 1)],
           \A s, t \in T : num[s] = num[t] => s = t,
           \A n \in (a + 1)..(m - 1) : \E t \in T : num[t] = n
    PROVE  IsFiniteSet(T) /\ Cardinality(T) = m - a - 1
<1> DEFINE I == (a + 1)..(m - 1)
<1>1. IsFiniteSet(I) /\ Cardinality(I) = m - a - 1
  <2>1. a + 1 \in Int /\ m - 1 \in Int
    OBVIOUS
  <2>2. Cardinality(I) = IF a + 1 > m - 1 THEN 0 ELSE (m - 1) - (a + 1) + 1
    BY <2>1, FS_Interval
  <2>3. IsFiniteSet(I)
    BY <2>1, FS_Interval
  <2> QED
    BY <2>2, <2>3
<1> HIDE DEF I
<1>2. num \in Injection(T, I)
  BY DEF Injection, IsInjective, I
<1>3. num \in Surjection(T, I)
  BY DEF Surjection, I
<1>4. IsFiniteSet(T) /\ (Cardinality(T) = Cardinality(I) <=> num \in Surjection(T, I))
  BY <1>1, <1>2, FS_Injection
<1> QED
  BY <1>1, <1>3, <1>4

(* How rows are ordered whose numbers run from a + 1 to a + n. *)
Numbered(S, a, n) ==
    /\ \A r \in S : r.sequence \in (a + 1)..(a + n)
    /\ \A r, s \in S : r.sequence = s.sequence => r = s
    /\ \A m \in (a + 1)..(a + n) : \E r \in S : r.sequence = m

LEMMA SortedRows ==
    ASSUME NEW S, NEW a \in Nat, NEW n \in Nat, Numbered(S, a, n)
    PROVE  /\ IsFiniteSet(S) /\ Cardinality(S) = n
           /\ DOMAIN Sorted(S) = 1..n
           /\ \A i \in 1..n : Sorted(S)[i] \in S /\ Sorted(S)[i].sequence = a + i
           /\ Sorted(S) \in Seq(S) /\ Len(Sorted(S)) = n
<1> DEFINE Below(m) == {s \in S : s.sequence < m}
<1>1. ASSUME NEW m \in Nat, m \in (a + 1)..(a + n + 1)
      PROVE  IsFiniteSet(Below(m)) /\ Cardinality(Below(m)) = m - a - 1
  <2> DEFINE T == Below(m)
             num == [s \in T |-> s.sequence]
  <2>1. num \in [T -> (a + 1)..(m - 1)]
    BY DEF Numbered
  <2>2. \A s, t \in T : num[s] = num[t] => s = t
    BY DEF Numbered
  <2>3. ASSUME NEW k \in (a + 1)..(m - 1) PROVE \E t \in T : num[t] = k
    <3>1. k \in (a + 1)..(a + n) /\ k < m
      BY <1>1
    <3>2. PICK r \in S : r.sequence = k
      BY <3>1 DEF Numbered
    <3> QED
      BY <3>1, <3>2
  <2>4. a < m
    BY <1>1
  <2> HIDE DEF num, T
  <2>5. IsFiniteSet(T) /\ Cardinality(T) = m - a - 1
    BY ONLY <2>1, <2>2, <2>3, <2>4, CountNumbered, m \in Nat, a \in Nat
  <2> QED
    BY <2>5 DEF T
<1>2. IsFiniteSet(S) /\ Cardinality(S) = n
  <2>1. Below(a + n + 1) = S
    BY DEF Numbered
  <2>2. a + n + 1 \in Nat /\ a + n + 1 \in (a + 1)..(a + n + 1) /\ (a + n + 1) - a - 1 = n
    OBVIOUS
  <2> HIDE DEF Below
  <2> QED
    BY <1>1, <2>1, <2>2
<1>3. DOMAIN Sorted(S) = 1..n
  BY <1>2 DEF Sorted
<1>4. ASSUME NEW i \in 1..n PROVE Sorted(S)[i] \in S /\ Sorted(S)[i].sequence = a + i
  <2> DEFINE At(row) == Cardinality({s \in S : s.sequence < row.sequence}) = i - 1
             it == CHOOSE row \in S : At(row)
  <2>1. Sorted(S)[i] = it
    BY <1>2 DEF Sorted
  <2>2. PICK r \in S : r.sequence = a + i
    BY DEF Numbered
  <2>3. ASSUME NEW row \in S
        PROVE  Cardinality({s \in S : s.sequence < row.sequence}) = row.sequence - a - 1
    <3>1. row.sequence \in Nat /\ row.sequence \in (a + 1)..(a + n + 1)
      BY DEF Numbered
    <3>2. Cardinality(Below(row.sequence)) = row.sequence - a - 1
      BY ONLY <1>1, <3>1
    <3> QED
      BY <3>2
  <2>4. At(r)
    BY <2>2, <2>3
  <2>5. it \in S /\ At(it)
    BY <2>2, <2>4
  <2>6. it.sequence \in Nat /\ it.sequence - a - 1 = i - 1
    <3> HIDE DEF it
    <3> QED
      BY <2>3, <2>5 DEF Numbered
  <2> QED
    BY <2>1, <2>5, <2>6
<1>5. Sorted(S) \in [1..n -> S]
  BY <1>2, <1>4 DEF Sorted
<1> QED
  BY <1>2, <1>3, <1>4, <1>5

(* The rank of a position among some of the first n. *)
Rank(F, i) == Cardinality({k \in F : k < i})

LEMMA Ranks ==
    ASSUME NEW n \in Nat, NEW F \in SUBSET (1..n)
    PROVE  /\ IsFiniteSet(F) /\ Cardinality(F) \in Nat
           /\ \A i \in F : Rank(F, i) \in 0..(Cardinality(F) - 1)
           /\ \A i, j \in F : Rank(F, i) = Rank(F, j) => i = j
           /\ \A m \in 0..(Cardinality(F) - 1) : \E i \in F : Rank(F, i) = m
<1>1. IsFiniteSet(F) /\ Cardinality(F) \in Nat
  <2>1. IsFiniteSet(1..n)
    BY FS_Interval
  <2> QED
    BY <2>1, FS_Subset, FS_CardinalityType
<1>2. \A T \in SUBSET F : IsFiniteSet(T) /\ Cardinality(T) \in Nat
  BY <1>1, FS_Subset, FS_CardinalityType
<1>3. ASSUME NEW T \in SUBSET F, NEW U \in SUBSET T, NEW i \in T, i \notin U
      PROVE  Cardinality(U) < Cardinality(T)
  <2>1. IsFiniteSet(T) /\ Cardinality(T) \in Nat /\ Cardinality(U) \in Nat
    BY <1>2
  <2>2. Cardinality(U) <= Cardinality(T) /\ (Cardinality(U) = Cardinality(T) => T = U)
    BY <2>1, FS_Subset
  <2> QED
    BY <1>3, <2>1, <2>2
<1>4. ASSUME NEW i \in F PROVE Rank(F, i) \in 0..(Cardinality(F) - 1)
  <2> DEFINE U == {k \in F : k < i}
  <2>1. U \in SUBSET F /\ i \notin U
    OBVIOUS
  <2>2. Cardinality(U) < Cardinality(F) /\ Cardinality(U) \in Nat
    BY <1>2, <1>3, <2>1
  <2> QED
    BY <1>1, <2>2 DEF Rank
<1>5. ASSUME NEW i \in F, NEW j \in F, i < j PROVE Rank(F, i) < Rank(F, j)
  <2> DEFINE U == {k \in F : k < i}
             T == {k \in F : k < j}
  <2>1. /\ T \in SUBSET F /\ i \in T /\ i \notin U
        /\ \A k \in F : k < i => k < j
    BY <1>5
  <2>2. U \in SUBSET T
    BY <2>1
  <2> HIDE DEF U, T
  <2>3. Cardinality(U) < Cardinality(T)
    BY <1>3, <2>1, <2>2
  <2> QED
    BY <2>3 DEF Rank, U, T
<1>6. ASSUME NEW i \in F, NEW j \in F, Rank(F, i) = Rank(F, j) PROVE i = j
  <2>1. Rank(F, i) \in Int /\ Rank(F, j) \in Int
    BY <1>1, <1>4
  <2>2. CASE i < j
    BY <1>5, <1>6, <2>1, <2>2
  <2>3. CASE j < i
    BY <1>5, <1>6, <2>1, <2>3
  <2> QED
    BY <2>2, <2>3
<1>7. ASSUME NEW m \in 0..(Cardinality(F) - 1) PROVE \E i \in F : Rank(F, i) = m
  <2> DEFINE I == 0..(Cardinality(F) - 1)
             f == [i \in F |-> Rank(F, i)]
  <2>1. IsFiniteSet(I) /\ Cardinality(I) = Cardinality(F)
    <3>1. Cardinality(F) - 1 \in Int /\ 0 \in Int
      BY <1>1
    <3>2. /\ IsFiniteSet(I)
          /\ Cardinality(I) = IF 0 > Cardinality(F) - 1 THEN 0 ELSE Cardinality(F) - 1 - 0 + 1
      BY <3>1, FS_Interval
    <3> QED
      BY <1>1, <3>2
  <2>2. f \in Injection(F, I)
    BY <1>4, <1>6 DEF Injection, IsInjective
  <2>3. f \in Surjection(F, I)
    <3> HIDE DEF I, f
    <3> QED
      BY <1>1, <2>1, <2>2, FS_Injection
  <2> QED
    BY <2>3 DEF Surjection
<1> QED
  BY <1>1, <1>4, <1>6, <1>7

-----------------------------------------------------------------------------
(* The invariant of the relay                                              *)

Records == UNION {Range(RecordsOf[d]) : d \in Peers}

Row == [sequence: Nat, record: Records]

WorkOf == {"push", "pull", "enroll", "revoke", "delete"}

Request == [op: WorkOf, batch: Seq(Records), after: Nat, device: Peers,
            by: Peers, nonce: 1..MaxRequests, stamp: Nat]

Lock == ({"share", "update"} \X Peers) \cup ({"nonce"} \X Nat) \cup {<<"vault">>}

Txn == [stage: WorkOf \cup {"idle", "insert", "answer", "locking", "revoking", "cascade"},
        request: Request \cup {Unsigned}, next: Nat, new: SUBSET Peers,
        left: SUBSET Peers, page: Seq(Row), held: SUBSET Lock]

RelayTypes ==
    /\ next_sequence \in Nat
    /\ sync_devices \in [Peers -> {"unknown", "active", "revoked"}]
    /\ sync_records \subseteq Row
    /\ sync_nonces \subseteq [nonce: Nat, expires: Nat]
    /\ signed \subseteq Request
    /\ txn \in [Txns -> Txn]
    /\ got \in [Peers -> Seq(Records)]
    /\ done \in [1..MaxRequests -> Nat]
    /\ now \in 0..MaxTime

(* The rows are numbered from 1 to next_sequence; a deleted Vault, and only  *)
(* it, has no active device.                                                 *)
RowsOK ==
    /\ \A r, s \in sync_records : r.record = s.record => r = s
    /\ next_sequence = 0 => sync_records = {} /\ Active = {}
    /\ next_sequence > 0 =>
          Numbered(sync_records, 0, next_sequence - 1) /\ Active # {}

(* `recs' are the records from number a + 1 on. *)
Follows(recs, a) ==
    \A i \in 1..Len(recs) :
        \E row \in sync_records : row.sequence = a + i /\ row.record = recs[i]

GotOK == next_sequence > 0 => \A d \in Peers : Follows(got[d], 0)

(* A request is carried out once, and then its nonce is kept as long as its  *)
(* signature is in time.                                                     *)
NoncesOK ==
    /\ IsFiniteSet(signed)
    /\ \A r \in signed : r.nonce <= Cardinality(signed)
    /\ \A r, s \in signed : r.nonce = s.nonce => r = s
    /\ \A n \in 1..MaxRequests :
          /\ done[n] <= 1
          /\ done[n] > 0 => \E r \in signed : r.nonce = n
    /\ next_sequence > 0 =>
          \A r \in signed :
              done[r.nonce] > 0 =>
                  \/ now > r.stamp + 1
                  \/ \E k \in sync_nonces : k.nonce = r.nonce /\ k.expires >= r.stamp + 1

(* A transaction that has still to commit. *)
Working(t) == t.stage \notin {"idle", "answer"}

Numbering(t) == t.stage \in {"insert", "cascade"}

(* What the transactions find. *)
Found == [signed |-> signed, devices |-> sync_devices, done |-> done, now |-> now,
          next |-> next_sequence, rows |-> sync_records]

(* What a transaction has locked is as it was read. *)
TxnOK(t, found) ==
    /\ t.stage = "idle" => t = NoTxn
    /\ t.stage # "idle" => t.request \in found.signed
    /\ Working(t) =>
          /\ found.devices[t.request.by] = "active"
          /\ {<<"share", t.request.by>>, <<"nonce", t.request.nonce>>} \subseteq t.held
          /\ found.done[t.request.nonce] = 0
          /\ t.request.stamp <= found.now + 1 /\ found.now <= t.request.stamp + 1
    /\ Numbering(t) => <<"vault">> \in t.held
    /\ t.stage = "insert" => t.next = found.next /\ found.next > 0
    /\ t.stage \notin {"locking", "revoking"} => t.new = {}
    /\ IsFiniteSet(t.new)
    /\ \A d \in t.new : found.devices[d] = "active" /\ <<"update", d>> \in t.held
    /\ t.stage = "revoking" => Cardinality(t.new) > 1
    /\ t.stage = "answer" /\ found.next > 0 =>
          \A i \in 1..Len(t.page) :
              t.page[i] \in found.rows /\ t.page[i].sequence = t.request.after + i

(* Two transactions neither number records nor serve one request together. *)
Apart(t, u) ==
    /\ ~(Numbering(t) /\ Numbering(u))
    /\ Working(t) /\ Working(u) => t.request.nonce # u.request.nonce

TxnsOK ==
    /\ \A c \in Txns : TxnOK(txn[c], Found)
    /\ \A c, o \in Txns : c # o => Apart(txn[c], txn[o])

RelayInv == RelayTypes /\ RowsOK /\ GotOK /\ NoncesOK /\ TxnsOK

LEMMA NoTxnType == NoTxn \in Txn
BY DEF NoTxn, Txn, Unsigned

LEMMA IdleOK == \A found : TxnOK(NoTxn, found)
BY FS_EmptySet DEF TxnOK, NoTxn, Working, Numbering

LEMMA IdleApart == \A t : Apart(t, NoTxn)
BY DEF Apart, NoTxn, Working, Numbering

LEMMA ApartSymmetric == \A t, u : Apart(t, u) => Apart(u, t)
BY DEF Apart

LEMMA FollowsNothing == \A a : Follows(<<>>, a)
BY DEF Follows

LEMMA RelayInvInit == RelayInit => RelayInv
<1> SUFFICES ASSUME RelayInit PROVE RelayInv
  OBVIOUS
<1> USE DEF RelayInit
<1>1. RelayTypes
  BY RelayAssumption, NoTxnType DEF RelayTypes
<1>2. Active # {}
  <2>1. PICK S \in (SUBSET Peers) \ {{}} :
           sync_devices = [d \in Peers |-> IF d \in S THEN "active" ELSE "unknown"]
    OBVIOUS
  <2>2. PICK d : d \in S
    BY <2>1
  <2>3. d \in Peers /\ sync_devices[d] = "active"
    BY <2>1, <2>2
  <2> QED
    BY <2>3 DEF Active
<1>3. Numbered(sync_records, 0, next_sequence - 1)
  BY DEF Numbered
<1>4. RowsOK
  BY <1>2, <1>3 DEF RowsOK
<1>5. GotOK
  BY FollowsNothing DEF GotOK
<1>6. NoncesOK
  BY FS_EmptySet DEF NoncesOK
<1>7. TxnOK(NoTxn, Found)
  BY IdleOK
<1>8. Apart(NoTxn, NoTxn)
  BY DEF Apart, NoTxn, Working, Numbering
<1>9. TxnsOK
  BY <1>7, <1>8 DEF TxnsOK
<1> QED
  BY <1>1, <1>4, <1>5, <1>6, <1>9 DEF RelayInv

(* A step of one transaction that is not a COMMIT. *)
LEMMA TxnAlone ==
    ASSUME RelayInv, UNCHANGED <<relayDataVars, signed, got, done, now>>,
           NEW c \in Txns, NEW t \in Txn, txn' = [txn EXCEPT ![c] = t],
           TxnOK(t, Found), \A o \in OtherTxns(c) : Apart(txn[o], t)
    PROVE  RelayInv'
<1> USE DEF relayDataVars
<1>1. /\ txn \in [Txns -> Txn]
      /\ txn'[c] = t
      /\ \A o \in OtherTxns(c) : txn'[o] = txn[o]
      /\ \A o \in Txns : o = c \/ o \in OtherTxns(c)
  BY DEF RelayInv, RelayTypes, OtherTxns
<1>2. RelayTypes'
  BY DEF RelayInv, RelayTypes
<1>3. RowsOK' /\ GotOK' /\ NoncesOK'
  <2>1. Active' = Active
    BY DEF Active
  <2> QED
    BY <2>1 DEF RelayInv, RowsOK, GotOK, NoncesOK, Follows
<1>4. Found' = Found
  BY DEF Found
<1>5. ASSUME NEW o \in Txns PROVE TxnOK(txn'[o], Found)
  BY <1>1 DEF RelayInv, TxnsOK
<1>6. ASSUME NEW o \in Txns PROVE TxnOK(txn'[o], Found')
  BY <1>4, <1>5
<1>7. ASSUME NEW o \in Txns, NEW p \in Txns, o # p PROVE Apart(txn'[o], txn'[p])
  <2>1. CASE o = c
    BY <1>1, <1>7, <2>1, ApartSymmetric
  <2>2. CASE p = c
    BY <1>1, <1>7, <2>2
  <2>3. CASE o # c /\ p # c
    BY <1>1, <1>7, <2>3 DEF RelayInv, TxnsOK
  <2> QED
    BY <2>1, <2>2, <2>3
<1>8. TxnsOK'
  BY <1>6, <1>7 DEF TxnsOK
<1> QED
  BY <1>2, <1>3, <1>8 DEF RelayInv

LEMMA RollsBackOK ==
    ASSUME RelayInv, NEW c \in Txns, TxnRollsBack(c) PROVE RelayInv'
BY IdleOK, IdleApart, NoTxnType, TxnAlone DEF TxnRollsBack, TxnEnds

-----------------------------------------------------------------------------
(* The steps of a transaction that write nothing yet                       *)

LEMMA SignOK ==
    ASSUME RelayInv, NEW d \in Peers, Sign(d) PROVE RelayInv'
<1>1. PICK w \in Wishes(d), ahead \in {0, 1} :
         signed' = signed \cup
            {[op |-> w.op, batch |-> w.batch, after |-> w.after, device |-> w.device,
              by |-> d, nonce |-> Cardinality(signed) + 1, stamp |-> now + ahead]}
  BY DEF Sign
<1> DEFINE n == Cardinality(signed)
           new == [op |-> w.op, batch |-> w.batch, after |-> w.after, device |-> w.device,
                   by |-> d, nonce |-> n + 1, stamp |-> now + ahead]
<1>2. /\ n < MaxRequests /\ UNCHANGED <<relayDataVars, txn, got, done, now>>
      /\ signed' = signed \cup {new}
  BY <1>1 DEF Sign
<1>3. n \in Nat /\ IsFiniteSet(signed)
  BY FS_CardinalityType DEF RelayInv, NoncesOK
<1>4. w.op \in WorkOf /\ w.batch \in Seq(Records) /\ w.after \in Nat /\ w.device \in Peers
  <2>1. \A b \in Batches(d) : b \in Seq(Records)
    <3> SUFFICES ASSUME NEW b \in Batches(d) PROVE b \in Seq(Records)
      OBVIOUS
    <3> PICK i \in DOMAIN RecordsOf[d], j \in DOMAIN RecordsOf[d] :
                b = SubSeq(RecordsOf[d], i, j)
      BY DEF Batches
    <3>1. RecordsOf[d] \in Seq(Records)
      <4>1. RecordsOf[d] \in Seq(Range(RecordsOf[d])) /\ Range(RecordsOf[d]) \subseteq Records
        BY RelayAssumption DEF Records
      <4> QED
        BY <4>1
    <3>2. DOMAIN RecordsOf[d] = 1..Len(RecordsOf[d])
      BY <3>1
    <3> QED
      BY <3>1, <3>2, SubSeqProperties
  <2>2. Len(got[d]) \in Nat
    BY DEF RelayInv, RelayTypes
  <2>3. \/ \E b \in Batches(d) : w = Wish("push", b, 0, d)
        \/ w = Wish("pull", <<>>, Len(got[d]), d)
        \/ w = Wish("delete", <<>>, 0, d)
        \/ \E op \in {"enroll", "revoke"}, e \in Peers : w = Wish(op, <<>>, 0, e)
    BY DEF Wishes
  <2>4. <<>> \in Seq(Records) /\ 0 \in Nat
    OBVIOUS
  <2>5. ASSUME NEW op \in WorkOf, NEW b \in Seq(Records), NEW m \in Nat, NEW e \in Peers,
               w = Wish(op, b, m, e)
        PROVE  w.op \in WorkOf /\ w.batch \in Seq(Records) /\ w.after \in Nat /\ w.device \in Peers
    BY <2>5 DEF Wish
  <2>6. {"push", "pull", "delete", "enroll", "revoke"} \subseteq WorkOf
    BY DEF WorkOf
  <2>7. ASSUME NEW b \in Batches(d), w = Wish("push", b, 0, d)
        PROVE  w.op \in WorkOf /\ w.batch \in Seq(Records) /\ w.after \in Nat /\ w.device \in Peers
    BY <2>1, <2>4, <2>5, <2>6, <2>7
  <2>8. ASSUME w = Wish("pull", <<>>, Len(got[d]), d) \/ w = Wish("delete", <<>>, 0, d)
        PROVE  w.op \in WorkOf /\ w.batch \in Seq(Records) /\ w.after \in Nat /\ w.device \in Peers
    BY <2>2, <2>4, <2>5, <2>6, <2>8
  <2>9. ASSUME NEW op \in {"enroll", "revoke"}, NEW e \in Peers, w = Wish(op, <<>>, 0, e)
        PROVE  w.op \in WorkOf /\ w.batch \in Seq(Records) /\ w.after \in Nat /\ w.device \in Peers
    BY <2>4, <2>5, <2>6, <2>9
  <2> QED
    BY <2>3, <2>7, <2>8, <2>9
<1>5. new \in Request
  BY <1>2, <1>3, <1>4, RelayAssumption DEF Request, RelayInv, RelayTypes
<1> HIDE DEF new, n
<1>6. RelayTypes'
  BY <1>2, <1>5 DEF RelayInv, RelayTypes, relayDataVars
<1>7. RowsOK' /\ GotOK'
  <2>1. Active' = Active
    BY <1>2 DEF Active, relayDataVars
  <2> QED
    BY <1>2, <2>1 DEF RelayInv, RowsOK, GotOK, Follows, relayDataVars
<1>8. new.nonce = n + 1 /\ new \notin signed
  BY <1>3 DEF new, n, RelayInv, NoncesOK
<1>9. IsFiniteSet(signed') /\ Cardinality(signed') = n + 1
  BY <1>2, <1>3, <1>8, FS_AddElement DEF n
<1>10. \A r \in signed : r.nonce \in Nat /\ r.nonce <= n
  BY DEF RelayInv, RelayTypes, NoncesOK, Request, n
<1>11. done[new.nonce] = 0
  <2>1. new.nonce \in 1..MaxRequests
    BY <1>5 DEF Request
  <2>2. \A r \in signed : r.nonce # new.nonce
    BY <1>3, <1>8, <1>10
  <2> QED
    <3> DEFINE m == new.nonce
    <3>1. done[m] \in Nat /\ (done[m] > 0 => \E r \in signed : r.nonce = m)
      BY <2>1 DEF RelayInv, RelayTypes, NoncesOK
    <3> QED
      BY <2>2, <3>1
<1>12. NoncesOK'
  <2>1. \A r \in signed' : r.nonce <= Cardinality(signed')
    BY <1>2, <1>3, <1>8, <1>9, <1>10
  <2>2. \A r, s \in signed' : r.nonce = s.nonce => r = s
    BY <1>2, <1>3, <1>8, <1>10 DEF RelayInv, NoncesOK
  <2> QED
    BY <1>2, <1>9, <1>11, <2>1, <2>2 DEF RelayInv, NoncesOK, relayDataVars
<1>13. TxnsOK'
  <2>1. \A c \in Txns : TxnOK(txn[c], Found')
    <3>1. \A t : TxnOK(t, Found) => TxnOK(t, Found')
      BY <1>2 DEF TxnOK, Found, relayDataVars
    <3> QED
      BY <3>1 DEF RelayInv, TxnsOK
  <2> QED
    BY <1>2, <2>1 DEF RelayInv, TxnsOK
<1> QED
  BY <1>6, <1>7, <1>12, <1>13 DEF RelayInv

LEMMA AuthenticateOK ==
    ASSUME RelayInv, NEW c \in Txns, Authenticate(c) PROVE RelayInv'
<1>1. PICK r \in signed :
         /\ sync_devices[r.by] = "active"
         /\ InTime(r)
         /\ FreeFor(c, <<"nonce", r.nonce>>)
         /\ \A n \in Unexpired : n.nonce # r.nonce
         /\ txn' = [txn EXCEPT ![c].stage = r.op, ![c].request = r, ![c].held = Locks(r)]
  BY DEF Authenticate
<1>2. txn[c] = NoTxn /\ UNCHANGED <<relayDataVars, signed, got, done, now>>
  BY DEF Authenticate, RelayInv, TxnsOK, TxnOK
<1> DEFINE t == [NoTxn EXCEPT !.stage = r.op, !.request = r, !.held = Locks(r)]
<1>3. r \in Request /\ r.op \in WorkOf /\ r.nonce \in 1..MaxRequests /\ r.stamp \in Nat /\ now \in Nat
  BY DEF RelayInv, RelayTypes, Request
<1>4. txn' = [txn EXCEPT ![c] = t]
  BY <1>1, <1>2 DEF RelayInv, RelayTypes
<1>5. /\ t.stage = r.op /\ t.request = r /\ t.held = {<<"share", r.by>>, <<"nonce", r.nonce>>}
      /\ t.new = {} /\ t.next = 0 /\ t.left = {} /\ t.page = <<>>
  BY DEF NoTxn, Locks
<1>6. t \in Txn
  <2>1. Locks(r) \subseteq Lock
    BY <1>3 DEF Locks, Lock, Request
  <2> QED
    BY <1>3, <2>1, NoTxnType DEF Txn
<1> HIDE DEF t
<1>7. Working(t) /\ ~Numbering(t) /\ t.stage \notin {"locking", "revoking", "idle", "insert", "answer"}
  BY <1>3, <1>5 DEF Working, Numbering, WorkOf
<1>8. done[r.nonce] = 0
  <2> SUFFICES ASSUME done[r.nonce] > 0 PROVE FALSE
    BY <1>3 DEF RelayInv, RelayTypes
  <2>1. next_sequence > 0
    <3>1. r.by \in Active
      BY <1>1, <1>3 DEF Active, Request
    <3> QED
      BY <3>1 DEF RelayInv, RowsOK, RelayTypes
  <2>2. PICK k \in sync_nonces : k.nonce = r.nonce /\ k.expires >= r.stamp + 1
    BY <1>1, <1>3, <2>1 DEF RelayInv, NoncesOK, InTime
  <2>3. k \in Unexpired
    BY <1>1, <1>3, <2>2 DEF RelayInv, RelayTypes, Unexpired, InTime
  <2> QED
    BY <1>1, <2>2, <2>3
<1>9. TxnOK(t, Found)
  BY <1>1, <1>5, <1>7, <1>8, FS_EmptySet DEF TxnOK, Found, InTime
<1>10. ASSUME NEW o \in OtherTxns(c) PROVE Apart(txn[o], t)
  <2>1. ASSUME Working(txn[o]) PROVE txn[o].request.nonce # r.nonce
    <3>1. <<"nonce", txn[o].request.nonce>> \in txn[o].held
      BY <2>1 DEF RelayInv, TxnsOK, TxnOK, OtherTxns
    <3>2. <<"nonce", r.nonce>> \notin txn[o].held
      BY <1>1 DEF FreeFor
    <3> QED
      BY <3>1, <3>2
  <2> QED
    BY <1>5, <1>7, <2>1 DEF Apart
<1> QED
  BY <1>2, <1>4, <1>6, <1>9, <1>10, TxnAlone

(* What a transaction that works may do without a COMMIT. *)
LEMMA StillWorking ==
    ASSUME RelayInv, UNCHANGED <<relayDataVars, signed, got, done, now>>,
           NEW c \in Txns, Working(txn[c]), NEW t \in Txn, Working(t),
           txn' = [txn EXCEPT ![c] = t],
           t.request = txn[c].request, txn[c].held \subseteq t.held,
           t.stage = "insert" => t.next = next_sequence /\ next_sequence > 0,
           Numbering(t) =>
              <<"vault">> \in t.held /\ \A o \in OtherTxns(c) : ~Numbering(txn[o]),
           t.stage \notin {"locking", "revoking"} => t.new = {},
           IsFiniteSet(t.new),
           \A d \in t.new : sync_devices[d] = "active" /\ <<"update", d>> \in t.held,
           t.stage = "revoking" => Cardinality(t.new) > 1
    PROVE  RelayInv'
<1>1. /\ TxnOK(txn[c], Found)
      /\ \A o \in OtherTxns(c) : Apart(txn[o], txn[c])
  BY DEF RelayInv, TxnsOK, OtherTxns
<1>2. t.stage # "idle" /\ t.stage # "answer" /\ txn[c].stage # "idle"
  BY DEF Working
<1>3. /\ t.request \in Found.signed
      /\ Found.devices[t.request.by] = "active"
      /\ {<<"share", t.request.by>>, <<"nonce", t.request.nonce>>} \subseteq t.held
      /\ Found.done[t.request.nonce] = 0
      /\ t.request.stamp <= Found.now + 1 /\ Found.now <= t.request.stamp + 1
  BY <1>1, <1>2 DEF TxnOK
<1>4. Found.next = next_sequence /\ Found.devices = sync_devices
  BY DEF Found
<1>5. TxnOK(t, Found)
  BY <1>2, <1>3, <1>4 DEF TxnOK
<1>6. \A o \in OtherTxns(c) : Apart(txn[o], t)
  BY <1>1 DEF Apart
<1> QED
  BY <1>5, <1>6, TxnAlone

(* The row of the Vault is held by one transaction. *)
LEMMA VaultIsFree ==
    ASSUME RelayInv, NEW c \in Txns, FreeFor(c, <<"vault">>)
    PROVE  \A o \in OtherTxns(c) : ~Numbering(txn[o])
BY DEF RelayInv, TxnsOK, TxnOK, FreeFor, OtherTxns

LEMMA LockVaultOK ==
    ASSUME RelayInv, NEW c \in Txns, LockVault(c) PROVE RelayInv'
<1>1. CASE TxnRollsBack(c)
  BY <1>1, RollsBackOK
<1>2. CASE next_sequence > 0
  <2> DEFINE u == txn[c]
             t == [u EXCEPT !.stage = "insert", !.next = next_sequence,
                            !.held = @ \cup {<<"vault">>}]
  <2>1. /\ u.stage = "push" /\ FreeFor(c, <<"vault">>)
        /\ UNCHANGED <<relayDataVars, signed, got, done, now>>
        /\ txn' = [txn EXCEPT ![c].stage = "insert", ![c].next = next_sequence,
                              ![c].held = @ \cup {<<"vault">>}]
    BY <1>2 DEF LockVault
  <2>2. u \in Txn /\ TxnOK(u, Found) /\ next_sequence \in Nat /\ txn \in [Txns -> Txn]
    BY DEF RelayInv, RelayTypes, TxnsOK
  <2>3. txn' = [txn EXCEPT ![c] = t]
    BY <2>1, <2>2
  <2>4. /\ t.stage = "insert" /\ t.request = u.request /\ t.next = next_sequence
        /\ t.held = u.held \cup {<<"vault">>} /\ t.new = u.new /\ t \in Txn
    BY <2>2 DEF Txn, Lock
  <2>5. u.new = {}
    BY <2>1, <2>2 DEF TxnOK
  <2>6. Working(u)
    BY <2>1 DEF Working
  <2>7. \A o \in OtherTxns(c) : ~Numbering(txn[o])
    BY <2>1, VaultIsFree
  <2> HIDE DEF t, u
  <2>8. Working(t)
    BY <2>4 DEF Working
  <2>9. /\ t.new = {} /\ IsFiniteSet(t.new) /\ <<"vault">> \in t.held
        /\ txn[c].held \subseteq t.held /\ t.request = txn[c].request
        /\ t.stage \notin {"locking", "revoking"} /\ Working(txn[c])
    BY <2>4, <2>5, <2>6, FS_EmptySet DEF u
  <2> HIDE DEF t
  <2> QED
    BY <1>2, <2>1, <2>3, <2>4, <2>7, <2>8, <2>9, StillWorking
<1> QED
  BY <1>1, <1>2 DEF LockVault

LEMMA LockForDeleteOK ==
    ASSUME RelayInv, NEW c \in Txns, LockForDelete(c) PROVE RelayInv'
<1>1. CASE TxnRollsBack(c)
  BY <1>1, RollsBackOK
<1>2. CASE next_sequence > 0
  <2> DEFINE u == txn[c]
             t == [u EXCEPT !.stage = "cascade", !.held = @ \cup {<<"vault">>}]
  <2>1. /\ u.stage = "delete" /\ FreeFor(c, <<"vault">>)
        /\ UNCHANGED <<relayDataVars, signed, got, done, now>>
        /\ txn' = [txn EXCEPT ![c].stage = "cascade", ![c].held = @ \cup {<<"vault">>}]
    BY <1>2 DEF LockForDelete
  <2>2. u \in Txn /\ TxnOK(u, Found) /\ txn \in [Txns -> Txn]
    BY DEF RelayInv, RelayTypes, TxnsOK
  <2>3. txn' = [txn EXCEPT ![c] = t]
    BY <2>1, <2>2
  <2>4. /\ t.stage = "cascade" /\ t.request = u.request
        /\ t.held = u.held \cup {<<"vault">>} /\ t.new = u.new /\ t \in Txn
    BY <2>2 DEF Txn, Lock
  <2>5. u.new = {}
    BY <2>1, <2>2 DEF TxnOK
  <2>6. Working(u)
    BY <2>1 DEF Working
  <2>7. \A o \in OtherTxns(c) : ~Numbering(txn[o])
    BY <2>1, VaultIsFree
  <2> HIDE DEF t, u
  <2>8. Working(t)
    BY <2>4 DEF Working
  <2>9. /\ t.new = {} /\ IsFiniteSet(t.new) /\ <<"vault">> \in t.held
        /\ txn[c].held \subseteq t.held /\ t.request = txn[c].request
        /\ t.stage \notin {"locking", "revoking"} /\ Working(txn[c])
    BY <2>4, <2>5, <2>6, FS_EmptySet DEF u
  <2> HIDE DEF t
  <2> QED
    BY <1>2, <2>1, <2>3, <2>4, <2>7, <2>8, <2>9, StillWorking
<1> QED
  BY <1>1, <1>2 DEF LockForDelete

LEMMA SelectActiveOK ==
    ASSUME RelayInv, NEW c \in Txns, SelectActive(c) PROVE RelayInv'
<1> DEFINE u == txn[c]
           t == [u EXCEPT !.stage = "locking", !.left = Active]
<1>1. /\ u.stage = "revoke" /\ UNCHANGED <<relayDataVars, signed, got, done, now>>
      /\ txn' = [txn EXCEPT ![c].stage = "locking", ![c].left = Active]
  BY DEF SelectActive
<1>2. u \in Txn /\ TxnOK(u, Found) /\ txn \in [Txns -> Txn]
  BY DEF RelayInv, RelayTypes, TxnsOK
<1>3. txn' = [txn EXCEPT ![c] = t]
  BY <1>1, <1>2
<1>4. /\ t.stage = "locking" /\ t.request = u.request
      /\ t.held = u.held /\ t.new = u.new /\ t \in Txn
  BY <1>2 DEF Txn, Active
<1>5. u.new = {}
  BY <1>1, <1>2 DEF TxnOK
<1>6. Working(u)
  BY <1>1 DEF Working
<1> HIDE DEF t, u
<1>7. Working(t) /\ ~Numbering(t)
  BY <1>4 DEF Working, Numbering
<1> QED
  BY <1>1, <1>3, <1>4, <1>5, <1>6, <1>7, FS_EmptySet, StillWorking DEF u

LEMMA LockDevicesOK ==
    ASSUME RelayInv, NEW c \in Txns, LockDevices(c) PROVE RelayInv'
<1> DEFINE u == txn[c]
<1>1. u.stage = "locking"
  BY DEF LockDevices
<1>2. u \in Txn /\ TxnOK(u, Found) /\ txn \in [Txns -> Txn]
  BY DEF RelayInv, RelayTypes, TxnsOK
<1>3. Working(u)
  BY <1>1 DEF Working
<1>4. /\ IsFiniteSet(u.new)
      /\ \A d \in u.new : sync_devices[d] = "active" /\ <<"update", d>> \in u.held
  BY <1>2 DEF TxnOK, Found
<1>5. CASE TxnRollsBack(c)
  BY <1>5, RollsBackOK
<1>6. CASE /\ Cardinality(u.new) > 1
           /\ txn' = [txn EXCEPT ![c].stage = "revoking"]
           /\ UNCHANGED <<relayDataVars, signed, got, done, now>>
  <2> DEFINE t == [u EXCEPT !.stage = "revoking"]
  <2>1. txn' = [txn EXCEPT ![c] = t]
    BY <1>2, <1>6
  <2>2. /\ t.stage = "revoking" /\ t.request = u.request
        /\ t.held = u.held /\ t.new = u.new /\ t \in Txn
    BY <1>2 DEF Txn
  <2> HIDE DEF t, u
  <2>3. Working(t) /\ ~Numbering(t)
    BY <2>2 DEF Working, Numbering
  <2> QED
    BY <1>3, <1>4, <1>6, <2>1, <2>2, <2>3, StillWorking DEF u
<1>7. ASSUME NEW d \in Peers, LockDevice(c, d),
             UNCHANGED <<relayDataVars, signed, got, done, now>>
      PROVE  RelayInv'
  <2> DEFINE still == {d} \cap Active
             locks == {<<"update", e>> : e \in still}
             t == [u EXCEPT !.left = @ \ {d}, !.new = @ \cup still, !.held = @ \cup locks]
  <2>1. txn' = [txn EXCEPT ![c] = t]
    BY <1>2, <1>7 DEF LockDevice
  <2>2. locks \subseteq Lock
    BY DEF Lock
  <2>3. /\ t.stage = "locking" /\ t.request = u.request
        /\ t.held = u.held \cup locks /\ t.new = u.new \cup still /\ t \in Txn
    BY <1>1, <1>2, <2>2 DEF Txn
  <2>4. IsFiniteSet(u.new \cup still)
    <3>1. IsFiniteSet(still)
      <4>1. IsFiniteSet({d}) /\ still \in SUBSET {d}
        BY FS_Singleton
      <4> HIDE DEF still
      <4> QED
        BY <4>1, FS_Subset
    <3> HIDE DEF still
    <3> QED
      BY <1>4, <3>1, FS_Union
  <2>5. \A e \in still : sync_devices[e] = "active" /\ <<"update", e>> \in locks
    BY DEF Active
  <2> HIDE DEF t, u, still, locks
  <2>6. Working(t) /\ ~Numbering(t)
    BY <2>3 DEF Working, Numbering
  <2> QED
    BY <1>3, <1>4, <1>7, <2>1, <2>3, <2>4, <2>5, <2>6, StillWorking DEF u
<1> QED
  BY <1>5, <1>6, <1>7 DEF LockDevices

LEMMA TickOK == ASSUME RelayInv, Tick PROVE RelayInv'
<1>1. /\ UNCHANGED <<relayDataVars, signed, txn, got, done>>
      /\ now' = now + 1 /\ now \in Nat /\ now < MaxTime
      /\ \A c \in Txns : txn[c].stage = "idle"
  BY DEF Tick, RelayInv, RelayTypes
<1> USE DEF relayDataVars
<1>2. RelayTypes'
  BY <1>1, RelayAssumption DEF RelayInv, RelayTypes
<1>3. RowsOK' /\ GotOK'
  <2>1. Active' = Active
    BY <1>1 DEF Active
  <2> QED
    BY <1>1, <2>1 DEF RelayInv, RowsOK, GotOK, Follows
<1>4. NoncesOK'
  <2>1. ASSUME NEW r \in signed, now > r.stamp + 1 PROVE now + 1 > r.stamp + 1
    BY <1>1, <2>1 DEF RelayInv, RelayTypes, Request
  <2> QED
    BY <1>1, <2>1 DEF RelayInv, NoncesOK
<1>5. \A c \in Txns : txn[c] = NoTxn
  BY <1>1 DEF RelayInv, TxnsOK, TxnOK
<1>6. TxnsOK'
  BY <1>1, <1>5, IdleOK, IdleApart DEF TxnsOK
<1> QED
  BY <1>2, <1>3, <1>4, <1>6 DEF RelayInv

-----------------------------------------------------------------------------
(* The steps that COMMIT                                                   *)

(* Carrying out a request once, and keeping its nonce long enough. *)
LEMMA NoncesCommit ==
    ASSUME RelayInv, NEW c \in Txns, Working(txn[c]),
           done' = [done EXCEPT ![txn[c].request.nonce] = @ + 1],
           UNCHANGED <<signed, now>>,
           next_sequence' > 0 =>
              next_sequence > 0 /\ sync_nonces' = Unexpired \cup Kept(c)
    PROVE  /\ NoncesOK' /\ done' \in [1..MaxRequests -> Nat]
           /\ \A o \in OtherTxns(c) : Working(txn[o]) => done'[txn[o].request.nonce] = 0
<1> DEFINE r == txn[c].request
           m == r.nonce
<1>1. /\ r \in signed /\ done[m] = 0 /\ r.stamp <= now + 1
      /\ \A o \in OtherTxns(c) : Working(txn[o]) =>
            done[txn[o].request.nonce] = 0 /\ txn[o].request.nonce # m
      /\ \A o \in OtherTxns(c) : Working(txn[o]) => txn[o].request \in signed
  BY DEF RelayInv, TxnsOK, TxnOK, Found, OtherTxns, Apart, Working
<1>2. /\ signed \subseteq Request /\ now \in Nat
      /\ done \in [1..MaxRequests -> Nat] /\ sync_nonces \subseteq [nonce: Nat, expires: Nat]
      /\ NoncesOK
  BY DEF RelayInv, RelayTypes
<1>3. m \in 1..MaxRequests /\ \A s \in signed : s.nonce \in 1..MaxRequests /\ s.stamp \in Nat
  BY <1>1, <1>2 DEF Request
<1>4. /\ done' \in [1..MaxRequests -> Nat]
      /\ done'[m] = 1
      /\ \A n \in (1..MaxRequests) \ {m} : done'[n] = done[n]
  <2> HIDE DEF m
  <2> QED
    BY <1>1, <1>2, <1>3 DEF m
<1>5. ASSUME NEW s \in signed, done'[s.nonce] > 0, next_sequence' > 0
      PROVE  \/ now > s.stamp + 1
             \/ \E k \in sync_nonces' : k.nonce = s.nonce /\ k.expires >= s.stamp + 1
  <2>1. CASE s.nonce = m
    <3> DEFINE k == [nonce |-> m, expires |-> now + 2]
    <3>1. s = r
      BY <1>1, <1>2, <2>1 DEF NoncesOK
    <3>2. k \in sync_nonces' /\ k.nonce = s.nonce
      BY <1>5, <2>1 DEF Kept
    <3>3. k.expires >= s.stamp + 1
      BY <1>1, <1>2, <1>3, <3>1
    <3> QED
      BY <3>2, <3>3
  <2>2. CASE s.nonce # m /\ ~(now > s.stamp + 1)
    <3>1. PICK k \in sync_nonces : k.nonce = s.nonce /\ k.expires >= s.stamp + 1
      BY <1>2, <1>3, <1>4, <1>5, <2>2 DEF NoncesOK
    <3>2. k.expires >= now
      BY <1>2, <1>3, <2>2, <3>1
    <3>3. k \in sync_nonces'
      BY <1>5, <3>1, <3>2 DEF Unexpired
    <3> QED
      BY <3>1, <3>3
  <2> QED
    BY <2>1, <2>2
<1>6. NoncesOK'
  <2>1. \A n \in 1..MaxRequests :
           done'[n] <= 1 /\ (done'[n] > 0 => \E s \in signed : s.nonce = n)
    BY <1>1, <1>2, <1>4 DEF NoncesOK
  <2> QED
    BY <1>2, <1>5, <2>1 DEF NoncesOK
<1> QED
  BY <1>1, <1>3, <1>4, <1>6

LEMMA NonceTypes ==
    ASSUME RelayInv, NEW c \in Txns, Working(txn[c])
    PROVE  Unexpired \cup Kept(c) \subseteq [nonce: Nat, expires: Nat]
<1>1. txn[c].request.nonce \in Nat /\ now \in Nat
  <2>1. txn[c].request \in signed
    BY DEF RelayInv, TxnsOK, TxnOK, Found, Working
  <2> QED
    BY <2>1 DEF RelayInv, RelayTypes, Request
<1> QED
  BY <1>1 DEF Unexpired, Kept, RelayInv, RelayTypes

(* What a step leaves to the other transactions. *)
LEMMA TxnsMove ==
    ASSUME RelayInv, NEW c \in Txns, NEW t, txn' = [txn EXCEPT ![c] = t],
           UNCHANGED <<signed, now>>,
           t = NoTxn \/ (t.stage = "answer" /\ TxnOK(t, Found')),
           \A o \in OtherTxns(c) : Working(txn[o]) => done'[txn[o].request.nonce] = 0,
           \A o \in OtherTxns(c), d \in Peers :
              {<<"share", d>>, <<"update", d>>} \cap txn[o].held # {} /\ sync_devices[d] = "active"
              => sync_devices'[d] = "active",
           next_sequence' = next_sequence \/ \A o \in OtherTxns(c) : ~Numbering(txn[o]),
           next_sequence' > 0 => next_sequence > 0 /\ sync_records \subseteq sync_records'
    PROVE  TxnsOK'
<1>1. /\ txn \in [Txns -> Txn]
      /\ txn'[c] = t
      /\ \A o \in OtherTxns(c) : txn'[o] = txn[o]
      /\ \A o \in Txns : o = c \/ o \in OtherTxns(c)
  BY DEF RelayInv, RelayTypes, OtherTxns
<1>2. ASSUME NEW o \in OtherTxns(c) PROVE TxnOK(txn[o], Found')
  <2> DEFINE u == txn[o]
  <2>1. o \in Txns /\ u \in Txn
    BY <1>1 DEF OtherTxns
  <2>2. TxnOK(u, Found)
    BY <2>1 DEF RelayInv, TxnsOK
  <2>3. /\ Found'.signed = signed /\ Found'.devices = sync_devices' /\ Found'.done = done'
        /\ Found'.now = now /\ Found'.next = next_sequence' /\ Found'.rows = sync_records'
        /\ Found.signed = signed /\ Found.devices = sync_devices /\ Found.done = done
        /\ Found.now = now /\ Found.next = next_sequence /\ Found.rows = sync_records
    BY DEF Found
  <2>4. Working(u) => u.request.by \in Peers
    <3>1. Working(u) => u.request \in signed
      BY <2>2, <2>3 DEF TxnOK, Working
    <3> QED
      BY <3>1 DEF RelayInv, RelayTypes, Request
  <2>5. u.new \subseteq Peers
    BY <2>1 DEF Txn
  <2>6. /\ Working(u) => done'[u.request.nonce] = 0
        /\ \A d \in Peers :
              {<<"share", d>>, <<"update", d>>} \cap u.held # {} /\ sync_devices[d] = "active"
              => sync_devices'[d] = "active"
        /\ Numbering(u) => next_sequence' = next_sequence
    BY <1>2
  <2>7. u.stage = "insert" => Numbering(u)
    BY DEF Numbering
  <2> HIDE DEF u
  <2>8. Working(u) => /\ Found'.devices[u.request.by] = "active"
                      /\ {<<"share", u.request.by>>, <<"nonce", u.request.nonce>>} \subseteq u.held
                      /\ Found'.done[u.request.nonce] = 0
                      /\ u.request.stamp <= Found'.now + 1 /\ Found'.now <= u.request.stamp + 1
    BY <2>2, <2>3, <2>4, <2>6 DEF TxnOK
  <2>9. \A d \in u.new : Found'.devices[d] = "active" /\ <<"update", d>> \in u.held
    BY <2>2, <2>3, <2>5, <2>6 DEF TxnOK
  <2>10. u.stage = "insert" => u.next = Found'.next /\ Found'.next > 0
    BY <2>2, <2>3, <2>6, <2>7 DEF TxnOK
  <2>11. u.stage = "answer" /\ Found'.next > 0 =>
            \A i \in 1..Len(u.page) :
              u.page[i] \in Found'.rows /\ u.page[i].sequence = u.request.after + i
    BY <2>2, <2>3 DEF TxnOK
  <2>12. TxnOK(u, Found')
    BY <2>2, <2>3, <2>8, <2>9, <2>10, <2>11 DEF TxnOK
  <2> QED
    BY <2>12 DEF u
<1>3. TxnOK(t, Found')
  BY IdleOK
<1>4. ~Working(t) /\ ~Numbering(t)
  BY DEF Working, Numbering, NoTxn
<1>5. ASSUME NEW o \in Txns, NEW p \in Txns, o # p PROVE Apart(txn'[o], txn'[p])
  <2>1. CASE o = c \/ p = c
    BY <1>1, <1>4, <2>1 DEF Apart
  <2>2. CASE o # c /\ p # c
    BY <1>1, <1>5, <2>2 DEF RelayInv, TxnsOK
  <2> QED
    BY <2>1, <2>2
<1> QED
  BY <1>1, <1>2, <1>3, <1>5 DEF TxnsOK

(* The request of a transaction that works, and the Vault it works on. *)
LEMMA VaultLives ==
    ASSUME RelayInv, NEW c \in Txns, Working(txn[c])
    PROVE  /\ next_sequence \in Nat /\ next_sequence > 0
           /\ txn[c].request \in signed /\ txn[c].request \in Request
           /\ txn[c].request.by \in Active
<1>1. /\ txn[c].request \in signed /\ sync_devices[txn[c].request.by] = "active"
      /\ signed \subseteq Request /\ next_sequence \in Nat /\ RowsOK
  BY DEF RelayInv, RelayTypes, TxnsOK, TxnOK, Found, Working
<1>2. txn[c].request.by \in Active
  BY <1>1 DEF Request, Active
<1>3. next_sequence > 0
  BY <1>1, <1>2 DEF RowsOK
<1> QED
  BY <1>1, <1>2, <1>3

(* A COMMIT that leaves the Vault in place. *)
LEMMA CommitOK ==
    ASSUME RelayInv, NEW c \in Txns, Working(txn[c]), Commits(c),
           NEW t \in Txn, txn' = [txn EXCEPT ![c] = t],
           t = NoTxn \/ (t.stage = "answer" /\ TxnOK(t, Found')),
           sync_devices' \in [Peers -> {"unknown", "active", "revoked"}],
           \A o \in OtherTxns(c), d \in Peers :
              {<<"share", d>>, <<"update", d>>} \cap txn[o].held # {} /\ sync_devices[d] = "active"
              => sync_devices'[d] = "active",
           next_sequence' \in Nat, next_sequence' > 0,
           next_sequence' = next_sequence \/ \A o \in OtherTxns(c) : ~Numbering(txn[o]),
           sync_records \subseteq sync_records', sync_records' \subseteq Row,
           RowsOK', got' = got
    PROVE  RelayInv'
<1>1. next_sequence > 0
  BY VaultLives
<1>2. /\ done' = [done EXCEPT ![txn[c].request.nonce] = @ + 1]
      /\ sync_nonces' = Unexpired \cup Kept(c)
      /\ UNCHANGED <<signed, now>>
  BY DEF Commits
<1>3. /\ NoncesOK' /\ done' \in [1..MaxRequests -> Nat]
      /\ \A o \in OtherTxns(c) : Working(txn[o]) => done'[txn[o].request.nonce] = 0
  BY <1>1, <1>2, NoncesCommit
<1>4. TxnsOK'
  BY <1>1, <1>2, <1>3, TxnsMove
<1>5. sync_nonces' \subseteq [nonce: Nat, expires: Nat]
  BY <1>2, NonceTypes
<1>6. txn' \in [Txns -> Txn]
  BY DEF RelayInv, RelayTypes
<1>7. RelayTypes'
  BY <1>2, <1>3, <1>5, <1>6 DEF RelayInv, RelayTypes
<1>8. GotOK'
  BY <1>1 DEF RelayInv, GotOK, Follows
<1> QED
  BY <1>3, <1>4, <1>7, <1>8 DEF RelayInv

LEMMA PageOK ==
    ASSUME RelayInv, next_sequence > 0, NEW a \in Nat
    PROVE  /\ PageAfter(a) \in Seq(Row)
           /\ \A i \in 1..Len(PageAfter(a)) :
                 PageAfter(a)[i] \in sync_records /\ PageAfter(a)[i].sequence = a + i
<1> DEFINE rows == Later(a)
           n == IF a < next_sequence THEN next_sequence - 1 - a ELSE 0
           k == IF Cardinality(rows) < PageSize THEN Cardinality(rows) ELSE PageSize
<1>1. /\ next_sequence \in Nat /\ Numbered(sync_records, 0, next_sequence - 1)
      /\ sync_records \subseteq Row
  BY DEF RelayInv, RelayTypes, RowsOK
<1>2. n \in Nat
  BY <1>1
<1>3. Numbered(rows, a, n)
  <2>1. \A r \in rows : r \in sync_records /\ r.sequence \in 1..(next_sequence - 1) /\ r.sequence > a
    BY <1>1 DEF Later, Numbered
  <2>2. \A r \in rows : r.sequence \in (a + 1)..(a + n)
    BY <1>1, <2>1
  <2>3. \A r, s \in rows : r.sequence = s.sequence => r = s
    BY <1>1, <2>1 DEF Numbered
  <2>4. ASSUME NEW m \in (a + 1)..(a + n) PROVE \E r \in rows : r.sequence = m
    <3>1. m \in 1..(0 + (next_sequence - 1)) /\ m > a
      BY <1>1
    <3>2. PICK r \in sync_records : r.sequence = m
      BY <1>1, <3>1 DEF Numbered
    <3> QED
      BY <3>1, <3>2 DEF Later
  <2> HIDE DEF rows, n
  <2> QED
    BY <2>2, <2>3, <2>4 DEF Numbered
<1> HIDE DEF n
<1>4. /\ Cardinality(rows) = n /\ Sorted(rows) \in Seq(rows) /\ Len(Sorted(rows)) = n
      /\ \A i \in 1..n : Sorted(rows)[i] \in rows /\ Sorted(rows)[i].sequence = a + i
  <2> HIDE DEF rows
  <2> QED
    BY ONLY <1>2, <1>3, SortedRows, a \in Nat
<1>5. k \in 0..n
  BY <1>2, <1>4, RelayAssumption
<1>6. rows \subseteq sync_records
  BY DEF Later
<1>7. PageAfter(a) = SubSeq(Sorted(rows), 1, k)
  BY DEF PageAfter
<1> HIDE DEF rows, k
<1>8. /\ SubSeq(Sorted(rows), 1, k) \in Seq(rows) /\ Len(SubSeq(Sorted(rows), 1, k)) = k
      /\ \A i \in 1..k : SubSeq(Sorted(rows), 1, k)[i] = Sorted(rows)[i]
  BY <1>2, <1>4, <1>5
<1>9. SubSeq(Sorted(rows), 1, k) \in Seq(Row)
  BY <1>1, <1>6, <1>8
<1> QED
  BY <1>2, <1>4, <1>5, <1>6, <1>7, <1>8, <1>9

LEMMA SelectPageOK ==
    ASSUME RelayInv, NEW c \in Txns, SelectPage(c) PROVE RelayInv'
<1> DEFINE u == txn[c]
           p == PageAfter(u.request.after)
           t == [u EXCEPT !.stage = "answer", !.held = {}, !.page = p]
<1>1. /\ u.stage = "pull" /\ Commits(c)
      /\ UNCHANGED <<next_sequence, sync_devices, sync_records, got>>
      /\ txn' = [txn EXCEPT ![c].stage = "answer", ![c].held = {}, ![c].page = p]
  BY DEF SelectPage
<1>2. u \in Txn /\ TxnOK(u, Found) /\ txn \in [Txns -> Txn]
  BY DEF RelayInv, RelayTypes, TxnsOK
<1>3. Working(u)
  BY <1>1 DEF Working
<1>4. next_sequence \in Nat /\ next_sequence > 0 /\ u.request \in signed /\ u.request \in Request
  BY <1>3, VaultLives
<1>5. u.request.after \in Nat
  BY <1>4 DEF Request
<1>6. /\ p \in Seq(Row)
      /\ \A i \in 1..Len(p) : p[i] \in sync_records /\ p[i].sequence = u.request.after + i
  BY <1>4, <1>5, PageOK
<1> HIDE DEF p
<1>7. txn' = [txn EXCEPT ![c] = t]
  BY <1>1, <1>2
<1>8. /\ t.stage = "answer" /\ t.request = u.request /\ t.page = p /\ t.new = u.new
      /\ t \in Txn
  BY <1>2, <1>6 DEF Txn
<1>9. u.new = {} /\ u.request \in signed
  BY <1>1, <1>2, <1>4 DEF TxnOK
<1> HIDE DEF t, u
<1>10. TxnOK(t, Found')
  <2>1. Found'.signed = signed /\ Found'.rows = sync_records
    BY <1>1 DEF Found, Commits
  <2>2. ~Working(t) /\ ~Numbering(t)
    BY <1>8 DEF Working, Numbering
  <2> QED
    BY <1>6, <1>8, <1>9, <2>1, <2>2, FS_EmptySet DEF TxnOK
<1>11. RowsOK'
  <2>1. Active' = Active
    BY <1>1 DEF Active
  <2> QED
    BY <1>1, <2>1 DEF RelayInv, RowsOK
<1>12. sync_devices \in [Peers -> {"unknown", "active", "revoked"}] /\ sync_records \subseteq Row
  BY DEF RelayInv, RelayTypes
<1> QED
  BY <1>1, <1>3, <1>4, <1>7, <1>8, <1>10, <1>11, <1>12, CommitOK DEF u

(* The rows of a batch continue the log, and hold what it does not. *)
LEMMA RowsOfOK ==
    ASSUME RelayInv, next_sequence > 0, NEW batch \in Seq(Records)
    PROVE  LET n == Cardinality(Fresh(batch))
               rows == sync_records \cup RowsOf(next_sequence, batch)
           IN  /\ n \in Nat /\ rows \subseteq Row
               /\ Numbered(rows, 0, next_sequence + n - 1)
               /\ \A r, s \in rows : r.record = s.record => r = s
<1> DEFINE F == Fresh(batch)
           n == Cardinality(F)
           first == next_sequence
           at(i) == [sequence |-> first + Rank(F, i), record |-> batch[i]]
           new == RowsOf(first, batch)
           rows == sync_records \cup new
<1>1. /\ first \in Nat /\ Numbered(sync_records, 0, first - 1) /\ first > 0
      /\ sync_records \subseteq Row
      /\ \A r, s \in sync_records : r.record = s.record => r = s
  BY DEF RelayInv, RelayTypes, RowsOK
<1>2. F \in SUBSET (1..Len(batch)) /\ Len(batch) \in Nat
  BY DEF Fresh
<1>3. /\ n \in Nat
      /\ \A i \in F : Rank(F, i) \in 0..(n - 1)
      /\ \A i, j \in F : Rank(F, i) = Rank(F, j) => i = j
      /\ \A m \in 0..(n - 1) : \E i \in F : Rank(F, i) = m
  <2> HIDE DEF F
  <2> QED
    BY <1>2, Ranks
<1>4. new = {at(i) : i \in F}
  BY DEF RowsOf, Rank
<1>5. ASSUME NEW i \in F PROVE batch[i] \notin StoredRecords /\ batch[i] \in Records
  BY <1>2 DEF Fresh
<1>6. ASSUME NEW i \in F, NEW j \in F, batch[i] = batch[j] PROVE i = j
  <2>1. ASSUME NEW k \in F, NEW l \in F, k < l PROVE batch[k] # batch[l]
    <3>1. k \in 1..(l - 1)
      BY <1>2, <2>1
    <3> QED
      BY <3>1 DEF Fresh
  <2>2. i \in Nat /\ j \in Nat
    BY <1>2
  <2> HIDE DEF F
  <2> QED
    BY <1>6, <2>1, <2>2
<1> HIDE DEF F, n, first, new
<1>7. ASSUME NEW i \in F
      PROVE  /\ at(i).record = batch[i] /\ at(i).sequence = first + Rank(F, i)
             /\ at(i).sequence \in Nat /\ at(i) \in Row
             /\ at(i).sequence >= first /\ at(i).sequence <= first + n - 1
  <2>1. first + Rank(F, i) \in Nat /\ first + Rank(F, i) >= first /\ first + Rank(F, i) <= first + n - 1
    BY <1>1, <1>3
  <2> QED
    BY <1>5, <2>1 DEF Row
<1>8. rows \subseteq Row
  <2> SUFFICES ASSUME NEW r \in new PROVE r \in Row
    BY <1>1
  <2>1. PICK i \in F : r = at(i)
    BY <1>4
  <2> QED
    BY <1>7, <2>1
<1>9. ASSUME NEW r \in sync_records
      PROVE  r.sequence \in Nat /\ r.sequence >= 1 /\ r.sequence < first /\ r.record \in StoredRecords
  <2>1. r.sequence \in (0 + 1)..(0 + (first - 1))
    BY <1>1 DEF Numbered
  <2> QED
    BY <1>1, <2>1 DEF StoredRecords
<1>10. ASSUME NEW r \in rows, NEW s \in rows, r.record = s.record \/ r.sequence = s.sequence
       PROVE  r = s
  <2>1. CASE r \in sync_records /\ s \in sync_records
    BY <1>1, <1>10, <2>1 DEF Numbered
  <2>2. ASSUME NEW x \in sync_records, NEW y \in new
        PROVE  x.record # y.record /\ x.sequence # y.sequence
    <3>1. PICK i \in F : y = at(i)
      BY <1>4
    <3>2. y.record \notin StoredRecords /\ y.sequence \in Nat /\ y.sequence >= first
      BY <1>5, <1>7, <3>1
    <3> HIDE DEF at
    <3> QED
      BY <1>1, <1>9, <3>2
  <2>3. CASE r \in new /\ s \in new
    <3>1. PICK i \in F : r = at(i)
      BY <1>4, <2>3
    <3>2. PICK j \in F : s = at(j)
      BY <1>4, <2>3
    <3>3. /\ r.record = batch[i] /\ r.sequence = first + Rank(F, i)
          /\ s.record = batch[j] /\ s.sequence = first + Rank(F, j)
      BY <1>7, <3>1, <3>2
    <3>4. Rank(F, i) \in Nat /\ Rank(F, j) \in Nat
      BY <1>3
    <3>5. i = j
      BY <1>1, <1>3, <1>6, <1>10, <3>3, <3>4
    <3> QED
      BY <3>1, <3>2, <3>5
  <2> QED
    BY <1>10, <2>1, <2>2, <2>3
<1>11. ASSUME NEW r \in rows PROVE r.sequence \in Nat /\ r.sequence >= 1 /\ r.sequence <= first + n - 1
  <2>1. CASE r \in sync_records
    BY <1>1, <1>3, <1>9, <2>1
  <2>2. CASE r \in new
    <3>1. PICK i \in F : r = at(i)
      BY <1>4, <2>2
    <3>2. r.sequence \in Nat /\ r.sequence >= first /\ r.sequence <= first + n - 1
      BY <1>7, <3>1
    <3> QED
      BY <1>1, <3>2
  <2> QED
    BY <2>1, <2>2
<1>12. ASSUME NEW m \in Nat, m >= 1, m <= first + n - 1 PROVE \E r \in rows : r.sequence = m
  <2>1. CASE m < first
    <3>1. m \in (0 + 1)..(0 + (first - 1))
      BY <1>1, <1>12, <2>1
    <3> QED
      BY <1>1, <3>1 DEF Numbered
  <2>2. CASE m >= first
    <3>1. m - first \in 0..(n - 1)
      BY <1>1, <1>3, <1>12, <2>2
    <3>2. PICK i \in F : Rank(F, i) = m - first
      BY <1>3, <3>1
    <3>3. at(i).sequence = first + Rank(F, i)
      BY <1>7
    <3>4. at(i).sequence = m
      <4> HIDE DEF at
      <4> QED
        BY <1>1, <3>2, <3>3
    <3> QED
      BY <1>4, <3>4
  <2> QED
    BY <1>1, <2>1, <2>2
<1>13. Numbered(rows, 0, first + n - 1)
  <2>1. first + n - 1 \in Nat
    BY <1>1, <1>3
  <2> HIDE DEF rows
  <2>2. \A r \in rows : r.sequence \in (0 + 1)..(0 + (first + n - 1))
    BY <1>11, <2>1
  <2>3. \A m \in (0 + 1)..(0 + (first + n - 1)) : \E r \in rows : r.sequence = m
    BY <1>12, <2>1
  <2> QED
    BY <1>10, <2>2, <2>3 DEF Numbered
<1> QED
  BY <1>3, <1>8, <1>10, <1>13 DEF F, n, first, new

LEMMA StoreRecordsOK ==
    ASSUME RelayInv, NEW c \in Txns, StoreRecords(c) PROVE RelayInv'
<1> DEFINE u == txn[c]
           batch == u.request.batch
           n == Cardinality(Fresh(batch))
           rows == sync_records \cup RowsOf(next_sequence, batch)
<1>1. u.stage = "insert" /\ Commits(c) /\ TxnEnds(c) /\ UNCHANGED <<sync_devices, got>>
  BY DEF StoreRecords
<1>2. TxnOK(u, Found) /\ \A o \in OtherTxns(c) : Apart(u, txn[o])
  BY DEF RelayInv, TxnsOK, OtherTxns
<1>3. Working(u) /\ Numbering(u)
  BY <1>1 DEF Working, Numbering
<1>4. u.next = next_sequence
  BY <1>1, <1>2 DEF TxnOK, Found
<1>5. next_sequence \in Nat /\ next_sequence > 0 /\ batch \in Seq(Records)
  BY <1>3, VaultLives DEF Request
<1>6. next_sequence' = next_sequence + n /\ sync_records' = rows
  BY <1>4 DEF StoreRecords
<1>7. /\ n \in Nat /\ rows \subseteq Row
      /\ Numbered(rows, 0, next_sequence + n - 1)
      /\ \A r, s \in rows : r.record = s.record => r = s
  <2> HIDE DEF batch
  <2> QED
    BY <1>5, RowsOfOK
<1>8. sync_records \subseteq rows
  OBVIOUS
<1> HIDE DEF rows, n
<1>9. next_sequence' \in Nat /\ next_sequence' > 0
  BY <1>5, <1>6, <1>7
<1>10. RowsOK'
  <2>1. Active' = Active
    BY <1>1 DEF Active
  <2>2. Active # {}
    BY <1>5 DEF RelayInv, RowsOK
  <2>3. Numbered(rows, 0, next_sequence' - 1)
    BY <1>5, <1>6, <1>7
  <2> QED
    BY <1>6, <1>7, <1>9, <2>1, <2>2, <2>3 DEF RowsOK
<1>11. \A o \in OtherTxns(c) : ~Numbering(txn[o])
  BY <1>2, <1>3 DEF Apart
<1>12. sync_devices \in [Peers -> {"unknown", "active", "revoked"}]
  BY DEF RelayInv, RelayTypes
<1>13. txn' = [txn EXCEPT ![c] = NoTxn] /\ got' = got /\ sync_devices' = sync_devices
  BY <1>1 DEF TxnEnds
<1>14. sync_records \subseteq sync_records' /\ sync_records' \subseteq Row
  BY <1>6, <1>7, <1>8
<1> QED
  BY <1>1, <1>3, <1>9, <1>10, <1>11, <1>12, <1>13, <1>14, NoTxnType, CommitOK

LEMMA EnrollDeviceOK ==
    ASSUME RelayInv, NEW c \in Txns, EnrollDevice(c) PROVE RelayInv'
<1> DEFINE d == txn[c].request.device
<1>1. /\ txn[c].stage = "enroll" /\ Commits(c) /\ TxnEnds(c)
      /\ UNCHANGED <<next_sequence, sync_records, got>>
      /\ sync_devices' = [sync_devices EXCEPT ![d] = IF @ = "revoked" THEN @ ELSE "active"]
  BY DEF EnrollDevice
<1>2. Working(txn[c])
  BY <1>1 DEF Working
<1>3. next_sequence \in Nat /\ next_sequence > 0 /\ d \in Peers
  BY <1>2, VaultLives DEF Request
<1> HIDE DEF d
<1>4. /\ sync_devices \in [Peers -> {"unknown", "active", "revoked"}] /\ sync_records \subseteq Row
      /\ RowsOK
  BY DEF RelayInv, RelayTypes
<1>5. /\ sync_devices' \in [Peers -> {"unknown", "active", "revoked"}]
      /\ \A e \in Peers : sync_devices[e] = "active" => sync_devices'[e] = "active"
  BY <1>1, <1>3, <1>4
<1>6. RowsOK'
  <2>1. Active' # {}
    BY <1>3, <1>4, <1>5 DEF RowsOK, Active
  <2> QED
    BY <1>1, <1>3, <1>4, <2>1 DEF RowsOK
<1>7. txn' = [txn EXCEPT ![c] = NoTxn]
  BY <1>1 DEF TxnEnds
<1> QED
  BY <1>1, <1>2, <1>3, <1>4, <1>5, <1>6, <1>7, NoTxnType, CommitOK

(* Another device remains: the one who revokes has locked more than one. *)
LEMMA OthersRemain ==
    ASSUME RelayInv, NEW c \in Txns, txn[c].stage = "revoking"
    PROVE  \A d : Active \ {d} # {}
<1> SUFFICES ASSUME NEW d, Active \subseteq {d} PROVE FALSE
  OBVIOUS
<1>1. txn[c] \in Txn /\ TxnOK(txn[c], Found)
  BY DEF RelayInv, RelayTypes, TxnsOK
<1>2. /\ Cardinality(txn[c].new) > 1 /\ IsFiniteSet(txn[c].new)
      /\ \A e \in txn[c].new : sync_devices[e] = "active"
  BY <1>1 DEF TxnOK, Found
<1>3. txn[c].new \subseteq {d}
  BY <1>1, <1>2 DEF Txn, Active
<1>4. IsFiniteSet({d}) /\ Cardinality({d}) = 1
  BY FS_Singleton
<1>5. Cardinality(txn[c].new) <= 1 /\ Cardinality(txn[c].new) \in Nat
  BY <1>2, <1>3, <1>4, FS_Subset, FS_CardinalityType
<1> QED
  BY <1>2, <1>5

LEMMA RevokeDeviceOK ==
    ASSUME RelayInv, NEW c \in Txns, RevokeDevice(c) PROVE RelayInv'
<1> DEFINE d == txn[c].request.device
<1>1. txn[c].stage = "revoking" /\ Lockable(c, d)
  BY DEF RevokeDevice
<1>2. CASE TxnRollsBack(c)
  BY <1>2, RollsBackOK
<1>3. CASE /\ sync_devices' = [sync_devices EXCEPT ![d] = "revoked"]
           /\ Commits(c) /\ TxnEnds(c)
           /\ UNCHANGED <<next_sequence, sync_records, got>>
  <2>1. Working(txn[c])
    BY <1>1 DEF Working
  <2>2. next_sequence \in Nat /\ next_sequence > 0 /\ d \in Peers
    BY <2>1, VaultLives DEF Request
  <2>3. PICK e : e \in Active \ {d}
    BY <1>1, OthersRemain
  <2>4. \A o \in OtherTxns(c) :
           <<"share", d>> \notin txn[o].held /\ <<"update", d>> \notin txn[o].held
    BY <1>1 DEF Lockable, FreeFor
  <2> HIDE DEF d
  <2>5. /\ sync_devices \in [Peers -> {"unknown", "active", "revoked"}] /\ sync_records \subseteq Row
        /\ RowsOK
    BY DEF RelayInv, RelayTypes
  <2>6. /\ sync_devices' \in [Peers -> {"unknown", "active", "revoked"}]
        /\ \A f \in Peers : f # d => sync_devices'[f] = sync_devices[f]
    BY <1>3, <2>2, <2>5
  <2>7. RowsOK'
    <3>1. Active' # {}
      BY <2>3, <2>6 DEF Active
    <3> QED
      BY <1>3, <2>2, <2>5, <3>1 DEF RowsOK
  <2>8. \A o \in OtherTxns(c), f \in Peers :
           {<<"share", f>>, <<"update", f>>} \cap txn[o].held # {} /\ sync_devices[f] = "active"
           => sync_devices'[f] = "active"
    BY <2>4, <2>6
  <2>9. txn' = [txn EXCEPT ![c] = NoTxn]
    BY <1>3 DEF TxnEnds
  <2> QED
    BY <1>3, <2>1, <2>2, <2>5, <2>6, <2>7, <2>8, <2>9, NoTxnType, CommitOK
<1> QED
  BY <1>2, <1>3 DEF RevokeDevice

LEMMA CascadeOK ==
    ASSUME RelayInv, NEW c \in Txns, Cascade(c) PROVE RelayInv'
<1>1. /\ txn[c].stage = "cascade"
      /\ \A d \in Peers : sync_devices[d] # "unknown" => Lockable(c, d)
      /\ next_sequence' = 0 /\ sync_records' = {} /\ sync_nonces' = {}
      /\ sync_devices' = [d \in Peers |-> "unknown"]
      /\ done' = [done EXCEPT ![txn[c].request.nonce] = @ + 1]
      /\ txn' = [txn EXCEPT ![c] = NoTxn]
      /\ UNCHANGED <<signed, got, now>>
  BY DEF Cascade, TxnEnds
<1>2. Working(txn[c]) /\ Numbering(txn[c])
  BY <1>1 DEF Working, Numbering
<1>3. /\ NoncesOK' /\ done' \in [1..MaxRequests -> Nat]
      /\ \A o \in OtherTxns(c) : Working(txn[o]) => done'[txn[o].request.nonce] = 0
  <2>1. ~(next_sequence' > 0)
    BY <1>1
  <2> QED
    BY <1>1, <1>2, <2>1, NoncesCommit
<1>4. \A o \in OtherTxns(c) : ~Numbering(txn[o])
  BY <1>2 DEF RelayInv, TxnsOK, OtherTxns, Apart
<1>5. \A o \in OtherTxns(c), d \in Peers :
         ~({<<"share", d>>, <<"update", d>>} \cap txn[o].held # {} /\ sync_devices[d] = "active")
  BY <1>1 DEF Lockable, FreeFor
<1>6. TxnsOK'
  <2>1. ~(next_sequence' > 0)
    BY <1>1
  <2> QED
    BY <1>1, <1>3, <1>4, <1>5, <2>1, TxnsMove
<1>7. txn' \in [Txns -> Txn]
  BY <1>1, NoTxnType DEF RelayInv, RelayTypes
<1>8. RelayTypes'
  BY <1>1, <1>3, <1>7 DEF RelayInv, RelayTypes
<1>9. RowsOK' /\ GotOK'
  BY <1>1 DEF RowsOK, GotOK, Active
<1> QED
  BY <1>3, <1>6, <1>8, <1>9 DEF RelayInv

(* The records of a page. *)
LEMMA PageRecords ==
    ASSUME NEW page \in Seq(Row)
    PROVE  LET p == [i \in 1..Len(page) |-> page[i].record]
           IN  p \in Seq(Records) /\ Len(p) = Len(page)
<1>1. Len(page) \in Nat /\ \A i \in 1..Len(page) : page[i] \in Row
  OBVIOUS
<1>2. \A i \in 1..Len(page) : page[i].record \in Records
  BY <1>1 DEF Row
<1> DEFINE p == [i \in 1..Len(page) |-> page[i].record]
<1>3. p \in [1..Len(page) -> Records]
  BY <1>2
<1> HIDE DEF p
<1>4. p \in Seq(Records) /\ Len(p) = Len(page)
  BY <1>1, <1>3
<1> QED
  BY <1>4 DEF p

(* A page continues what a device got, if it pulled from there. *)
LEMMA FollowsPage ==
    ASSUME NEW recs \in Seq(Records), NEW page \in Seq(Row), Follows(recs, 0),
           \A i \in 1..Len(page) :
              page[i] \in sync_records /\ page[i].sequence = Len(recs) + i
    PROVE  Follows(recs \o [i \in 1..Len(page) |-> page[i].record], 0)
<1> DEFINE p == [i \in 1..Len(page) |-> page[i].record]
           all == recs \o p
<1>1. p \in Seq(Records) /\ Len(p) = Len(page) /\ \A i \in 1..Len(page) : p[i] = page[i].record
  BY PageRecords
<1>2. Len(recs) \in Nat /\ Len(page) \in Nat
  OBVIOUS
<1> HIDE DEF p
<1>3. /\ Len(all) = Len(recs) + Len(page)
      /\ \A i \in 1..Len(all) :
            all[i] = IF i <= Len(recs) THEN recs[i] ELSE p[i - Len(recs)]
  <2>1. /\ Len(all) = Len(recs) + Len(p)
        /\ \A i \in 1..(Len(recs) + Len(p)) :
              all[i] = IF i <= Len(recs) THEN recs[i] ELSE p[i - Len(recs)]
    BY ONLY <1>1, ConcatProperties, recs \in Seq(Records)
  <2> QED
    BY <1>1, <2>1
<1> HIDE DEF all
<1>4. ASSUME NEW i \in 1..Len(all)
      PROVE  \E row \in sync_records : row.sequence = 0 + i /\ row.record = all[i]
  <2>1. CASE i <= Len(recs)
    <3>1. i \in 1..Len(recs) /\ all[i] = recs[i]
      BY <1>2, <1>3, <2>1
    <3> QED
      BY <3>1 DEF Follows
  <2>2. CASE ~(i <= Len(recs))
    <3>1. /\ i - Len(recs) \in 1..Len(page) /\ all[i] = p[i - Len(recs)]
          /\ Len(recs) + (i - Len(recs)) = i /\ 0 + i = i
      BY <1>2, <1>3, <2>2
    <3> QED
      BY <1>1, <3>1
  <2> QED
    BY <2>1, <2>2
<1>5. Follows(all, 0)
  BY <1>4 DEF Follows
<1> QED
  BY <1>5 DEF all, p

LEMMA TakePageOK ==
    ASSUME RelayInv, NEW c \in Txns, TakePage(c) PROVE RelayInv'
<1> DEFINE u == txn[c]
           r == u.request
           p == u.page
           recs == got[r.by] \o [i \in 1..Len(p) |-> p[i].record]
<1>1. /\ u.stage = "answer"
      /\ got' = IF r.after # Len(got[r.by]) THEN got ELSE [got EXCEPT ![r.by] = recs]
      /\ txn' = [txn EXCEPT ![c] = NoTxn]
      /\ UNCHANGED <<relayDataVars, signed, done, now>>
  BY DEF TakePage, TxnEnds
<1>2. /\ u \in Txn /\ TxnOK(u, Found) /\ txn \in [Txns -> Txn]
      /\ got \in [Peers -> Seq(Records)] /\ GotOK
  BY DEF RelayInv, RelayTypes, TxnsOK
<1>3. r \in signed /\ r \in Request
  BY <1>1, <1>2 DEF TxnOK, Found, RelayInv, RelayTypes
<1>4. r.by \in Peers /\ p \in Seq(Row) /\ got[r.by] \in Seq(Records)
  BY <1>2, <1>3 DEF Request, Txn
<1>5. recs \in Seq(Records)
  <2>1. [i \in 1..Len(p) |-> p[i].record] \in Seq(Records)
    BY <1>4, PageRecords
  <2> QED
    BY <1>4, <2>1
<1>6. ASSUME next_sequence > 0, r.after = Len(got[r.by]) PROVE Follows(recs, 0)
  <2>1. \A i \in 1..Len(p) : p[i] \in sync_records /\ p[i].sequence = Len(got[r.by]) + i
    BY <1>1, <1>2, <1>6 DEF TxnOK, Found
  <2>2. Follows(got[r.by], 0)
    BY <1>2, <1>4, <1>6 DEF GotOK
  <2> QED
    BY <1>4, <2>1, <2>2, FollowsPage
<1> HIDE DEF u, r, p, recs
<1>7. got' \in [Peers -> Seq(Records)]
  BY <1>1, <1>2, <1>5
<1>8. ASSUME next_sequence > 0, NEW d \in Peers PROVE Follows(got'[d], 0)
  <2>1. Follows(got[d], 0)
    BY <1>2, <1>8 DEF GotOK
  <2>2. \/ got'[d] = got[d]
        \/ d = r.by /\ r.after = Len(got[r.by]) /\ got'[d] = recs
    BY <1>1, <1>2, <1>4
  <2> QED
    BY <1>6, <1>8, <2>1, <2>2
<1> USE DEF relayDataVars
<1>9. GotOK'
  BY <1>1, <1>8 DEF GotOK, Follows
<1>10. RowsOK' /\ NoncesOK'
  <2>1. Active' = Active
    BY <1>1 DEF Active
  <2> QED
    BY <1>1, <2>1 DEF RelayInv, RowsOK, NoncesOK
<1>11. RelayTypes'
  <2>1. txn' \in [Txns -> Txn]
    BY <1>1, <1>2, NoTxnType
  <2> QED
    BY <1>1, <1>7, <2>1 DEF RelayInv, RelayTypes
<1>12. TxnsOK'
  <2>1. \A o \in OtherTxns(c) : Working(txn[o]) => done[txn[o].request.nonce] = 0
    BY DEF RelayInv, TxnsOK, TxnOK, Found, OtherTxns
  <2> QED
    BY <1>1, <2>1, TxnsMove
<1> QED
  BY <1>9, <1>10, <1>11, <1>12 DEF RelayInv

-----------------------------------------------------------------------------
(* The rows are one log, and no request counts twice                       *)

LEMMA RelayInvStep == RelayInv /\ [RelayNext]_relayVars => RelayInv'
<1> SUFFICES ASSUME RelayInv, [RelayNext]_relayVars PROVE RelayInv'
  OBVIOUS
<1>1. ASSUME NEW d \in Peers, Sign(d) PROVE RelayInv'
  BY <1>1, SignOK
<1>2. ASSUME NEW c \in Txns, Authenticate(c) PROVE RelayInv'
  BY <1>2, AuthenticateOK
<1>3. ASSUME NEW c \in Txns, LockVault(c) \/ StoreRecords(c) PROVE RelayInv'
  BY <1>3, LockVaultOK, StoreRecordsOK
<1>4. ASSUME NEW c \in Txns, SelectPage(c) \/ TakePage(c) PROVE RelayInv'
  BY <1>4, SelectPageOK, TakePageOK
<1>5. ASSUME NEW c \in Txns, EnrollDevice(c) PROVE RelayInv'
  BY <1>5, EnrollDeviceOK
<1>6. ASSUME NEW c \in Txns, SelectActive(c) \/ LockDevices(c) \/ RevokeDevice(c)
      PROVE  RelayInv'
  BY <1>6, SelectActiveOK, LockDevicesOK, RevokeDeviceOK
<1>7. ASSUME NEW c \in Txns, LockForDelete(c) \/ Cascade(c) PROVE RelayInv'
  BY <1>7, LockForDeleteOK, CascadeOK
<1>8. ASSUME NEW c \in Txns, TxnFails(c) PROVE RelayInv'
  BY <1>8, RollsBackOK DEF TxnFails
<1>9. ASSUME Tick PROVE RelayInv'
  BY <1>9, TickOK
<1>10. ASSUME UNCHANGED relayVars PROVE RelayInv'
  <2> USE <1>10 DEF relayVars, relayDataVars
  <2>1. RelayTypes'
    BY DEF RelayInv, RelayTypes
  <2>2. RowsOK' /\ GotOK'
    <3>1. Active' = Active
      BY DEF Active
    <3> QED
      BY <3>1 DEF RelayInv, RowsOK, GotOK, Follows
  <2>3. NoncesOK'
    BY DEF RelayInv, NoncesOK
  <2>4. TxnsOK'
    <3>1. Found' = Found
      BY DEF Found
    <3> QED
      BY <3>1 DEF RelayInv, TxnsOK
  <2> QED
    BY <2>1, <2>2, <2>3, <2>4 DEF RelayInv
<1> QED
  BY <1>1, <1>2, <1>3, <1>4, <1>5, <1>6, <1>7, <1>8, <1>9, <1>10 DEF RelayNext, RunTxn

LEMMA RelayInvariant == RelaySpec => []RelayInv
BY RelayInvInit, RelayInvStep, PTL DEF RelaySpec

(* The rows of the relay stay one log: no record and no number twice, the     *)
(* numbers those from 1 to next_sequence; and a signed request that arrives   *)
(* again, at once or later, is carried out at most once, for its nonce is     *)
(* kept as long as its signature is in time (authenticated, push).            *)
THEOREM RowsAndNonces == RelaySpec => []RequestsServeOnce
<1>1. RelayInv => RequestsServeOnce
  <2> SUFFICES ASSUME RelayInv PROVE RequestsServeOnce
    OBVIOUS
  <2>1. next_sequence \in Nat /\ RowsOK /\ NoncesOK /\ RelayTypes
    BY DEF RelayInv, RelayTypes
  <2>2. ASSUME sync_records # {}
        PROVE  next_sequence > 0 /\ Numbered(sync_records, 0, next_sequence - 1)
    BY <2>1, <2>2 DEF RowsOK
  <2>3. \A r, s \in sync_records : (r.sequence = s.sequence \/ r.record = s.record) => r = s
    BY <2>1, <2>2 DEF RowsOK, Numbered
  <2>4. sync_records # {} => {r.sequence : r \in sync_records} = 1..(next_sequence - 1)
    <3> SUFFICES ASSUME sync_records # {}
                 PROVE  {r.sequence : r \in sync_records} = 1..(next_sequence - 1)
      OBVIOUS
    <3>1. (0 + 1)..(0 + (next_sequence - 1)) = 1..(next_sequence - 1)
      BY <2>1
    <3>2. /\ \A r \in sync_records : r.sequence \in 1..(next_sequence - 1)
          /\ \A m \in 1..(next_sequence - 1) : \E r \in sync_records : r.sequence = m
      BY <2>2, <3>1 DEF Numbered
    <3> QED
      BY <3>2
  <2>5. \A c \in Txns : txn[c].request \in signed \cup {Unsigned}
    <3> SUFFICES ASSUME NEW c \in Txns PROVE txn[c].request \in signed \cup {Unsigned}
      OBVIOUS
    <3>1. TxnOK(txn[c], Found)
      BY DEF RelayInv, TxnsOK
    <3> QED
      BY <3>1 DEF TxnOK, Found, NoTxn
  <2>6. NonceServesOnce
    BY <2>1 DEF NoncesOK, RelayTypes, NonceServesOnce
  <2> QED
    BY <2>1, <2>3, <2>4, <2>5, <2>6 DEF RequestsServeOnce, RelayTypeOK, RelayTypes
<1> QED
  BY <1>1, RelayInvariant, PTL

-----------------------------------------------------------------------------
(* The relay implements RelayLog                                           *)

LogOf(rows) == [i \in 1..Cardinality(rows) |-> Sorted(rows)[i].record]

Former == {d \in Peers : sync_devices[d] = "revoked"}

LEMMA Prefix ==
    ASSUME NEW S, NEW s \in Seq(S), NEW t \in Seq(S), Len(s) <= Len(t),
           \A i \in 1..Len(s) : s[i] = t[i]
    PROVE  IsPrefix(s, t)
<1> DEFINE u == SubSeq(s, 1, Len(s))
           v == SubSeq(t, 1, Len(s))
<1>1. /\ u \in Seq(S) /\ Len(u) = Len(s) /\ \A i \in 1..Len(s) : u[i] = s[i]
      /\ v \in Seq(S) /\ Len(v) = Len(s) /\ \A i \in 1..Len(s) : v[i] = t[i]
  OBVIOUS
<1> HIDE DEF u, v
<1>2. \A i \in 1..Len(u) : u[i] = v[i]
  BY <1>1
<1>3. u = v
  BY ONLY <1>1, <1>2, SeqEqual
<1> QED
  BY <1>3 DEF u, v, IsPrefix

LEMMA PrefixItself == ASSUME NEW S, NEW s \in Seq(S) PROVE IsPrefix(s, s)
BY Prefix

(* The log holds the record of the row with number i at its place i. *)
LEMMA LogOfRows ==
    ASSUME NEW rows \in SUBSET Row, NEW n \in Nat, Numbered(rows, 0, n)
    PROVE  /\ LogOf(rows) \in Seq(Records) /\ Len(LogOf(rows)) = n
           /\ \A row \in rows : row.sequence \in 1..n /\ row.record = LogOf(rows)[row.sequence]
           /\ \A i \in 1..n : \E row \in rows : row.sequence = i
<1>1. /\ Cardinality(rows) = n
      /\ \A i \in 1..n : Sorted(rows)[i] \in rows /\ Sorted(rows)[i].sequence = 0 + i
  BY SortedRows
<1>2. \A row \in rows : row.record \in Records
  BY DEF Row
<1>3. LogOf(rows) \in [1..n -> Records]
  BY <1>1, <1>2 DEF LogOf
<1>4. LogOf(rows) \in Seq(Records) /\ Len(LogOf(rows)) = n
  <2> DEFINE l == LogOf(rows)
  <2>1. l \in [1..n -> Records]
    BY <1>3
  <2> HIDE DEF l
  <2>2. l \in Seq(Records) /\ Len(l) = n
    BY <2>1
  <2> QED
    BY <2>2 DEF l
<1>5. (0 + 1)..(0 + n) = 1..n /\ \A i \in 1..n : 0 + i = i
  OBVIOUS
<1>6. ASSUME NEW row \in rows
      PROVE  row.sequence \in 1..n /\ row.record = LogOf(rows)[row.sequence]
  <2>1. row.sequence \in 1..n
    BY <1>5 DEF Numbered
  <2>2. Sorted(rows)[row.sequence] = row
    BY <1>1, <1>5, <2>1 DEF Numbered
  <2> QED
    BY <1>1, <2>1, <2>2 DEF LogOf
<1>7. \A i \in 1..n : \E row \in rows : row.sequence = i
  BY <1>5 DEF Numbered
<1> QED
  BY <1>4, <1>6, <1>7

LastRow == IF next_sequence > 0 THEN next_sequence - 1 ELSE 0

LEMMA RowsNumbered ==
    RelayInv => /\ LastRow \in Nat /\ sync_records \in SUBSET Row
                /\ Numbered(sync_records, 0, LastRow)
                /\ \A r, s \in sync_records : r.record = s.record => r = s
<1> SUFFICES ASSUME RelayInv
             PROVE  /\ LastRow \in Nat /\ sync_records \in SUBSET Row
                    /\ Numbered(sync_records, 0, LastRow)
                    /\ \A r, s \in sync_records : r.record = s.record => r = s
  OBVIOUS
<1>1. next_sequence \in Nat /\ RowsOK /\ sync_records \in SUBSET Row
  BY DEF RelayInv, RelayTypes
<1>2. CASE next_sequence > 0
  BY <1>1, <1>2 DEF RowsOK, LastRow
<1>3. CASE next_sequence = 0
  <2>1. Numbered({}, 0, 0)
    BY DEF Numbered
  <2> QED
    BY <1>1, <1>3, <2>1 DEF RowsOK, LastRow
<1> QED
  BY <1>1, <1>2, <1>3

(* What a device got are the first records of the log. *)
GotFirst == Active # {} => \A d \in Peers : IsPrefix(got[d], LogOf(sync_records))

LEMMA GotPrefix == RelayInv => GotFirst
<1> SUFFICES ASSUME RelayInv, Active # {}, NEW d \in Peers
             PROVE  IsPrefix(got[d], LogOf(sync_records))
  BY DEF GotFirst
<1> DEFINE l == LogOf(sync_records)
           g == got[d]
<1>1. next_sequence > 0
  BY DEF RelayInv, RelayTypes, RowsOK
<1>2. g \in Seq(Records) /\ Follows(g, 0)
  BY <1>1 DEF RelayInv, RelayTypes, GotOK
<1>3. /\ l \in Seq(Records) /\ Len(l) = LastRow
      /\ \A row \in sync_records : row.sequence \in 1..LastRow /\ row.record = l[row.sequence]
      /\ LastRow \in Nat
  BY RowsNumbered, LogOfRows
<1> HIDE DEF l, g
<1>4. ASSUME NEW i \in 1..Len(g) PROVE i \in 1..LastRow /\ g[i] = l[i]
  <2>1. PICK row \in sync_records : row.sequence = 0 + i /\ row.record = g[i]
    BY <1>2 DEF Follows
  <2>2. row.sequence = i
    BY <2>1
  <2> QED
    BY <1>3, <2>1, <2>2
<1>5. Len(g) <= Len(l)
  <2>1. Len(g) \in Nat
    BY <1>2
  <2>2. CASE Len(g) = 0
    BY <1>3, <2>2
  <2>3. CASE Len(g) > 0
    <3>1. Len(g) \in 1..Len(g)
      BY <2>1, <2>3
    <3> QED
      BY <1>3, <1>4, <3>1
  <2> QED
    BY <2>1, <2>2, <2>3
<1>6. IsPrefix(g, l)
  BY <1>2, <1>3, <1>4, <1>5, Prefix
<1> QED
  BY <1>6 DEF g, l

(* Rows that are added come after those that are there. *)
LEMMA LogExtends ==
    ASSUME NEW rows \in SUBSET Row, NEW more \in SUBSET Row, rows \subseteq more,
           NEW n \in Nat, NEW m \in Nat, Numbered(rows, 0, n), Numbered(more, 0, m),
           \A r, s \in more : r.record = s.record => r = s
    PROVE  IsPrefix(LogOf(rows), LogOf(more)) /\ IsInjective(LogOf(more))
<1> DEFINE k == LogOf(rows)
           l == LogOf(more)
<1>1. /\ k \in Seq(Records) /\ Len(k) = n
      /\ \A row \in rows : row.sequence \in 1..n /\ row.record = k[row.sequence]
      /\ \A i \in 1..n : \E row \in rows : row.sequence = i
  BY LogOfRows
<1>2. /\ l \in Seq(Records) /\ Len(l) = m
      /\ \A row \in more : row.sequence \in 1..m /\ row.record = l[row.sequence]
      /\ \A i \in 1..m : \E row \in more : row.sequence = i
  BY LogOfRows
<1> HIDE DEF k, l
<1>3. \A i \in 1..n : i \in 1..m /\ k[i] = l[i]
  BY <1>1, <1>2
<1>4. Len(k) <= Len(l)
  <2>1. CASE n = 0
    BY <1>1, <1>2, <2>1
  <2>2. CASE n > 0
    <3>1. n \in 1..n
      BY <2>2
    <3> QED
      BY <1>1, <1>2, <1>3, <3>1
  <2> QED
    BY <2>1, <2>2
<1>5. IsPrefix(k, l)
  BY <1>1, <1>2, <1>3, <1>4, Prefix
<1>6. IsInjective(l)
  <2> SUFFICES ASSUME NEW i \in 1..m, NEW j \in 1..m, l[i] = l[j] PROVE i = j
    BY <1>2 DEF IsInjective
  <2>1. PICK r \in more : r.sequence = i
    BY <1>2
  <2>2. PICK s \in more : s.sequence = j
    BY <1>2
  <2> QED
    BY <1>2, <2>1, <2>2
<1> QED
  BY <1>5, <1>6 DEF k, l

LEMMA SameOperators ==
    /\ \A s, t : IsPrefix(s, t) => Log!IsPrefix(s, t)
    /\ \A s : IsInjective(s) => Log!IsInjective(s)
BY DEF IsPrefix, Log!IsPrefix, IsInjective, Log!IsInjective

LEMMA LogInit == RelayInit => Log!Init
<1> SUFFICES ASSUME RelayInit PROVE Log!Init
  OBVIOUS
<1>1. Cardinality(sync_records) = 0
  BY FS_EmptySet DEF RelayInit
<1>2. [i \in 1..Cardinality(sync_records) |-> Sorted(sync_records)[i].record] = <<>>
  BY <1>1
<1>3. PICK S \in (SUBSET Peers) \ {{}} :
         sync_devices = [d \in Peers |-> IF d \in S THEN "active" ELSE "unknown"]
  BY DEF RelayInit
<1>4. Active = S /\ {d \in Peers : sync_devices[d] = "revoked"} = {}
  BY <1>3 DEF Active
<1> QED
  BY <1>2, <1>3, <1>4 DEF Log!Init, RelayInit

(* What leaves the rows, the devices and what was pulled alone. *)
LEMMA LogStutters ==
    UNCHANGED <<sync_devices, sync_records, got>> => UNCHANGED Log!logVars
BY DEF Log!logVars, Active

LEMMA StoreExtends ==
    ASSUME RelayInv, RelayInv', NEW c \in Txns, StoreRecords(c)
    PROVE  Log!Next
<1>1. txn[c].stage = "insert" /\ UNCHANGED <<sync_devices, got>> /\ sync_records \subseteq sync_records'
  BY DEF StoreRecords
<1>2. PICK d \in Peers : d \in Active
  BY <1>1, VaultLives DEF Working, Active
<1>3. /\ LastRow \in Nat /\ sync_records \in SUBSET Row
      /\ Numbered(sync_records, 0, LastRow)
  BY RowsNumbered
<1>4. (/\ LastRow \in Nat /\ sync_records \in SUBSET Row
       /\ Numbered(sync_records, 0, LastRow)
       /\ \A r, s \in sync_records : r.record = s.record => r = s)'
  BY RowsNumbered, PTL
<1>5. /\ LastRow' \in Nat /\ sync_records' \in SUBSET Row
      /\ Numbered(sync_records', 0, LastRow')
      /\ \A r, s \in sync_records' : r.record = s.record => r = s
  BY <1>4 DEF Numbered
<1>6. /\ IsPrefix(LogOf(sync_records), LogOf(sync_records'))
      /\ IsInjective(LogOf(sync_records'))
  BY <1>1, <1>3, <1>5, LogExtends
<1>7. Active' = Active /\ Former' = Former
  BY <1>1 DEF Active, Former
<1>8. Log!Extend(d)
  BY <1>1, <1>2, <1>6, <1>7, SameOperators DEF Log!Extend, LogOf, Former
<1> QED
  BY <1>8 DEF Log!Next

LEMMA TakeDelivers ==
    ASSUME RelayInv, RelayInv', NEW c \in Txns, TakePage(c)
    PROVE  Log!Next
<1> DEFINE p == txn[c].page
           more == [i \in 1..Len(p) |-> p[i].record]
<1>1. txn[c] \in Txn /\ TxnOK(txn[c], Found) /\ got \in [Peers -> Seq(Records)]
  BY DEF RelayInv, RelayTypes, TxnsOK
<1>2. PICK d \in Peers : d = txn[c].request.by
  BY <1>1 DEF TxnOK, Found, RelayInv, RelayTypes, Request, TakePage
<1>3. /\ UNCHANGED relayDataVars
      /\ got' = got \/ got' = [got EXCEPT ![d] = @ \o more]
  BY <1>2 DEF TakePage
<1>4. more \in Seq(Records) /\ got[d] \in Seq(Records)
  BY <1>1, PageRecords DEF Txn
<1> HIDE DEF more
<1>5. IsPrefix(got[d], got'[d]) /\ got' = [got EXCEPT ![d] = got'[d]]
  <2>1. CASE got' = got
    BY <1>1, <1>4, <2>1, PrefixItself
  <2>2. CASE got' = [got EXCEPT ![d] = @ \o more]
    <3> DEFINE g == got[d]
               h == g \o more
    <3>1. got'[d] = h
      BY <1>1, <2>2
    <3>2. g \in Seq(Records)
      BY <1>4
    <3> HIDE DEF g
    <3>3. /\ h \in Seq(Records) /\ Len(h) = Len(g) + Len(more)
          /\ \A i \in 1..(Len(g) + Len(more)) : h[i] = IF i <= Len(g) THEN g[i] ELSE more[i - Len(g)]
      BY ONLY <1>4, <3>2, ConcatProperties
    <3> HIDE DEF h
    <3>4. Len(g) <= Len(h) /\ \A i \in 1..Len(g) : g[i] = h[i]
      BY <1>4, <3>2, <3>3
    <3>5. IsPrefix(g, h)
      BY <3>2, <3>3, <3>4, Prefix
    <3> QED
      BY <1>1, <2>2, <3>1, <3>5 DEF g, h
  <2> QED
    BY <1>3, <2>1, <2>2
<1>6. GotFirst'
  BY GotPrefix, PTL
<1>7. sync_records' = sync_records /\ sync_devices' = sync_devices /\ Active' = Active
  BY <1>3 DEF relayDataVars, Active
<1>8. Active # {} => IsPrefix(got'[d], LogOf(sync_records))
  BY <1>6, <1>7 DEF GotFirst, LogOf
<1>9. Former' = Former
  BY <1>7 DEF Former
<1>10. Log!Deliver(d)
  BY <1>5, <1>7, <1>8, <1>9, SameOperators DEF Log!Deliver, LogOf, Former
<1> QED
  BY <1>10 DEF Log!Next

LEMMA EnrollEnrolls ==
    ASSUME RelayInv, NEW c \in Txns, EnrollDevice(c)
    PROVE  [Log!Next]_(Log!logVars)
<1>1. PICK d \in Peers, by \in Peers : d = txn[c].request.device /\ by \in Active
  BY VaultLives DEF Working, Request, EnrollDevice
<1>2. /\ UNCHANGED <<sync_records, got>>
      /\ sync_devices' = [sync_devices EXCEPT ![d] = IF @ = "revoked" THEN @ ELSE "active"]
  BY <1>1 DEF EnrollDevice
<1>3. sync_devices \in [Peers -> {"unknown", "active", "revoked"}]
  BY DEF RelayInv, RelayTypes
<1>4. CASE sync_devices[d] = "revoked"
  BY <1>1, <1>2, <1>3, <1>4, LogStutters
<1>5. CASE sync_devices[d] # "revoked"
  <2>1. /\ Active' = Active \cup {d} /\ Former' = Former /\ d \notin Former
    BY <1>1, <1>2, <1>3, <1>5 DEF Active, Former
  <2>2. Log!Enroll(by, d)
    BY <1>1, <1>2, <2>1 DEF Log!Enroll, Former
  <2> QED
    BY <1>2, <2>2 DEF Log!Next
<1> QED
  BY <1>4, <1>5

LEMMA RevokeRevokes ==
    ASSUME RelayInv, NEW c \in Txns, RevokeDevice(c)
    PROVE  [Log!Next]_(Log!logVars)
<1>1. txn[c].stage = "revoking"
  BY DEF RevokeDevice
<1>2. PICK d \in Peers, by \in Peers : d = txn[c].request.device /\ by \in Active
  BY <1>1, VaultLives DEF Working, Request
<1>3. sync_devices \in [Peers -> {"unknown", "active", "revoked"}]
  BY DEF RelayInv, RelayTypes
<1>4. CASE TxnRollsBack(c)
  BY <1>4, LogStutters DEF TxnRollsBack, relayDataVars
<1>5. CASE /\ sync_devices[d] = "active"
           /\ sync_devices' = [sync_devices EXCEPT ![d] = "revoked"]
           /\ UNCHANGED <<sync_records, got>>
  <2>1. Active # {d}
    BY <1>1, OthersRemain
  <2>2. /\ Active' = Active \ {d} /\ Former' = Former \cup {d} /\ d \in Active
    BY <1>2, <1>3, <1>5 DEF Active, Former
  <2>3. Log!Revoke(by, d)
    BY <1>2, <1>5, <2>1, <2>2 DEF Log!Revoke, Former
  <2> QED
    BY <2>3 DEF Log!Next
<1> QED
  BY <1>2, <1>4, <1>5 DEF RevokeDevice

LEMMA CascadeDeletes ==
    ASSUME RelayInv, NEW c \in Txns, Cascade(c)
    PROVE  Log!Next
<1>1. /\ txn[c].stage = "cascade" /\ sync_records' = {} /\ UNCHANGED got
      /\ sync_devices' = [d \in Peers |-> "unknown"]
  BY DEF Cascade
<1>2. PICK by \in Peers : by \in Active
  BY <1>1, VaultLives DEF Working, Active
<1>3. Active' = {} /\ Former' = {}
  BY <1>1 DEF Active, Former
<1>4. Cardinality(sync_records') = 0
  BY <1>1, FS_EmptySet
<1>5. [i \in 1..Cardinality(sync_records') |-> Sorted(sync_records')[i].record] = <<>>
  BY <1>4
<1>6. Log!Delete(by)
  BY <1>1, <1>2, <1>3, <1>5 DEF Log!Delete, Former
<1> QED
  BY <1>2, <1>6 DEF Log!Next

(* Whatever order the transactions begin, wait, fail and commit in, the       *)
(* devices see one log that only grows at its end, of which each holds a      *)
(* prefix; nothing is done for a device after its revocation committed, a     *)
(* revoked one never comes back and the last one cannot be revoked            *)
(* (push, pull, enrollDevice, revokeDevice and deleteVault of the relay).     *)
THEOREM ImplementsLog == RelaySpec => RelayImplementsLog
<1>1. RelayInv /\ RelayInv' /\ [RelayNext]_relayVars => [Log!Next]_(Log!logVars)
  <2> SUFFICES ASSUME RelayInv, RelayInv', [RelayNext]_relayVars
               PROVE  [Log!Next]_(Log!logVars)
    OBVIOUS
  <2> USE DEF relayDataVars
  <2>1. ASSUME NEW d \in Peers, Sign(d) PROVE UNCHANGED Log!logVars
    BY <2>1, LogStutters DEF Sign
  <2>2. ASSUME NEW c \in Txns, Authenticate(c) \/ TxnFails(c) PROVE UNCHANGED Log!logVars
    BY <2>2, LogStutters DEF Authenticate, TxnFails, TxnRollsBack
  <2>3. ASSUME NEW c \in Txns, LockVault(c) \/ LockForDelete(c) PROVE UNCHANGED Log!logVars
    BY <2>3, LogStutters DEF LockVault, LockForDelete, TxnRollsBack
  <2>4. ASSUME NEW c \in Txns, SelectPage(c) PROVE UNCHANGED Log!logVars
    BY <2>4, LogStutters DEF SelectPage
  <2>5. ASSUME NEW c \in Txns, SelectActive(c) \/ LockDevices(c) PROVE UNCHANGED Log!logVars
    BY <2>5, LogStutters DEF SelectActive, LockDevices, TxnRollsBack
  <2>6. ASSUME NEW c \in Txns, StoreRecords(c) \/ TakePage(c) \/ Cascade(c) PROVE Log!Next
    BY <2>6, StoreExtends, TakeDelivers, CascadeDeletes
  <2>7. ASSUME NEW c \in Txns, EnrollDevice(c) \/ RevokeDevice(c)
        PROVE  [Log!Next]_(Log!logVars)
    BY <2>7, EnrollEnrolls, RevokeRevokes
  <2>8. ASSUME Tick \/ UNCHANGED relayVars PROVE UNCHANGED Log!logVars
    BY <2>8, LogStutters DEF Tick, relayVars
  <2> QED
    BY <2>1, <2>2, <2>3, <2>4, <2>5, <2>6, <2>7, <2>8 DEF RelayNext, RunTxn
<1> QED
  BY <1>1, LogInit, RelayInvariant, PTL DEF RelaySpec, RelayImplementsLog, Log!Spec
=============================================================================

----------------------------- MODULE MCSourceSync -----------------------------
(***************************************************************************)
(* Instances of SourceSync for TLC.                                        *)
(***************************************************************************)
EXTENDS SourceSync

CONSTANTS f1, f2, theFolder, contentA, contentB, contentP, nothing, t1, t2

TwoFiles == {f1, f2}
OneFile == {f1}
TwoTxs == {t1, t2}
OneTx == {t1}

\* Transactions, files and contents that can be stored are interchangeable.
Symmetry == Permutations(Txs) \cup Permutations(Files) \cup Permutations(Contents \ Poison)

\* Bound: a feed that was never asked for, and what its first answer passes over, are
\* explored with the dispatcher and the delta alone and without failures; a feed that
\* has begun, with every caller.
FirstFeedAlone ==
    ~db[Conn].begun \/ skipped # {} =>
        used.faults = 0 /\ \A t \in Txs : tx[t].kind \in {Idle.kind, "batch", "delta"}
=============================================================================

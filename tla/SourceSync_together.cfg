SPECIFICATION Spec
CONSTANTS
    f1 = f1
    f2 = f2
    theFolder = theFolder
    contentA = contentA
    contentB = contentB
    contentP = contentP
    nothing = nothing
    t1 = t1
    t2 = t2
    Files <- OneFile
    Folder = theFolder
    Contents = {contentA, contentP}
    Poison = {contentP}
    NoContent = nothing
    Txs <- TwoTxs
    Kinds = {"worker", "batch", "manual", "delta"}
    UserOps = {}
    Failures = {"expire", "exit"}
    BatchLimit = 2
    PageLimit = 1
    FromNow = TRUE
    MaxChanges = 2
    MaxUser = 0
    MaxFaults = 1
SYMMETRY Symmetry
INVARIANTS
    TypeOK
    NoDuplicateRevision
    CursorSound
CONSTRAINT FirstFeedAlone
CHECK_DEADLOCK FALSE

SPECIFICATION Spec
CONSTANTS
    f1 = f1
    f2 = f2
    theFolder = theFolder
    contentA = contentA
    contentB = contentB
    contentP = contentP
    nothing = nothing
    t1 = t1
    t2 = t2
    Files <- OneFile
    Folder = theFolder
    Contents = {contentA, contentB}
    Poison = {}
    NoContent = nothing
    Txs <- TwoTxs
    Kinds = {"batch", "manual", "delta"}
    UserOps = {"disconnect", "reconnect", "sync"}
    Failures = {"expire", "refresh", "provider", "exit"}
    BatchLimit = 2
    PageLimit = 1
    FromNow = FALSE
    MaxChanges = 2
    MaxUser = 1
    MaxFaults = 1
SYMMETRY Symmetry
INVARIANTS
    HistoryComplete
CHECK_DEADLOCK FALSE

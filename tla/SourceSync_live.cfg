SPECIFICATION FairSpec
CONSTANTS
    f1 = f1
    f2 = f2
    theFolder = theFolder
    contentA = contentA
    contentB = contentB
    contentP = contentP
    nothing = nothing
    t1 = t1
    t2 = t2
    Files <- TwoFiles
    Folder = theFolder
    Contents = {contentA, contentB, contentP}
    Poison = {contentP}
    NoContent = nothing
    Txs <- OneTx
    Kinds = {"batch"}
    UserOps = {}
    Failures = {"expire", "refresh", "provider", "upload", "exit"}
    BatchLimit = 2
    PageLimit = 1
    FromNow = FALSE
    MaxChanges = 1
    MaxUser = 0
    MaxFaults = 1
PROPERTIES
    ChangeIsImported
CHECK_DEADLOCK FALSE

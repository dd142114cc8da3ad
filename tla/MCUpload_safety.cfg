\* Two uploads of one song and two requests under every fault.
SPECIFICATION Spec
CONSTANTS
    Contents = {song}
    Size <- Sizes
    Last = 2
    Uploads = {u1, u2}
    Files = {f1, f2}
    Requests = {e1, e2}
    Faults = {"db", "crash", "body", "disk"}
SYMMETRY Symmetric
INVARIANTS
    StoredIsDeclared
    FilesApart
PROPERTY RetriesKeepProgress

SPECIFICATION Spec
CONSTANTS
    Commits = {"c1", "c2"}
    Diffs <- MCDiffs
    Vcs = "git"
    HgInstalled = TRUE
    MaxTextLength = 5
INVARIANTS UnchangedIsRecorded NoNeedMeansFresh
PROPERTY Settles

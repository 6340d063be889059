SPECIFICATION Spec

CONSTANTS
    Branches = {main, topic}
    Main = main
    Commits = {c0, c1, c2}
    Root = c0
    MaxPrs = 2
INVARIANTS TypeOK CreatedIsPublished
PROPERTIES BranchesOnlyGrow SyncedMeansPushed 

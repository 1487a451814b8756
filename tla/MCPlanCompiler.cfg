CONSTANTS
    r1 = r1
    r2 = r2
    Requests <- MCRequests
    Questions <- MCQuestions
    Selections <- MCSelections
    Bundles <- MCBundles
    Drafts <- MCDrafts
    Settings <- MCSettings
    MaxRepairs = 1
SPECIFICATION FairSpec
INVARIANT RefusedNeverSent
 
INVARIANT SelectionIsMine
INVARIANT SelectedWritesAreSure
PROPERTY EveryRequestReturns
CHECK_DEADLOCK FALSE

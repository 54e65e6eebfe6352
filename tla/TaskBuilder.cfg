\* Requests, replies and assets that agree, contradict each other, or are made up.
SPECIFICATION BuilderSpec
CONSTANTS
    Requests <- SomeRequests
    Inputs <- SomeInputs
    Replies <- SomeReplies
    Sheets <- SomeSheets
INVARIANTS NothingIsInvented ReviewIsSound
ACTION_CONSTRAINT OneDraft

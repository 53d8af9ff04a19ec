SPECIFICATION Spec
CONSTANTS
    MaxName = 3
    Declared = {1}
    Pattern = {1, 3}
    Wide = {3}
    Lengths = {2, 3}
    FilterInputs = TRUE
    Trace = FALSE
    Foreign = {2}
INVARIANTS TypeOK ListingExact ListedAtMostOnce RecordFollowsHandle
PROPERTIES EveryQueryReturns

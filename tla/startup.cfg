SPECIFICATION Spec
CONSTANTS
    Files <- MCFiles
    Lost = {"@none"}
    Seconds <- MCSeconds
    Word = 256
    MsPerSec = 10
    Procs = {parent, child}
    Root = parent
    Inputs <- MCInputs
    ToolSpellings <- MCToolSpellings
    WordSpellings <- MCWordSpellings
    Plain <- MCPlain
INVARIANTS CommandAsWritten OnePolicyAsked ArgumentsArriveIntact LimitOnlyIfGiven
    PolicyPropagates BlockedHasNoSocket  

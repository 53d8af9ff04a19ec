------------------------------ MODULE Startup ------------------------------
(***************************************************************************)
(* The launcher from its command line to the tool it starts, composed of   *)
(* CommandLine (what its words mean and what the tool is given) and        *)
(* Network (the policy the tool and its children run under).  What happens *)
(* to the started tool and the overlay is in Launcher.                     *)
(***************************************************************************)
EXTENDS CommandLine, Network

CONSTANTS
    Inputs,         \* the command lines the launcher is given
    ToolSpellings,  \* how the executable may be spelled,
    WordSpellings,  \* its first argument,
    Plain           \* and every other

ASSUME InputsAssumption ==
    /\ \A cl \in Inputs : cl \in Seq(STRING)
    /\ ToolSpellings \cup WordSpellings \cup {Plain} \subseteq Seq(Marks)

VARIABLES
    phase,      \* how far the launcher is
    words,      \* its command line
    o,          \* the Options it parsed
    args,       \* the spelling of the tool and its arguments
    line        \* the command line it builds for the tool

launcher == <<words, o, args, line>>
vars == <<phase, launcher, netvars>>

Init ==
    /\ phase = "start" /\ words \in Inputs
    /\ o = Defaults /\ args = <<>> /\ line = <<>>
    /\ NetInit

Parse ==
    /\ phase = "start"
    /\ o' = ParseOptions(words)
    /\ phase' = IF o'.failed THEN "died" ELSE "parsed"
    /\ UNCHANGED <<words, args, line, netvars>>

\* A PE file for another machine than x64 is refused, with 3, before anything
\* is made.  The model forgets the options that matter to other modules.
RefuseForeignMachine ==
    /\ phase = "parsed"
    /\ \E machine \in {"x64", "other", "noPE"} :
         phase' = IF machine = "other" THEN "refused" ELSE "resolved"
    /\ words' = <<>>
    /\ o' = [Defaults EXCEPT !.networkPolicy = o.networkPolicy, !.args = o.args]
    /\ UNCHANGED <<args, line, netvars>>

\* The words of the command get a spelling; the separators of the executable
\* are made backslashes.
Build ==
    /\ phase = "resolved" /\ phase' = "built"
    /\ \E tool \in ToolSpellings, word \in WordSpellings :
         args' = [i \in DOMAIN o.args |-> CASE i = 1 -> Executable(tool)
                                            [] i = 2 -> word
                                            [] OTHER -> Plain]
    /\ line' = BuildChildCommandLine(args')
    /\ UNCHANGED <<words, o, netvars>>

Policy(n) == CASE n = 1 -> "LoopbackOnly" [] n = 2 -> "BlockAll" [] OTHER -> "Allow"

Launch ==
    /\ phase = "built" /\ phase' = "running"
    /\ StartTool(Policy(o.networkPolicy))
    /\ o' = Defaults /\ args' = <<>> /\ line' = <<>>
    /\ UNCHANGED words

Run ==
    /\ phase = "running"
    /\ NetStep
    /\ UNCHANGED <<phase, launcher>>

Ended ==
    /\ phase \in {"died", "refused"} \/ (phase = "running" /\ \A p \in Procs : life[p] # "alive")
    /\ UNCHANGED vars

Next == Parse \/ RefuseForeignMachine \/ Build \/ Launch \/ Run \/ Ended

Spec == Init /\ [][Next]_vars

-----------------------------------------------------------------------------
\* Everything after the "--" of the command line is the command, word by word:
\* no response file is read in it and none of its words is taken for an option.
CommandAsWritten ==
    (phase = "parsed" /\ \A f \in DOMAIN Files : ~Contains(Files[f], "--")) =>
        \E i \in DOMAIN words :
            words[i] = "--" /\ o.args = SubSeq(words, i + 1, Len(words))

\* The options with values between j and the word at i, all of them; the last of an
\* odd number of them has the word at i for its value.
RunOf(head, j, i) ==
    /\ \A k \in j .. i - 1 : head[k] \in ValueOptions
    /\ j > 1 => head[j - 1] \notin ValueOptions

IsValue(head, i) == \E j \in 1 .. i - 1 : RunOf(head, j, i) /\ (i - j) % 2 = 1

IsAsked(head, flag) == \E i \in DOMAIN head : head[i] = flag /\ ~IsValue(head, i)

\* A launcher that starts a tool was asked for at most one network policy,
\* wherever in the options or their response files, and took that one.  A word
\* that is the value of an option asks for nothing.
OnePolicyAsked ==
    phase = "parsed" =>
        LET expanded == ExpandArguments(words).words
            head == SubSeq(expanded, 1, Len(expanded) - Len(o.args))
        IN /\ IsAsked(head, "-N") <=> o.networkPolicy = 1
           /\ IsAsked(head, "-n") <=> o.networkPolicy = 2

\* The tool finds in its argv the very words of the command, whatever quotes,
\* spaces and backslashes they hold; cmd.exe gets its text letter by letter.
ArgumentsArriveIntact ==
    phase = "built" =>
        IF IsCmdExe(args[1])
        THEN /\ CommandLineToArgvW(line)[1] = args[1]
             /\ IsSuffix(Spaced(Tail(args)), line)
        ELSE CommandLineToArgvW(line) = args

\* The wait for the tool is without a limit exactly if no limit was given: the
\* product wraps, but never to INFINITE.
LimitOnlyIfGiven ==
    phase = "parsed" => (WaitMs(o.timeoutSecs) = INFINITE <=> o.timeoutSecs = 0)
=============================================================================

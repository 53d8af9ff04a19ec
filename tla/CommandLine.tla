---------------------------- MODULE CommandLine ----------------------------
(***************************************************************************)
(* The two ends of the launcher's command line: the words it is given and  *)
(* the options it makes of them, and the string it builds from the rest    *)
(* for the tool, which the tool takes apart again.                         *)
(*                                                                         *)
(* A word is a string.  Where its spelling matters it is a sequence of     *)
(* marks: a backslash "bs", a slash "fs", a quote, a space, the name       *)
(* "cmd.exe" and any other letter "x".                                     *)
(***************************************************************************)
EXTENDS Naturals, Sequences, SequencesExt

CONSTANTS
    Files,      \* the response files there are: word -> the words on its lines
    Lost,       \* words that name a response file that cannot be opened
    Seconds,    \* word -> the number it spells
    Word,       \* the range of a DWORD (2^32); a run scales it down
    MsPerSec    \* 1000 in the code; scaled down with Word

Marks == {"bs", "fs", "quote", "space", "cmd.exe", "x"}
Switches == {"-N", "-n", "-H", "--filter-inputs", "--write-overlay"}
ValueOptions == {"-W", "-T", "-t", "-r", "-w", "-b"}

ASSUME CommandLineAssumption ==
    /\ \A f \in DOMAIN Files : Files[f] \in Seq(STRING)
    /\ Lost \cap DOMAIN Files = {}
    /\ "--" \notin DOMAIN Files      \* their words start with an @
    /\ Word \in Nat \ {0} /\ Word % 2 = 0
    /\ MsPerSec \in Nat \ {0} /\ MsPerSec % 2 = 0
    /\ \A w \in DOMAIN Seconds : Seconds[w] \in 0 .. Word - 1

\* A launcher that gives up: it prints a message, runs nothing, exits with 1.
Died == [failed |-> TRUE]

-----------------------------------------------------------------------------
\* Mutant: response files are read in the command, too.
ExpandArgumentsEverywhere(words) ==
    IF \E i \in DOMAIN words : words[i] \in Lost THEN Died
    ELSE [failed |-> FALSE,
          words |-> FlattenSeq([i \in DOMAIN words |->
                      IF words[i] \in DOMAIN Files THEN Files[words[i]]
                                                   ELSE <<words[i]>>])]

\* Each line of a response file is one word; the first "--" of the command
\* line itself, not one that comes from a file, ends the expansion.
ExpandArguments(words) ==
    LET ends == {i \in DOMAIN words : words[i] = "--"}
        last == IF ends = {} THEN Len(words) ELSE Min(ends)
        expanded(i) == IF i <= last /\ words[i] \in DOMAIN Files
                       THEN Files[words[i]] ELSE <<words[i]>>
    IN IF \E i \in 1 .. last : words[i] \in Lost
       THEN Died
       ELSE [failed |-> FALSE,
             words |-> FlattenSeq([i \in DOMAIN words |-> expanded(i)])]

Defaults == [failed |-> FALSE, networkPolicy |-> 0, hermetic |-> FALSE,
             filterInputs |-> FALSE, writeOverlay |-> FALSE,
             timeoutSecs |-> 0, killDelaySecs |-> 0,
             workingDir |-> "current", scopes |-> <<>>, args |-> <<>>]

\* Mutant: the last of -N and -n wins.
SwitchLastWins(o, w) ==
    CASE w = "-N" -> [o EXCEPT !.networkPolicy = 1]
      [] w = "-n" -> [o EXCEPT !.networkPolicy = 2]
      [] w = "-H" -> [o EXCEPT !.hermetic = TRUE]
      [] w = "--filter-inputs" -> [o EXCEPT !.filterInputs = TRUE, !.hermetic = TRUE]
      [] w = "--write-overlay" -> [o EXCEPT !.writeOverlay = TRUE]

\* One switch; -N and -n exclude each other.
Switch(o, w) ==
    CASE w = "-N" -> IF o.networkPolicy = 2 THEN Died ELSE [o EXCEPT !.networkPolicy = 1]
      [] w = "-n" -> IF o.networkPolicy = 1 THEN Died ELSE [o EXCEPT !.networkPolicy = 2]
      [] w = "-H" -> [o EXCEPT !.hermetic = TRUE]
      [] w = "--filter-inputs" -> [o EXCEPT !.filterInputs = TRUE, !.hermetic = TRUE]
      [] w = "--write-overlay" -> [o EXCEPT !.writeOverlay = TRUE]

\* strtoul: what is no number counts as 0, which stands for "no limit".
ParseUint(w) == IF w \in DOMAIN Seconds THEN Seconds[w] ELSE 0

\* An option and its value; the file options add up, the others replace.
Valued(o, name, value) ==
    CASE name = "-W" -> [o EXCEPT !.workingDir = value]
      [] name = "-T" -> [o EXCEPT !.timeoutSecs = ParseUint(value)]
      [] name = "-t" -> [o EXCEPT !.killDelaySecs = ParseUint(value)]
      [] OTHER -> [o EXCEPT !.scopes = Append(@, <<name, value>>)]

\* The loop over the options: pending is an option that waits for its value,
\* which may be any word, "--" included.
ParseWord(st, w) ==
    CASE st.o.failed -> st
      [] ~st.o.failed /\ st.command -> [st EXCEPT !.o.args = Append(@, w)]
      [] ~st.o.failed /\ ~st.command /\ st.pending # "none" ->
           [st EXCEPT !.o = Valued(@, st.pending, w), !.pending = "none"]
      [] OTHER ->
           CASE w = "--" -> [st EXCEPT !.command = TRUE]
             [] w \in Switches -> [st EXCEPT !.o = Switch(@, w)]
             [] w \in ValueOptions -> [st EXCEPT !.pending = w]
             [] OTHER -> [st EXCEPT !.o = Died]

ParseOptions(words) ==
    LET expanded == ExpandArguments(words)
        end == FoldLeft(ParseWord,
                        [o |-> Defaults, pending |-> "none", command |-> FALSE],
                        expanded.words)
    IN IF \/ expanded.failed
          \/ end.o.failed
          \/ end.o.args = <<>>
       THEN Died ELSE end.o

\* The limit of WaitForSingleObject, a DWORD product.
INFINITE == Word - 1
\* Mutant: 0 is taken for a limit like any other.
WaitMsPlain(secs) == (secs * MsPerSec) % Word
WaitMs(secs) == IF secs = 0 THEN INFINITE ELSE (secs * MsPerSec) % Word

-----------------------------------------------------------------------------
Times(mark, n) == [i \in 1 .. n |-> mark]

\* A run of backslashes is doubled before a quote mark, and kept for later (bs)
\* as long as nothing follows it.
EscapeMark(acc, c) ==
    CASE c = "bs" -> [acc EXCEPT !.bs = @ + 1]
      [] c = "quote" -> [out |-> acc.out \o Times("bs", 2 * acc.bs + 1) \o <<c>>, bs |-> 0]
      [] OTHER -> [out |-> acc.out \o Times("bs", acc.bs) \o <<c>>, bs |-> 0]

\* The opening quote and what stands behind it.
Escaped(s) == FoldLeft(EscapeMark, [out |-> <<"quote">>, bs |-> 0], s)

NeedsQuotes(s) == s = <<>> \/ ToSet(s) \cap {"space", "quote"} # {}

\* Mutant: the backslashes before the closing quote are not doubled.
EscapeArgLooseEnd(s) ==
    IF NeedsQuotes(s)
    THEN Escaped(s).out \o Times("bs", Escaped(s).bs) \o <<"quote">>
    ELSE s

\* A word that is empty or holds a space or a quote is quoted; the backslashes
\* before the closing quote are doubled as well.
EscapeArg(s) ==
    IF NeedsQuotes(s)
    THEN Escaped(s).out \o Times("bs", 2 * Escaped(s).bs) \o <<"quote">>
    ELSE s

\* The executable's separators are made backslashes before anything else.
Executable(s) == ReplaceAll(s, "fs", "bs")

IsCmdExe(s) ==
    /\ s # <<>> /\ Last(s) = "cmd.exe"
    /\ Len(s) > 1 => s[Len(s) - 1] \in {"bs", "fs"}

Spaced(ss) == FlattenSeq([i \in DOMAIN ss |-> IF i = 1 THEN ss[i] ELSE <<"space">> \o ss[i]])

\* cmd.exe takes its arguments literally; every other tool unquotes them.
BuildChildCommandLine(args) ==
    Spaced([i \in DOMAIN args |->
              IF i = 1 \/ ~IsCmdExe(args[1]) THEN EscapeArg(args[i]) ELSE args[i]])

-----------------------------------------------------------------------------
\* CommandLineToArgvW: the first word ends at its closing quote or at a space;
\* in the others 2n backslashes and a quote are n backslashes and a change of
\* quoting, 2n+1 are n backslashes and a literal quote.
ArgvStart == [argv |-> <<>>, word |-> <<>>, open |-> FALSE, quoted |-> FALSE, bs |-> 0]

Flushed(st) == [st EXCEPT !.word = @ \o Times("bs", st.bs), !.bs = 0]
Closed(st) ==
    LET f == Flushed(st) IN
    IF f.open THEN [ArgvStart EXCEPT !.argv = Append(f.argv, f.word)] ELSE f

ArgvMark(st, c) ==
    LET first == st.argv = <<>>
        half == Times("bs", st.bs \div 2)
    IN CASE c = "space" /\ ~st.quoted -> Closed(st)
         [] c = "quote" /\ (first \/ st.bs % 2 = 0) ->
              [st EXCEPT !.word = @ \o (IF first THEN Times("bs", st.bs) ELSE half),
                         !.bs = 0, !.quoted = ~@, !.open = TRUE]
         [] c = "quote" /\ ~first /\ st.bs % 2 = 1 ->
              [st EXCEPT !.word = Append(@ \o half, c), !.bs = 0, !.open = TRUE]
         [] c = "bs" -> [st EXCEPT !.bs = @ + 1, !.open = TRUE]
         [] OTHER -> [Flushed(st) EXCEPT !.word = Append(@, c), !.open = TRUE]

CommandLineToArgvW(line) == Closed(FoldLeft(ArgvMark, ArgvStart, line)).argv
=============================================================================

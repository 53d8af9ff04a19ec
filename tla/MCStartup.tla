----------------------------- MODULE MCStartup -----------------------------
(* Command lines of options in every order of a few, with and without      *)
(* response files, and words of every spelling up to four marks.           *)
EXTENDS Startup


MCFiles == "@opts" :> <<"-W", "dir", "-N">> @@ "@block" :> <<"-n", "--filter-inputs">>
MCSeconds == "3" :> 3 @@ "40" :> 40 @@ "128" :> 128

Options == {<<"-N">>, <<"-n">>, <<"@opts">>, <<"@block">>, <<"@none">>,
            <<"-T", "3">>, <<"-T", "40">>, <<"-T", "128">>, <<"-T", "word">>, <<"-r", "-n">>, <<"-W", "--">>,
            <<"-H">>, <<"--write-overlay">>, <<"-t", "3">>, <<"word">>, <<"-W">>}
Commands == {<<>>, <<"--">>, <<"--", "tool">>, <<"--", "tool", "word">>,
             <<"--", "tool", "@opts", "--", "-n">>}
Letters == {"bs", "quote", "space", "x"}

MCInputs == {FlattenSeq(opts) \o command : opts \in BoundedSeq(Options, 2), command \in Commands}
MCToolSpellings == {<<"x">>, <<"x", "fs", "x", "bs", "x">>, <<"x", "space", "bs", "x">>,
                    <<"x", "cmd.exe">>, <<"x", "space", "x", "fs", "cmd.exe">>}
MCWordSpellings == BoundedSeq(Letters, 4)
MCPlain == <<"x">>
=============================================================================

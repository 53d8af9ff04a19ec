--------------------------- MODULE MCOverlayTree ---------------------------
(***************************************************************************)
(* An instance of OverlayTree: a directory with a declared input and a     *)
(* directory in it, and a declared output beside it.                       *)
(***************************************************************************)
EXTENDS OverlayTree

CONSTANTS parent, child

D == <<"d">>
Tmp == <<"d", "tmp">>
In == <<"d", "in">>
Out == <<"out">>

SmallTree == {<< >>, D, Tmp, In, Out}
KindSmall == [p \in SmallTree |->
    CASE p = In -> "input" [] p = Out -> "output" [] OTHER -> "scratch"]

OnDisk(dirs, files) == [p \in SmallTree |->
    CASE p \in dirs \cup {<< >>} -> "dir" [] p \in files -> "file" [] OTHER -> "none"]

LongSmall == {Tmp}

\* Nothing in the execroot; every declared file beside a directory; a file
\* where the tool may want a directory.
SmallDisks == {OnDisk({}, {}), OnDisk({D, Tmp}, {In, Out}), OnDisk({D}, {In, Tmp})}
=============================================================================

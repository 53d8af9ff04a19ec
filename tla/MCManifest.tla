------------------------------ MODULE MCManifest ------------------------------
(* A working directory with three children, one of them on the tool's path *)
(* and one on the path of a deep output, and roots with up to three.       *)
EXTENDS Manifest

MCWorkingDir == <<1>>
MCTool == <<1, 3, 1>>
MCOverlayRoot == <<2>>
MCDeclarable == {<<1>>, <<1, 1>>, <<1, 2>>, <<1, 2, 3, 1>>, <<3>>}

Under(P) == {Append(p, f) : p \in P, f \in Frag}
MCLooked ==
    Under({<<>>, <<1>>, <<2>>, <<3>>, <<1, 2>>, <<1, 3>>, <<1, 2, 3>>})
=============================================================================

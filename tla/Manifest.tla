------------------------------ MODULE Manifest ------------------------------
(***************************************************************************)
(* From command-line options to the policy of a path.  The launcher turns  *)
(* -r, -w, -b, -H and --write-overlay into scopes of a tree of path        *)
(* fragments and serializes it with one hash table per node; the DLL in    *)
(* each sandboxed process walks the serialized tree, from its root or from *)
(* the cursor an earlier search left.                                      *)
(*                                                                         *)
(* A path is the sequence of its upper-cased fragments.  A fragment is the *)
(* number of characters it has, which also orders fragments.               *)
(***************************************************************************)
EXTENDS Integers, FiniteSets, SequencesExt

CONSTANTS
    Frag,           \* the fragments a path is made of
    Looked,         \* bound: the paths that are looked up
    WorkingDir, Tool, OverlayRoot,   \* paths of the invocation
    Declarable,     \* paths the -r, -w and -b options name, finitely many
    MaxOptions,     \* bound: how many -r, -w and -b options are given
    Hashes,         \* values of the 32-bit FNV-1 hash the tables tell apart
    Servers,        \* fragments that name a server: a path on one starts with \\
    TraceLengths,   \* lengths of the --trace path; 0 stands for no --trace
    DllLength       \* length of the path of the injected DLL

Paths == Seq(Frag)

ASSUME ManifestParameters ==
    /\ Frag \subseteq Nat \ {0} /\ Servers \subseteq Frag
    /\ {WorkingDir, Tool, OverlayRoot} \cup Declarable \cup Looked
         \subseteq Paths \ {<<>>}
    /\ Hashes \subseteq Nat /\ TraceLengths \subseteq Nat
    /\ {MaxOptions, DllLength} \subseteq Nat /\ IsFiniteSet(Declarable)

----------------------------------------------------------------------------
(* Policies are sets of FileAccessPolicy bits.                             *)

ReadOnly == {"AllowRead", "AllowReadIfNonExistent"}
Scratch == {"AllowWrite", "AllowCreateDirectory"}
AllowAll == ReadOnly \cup Scratch \cup {"AllowSymlinkCreation"}
MaskAll == {}
MaskNothing == AllowAll \cup {"OverrideAllowWriteForExistingFiles", "DeclaredInput"}

InputPolicy == ReadOnly \cup {"DeclaredInput"}
OutputPolicy == AllowAll \cup {"DeclaredInput"}
OutputDirPolicy == ReadOnly \cup Scratch \cup {"DeclaredInput"}
WorkingDirPolicy(o) ==
    (IF o.hermetic THEN {} ELSE ReadOnly) \cup
    (IF o.writeOverlay
        THEN Scratch \cup {"OverrideAllowWriteForExistingFiles"} ELSE {})

----------------------------------------------------------------------------
VARIABLES
    phase,    \* how far the launcher got
    opts,     \* the options of the invocation
    hash,     \* the hash of each fragment, as builder and DLL compute it
    tree,     \* ManifestBuilder: the scope accumulators of each node
    todo,     \* the output directories main has yet to create
    dirs,     \* directories that exist at or below the working directory
    out,      \* how many bytes of the payload are written
    payload,  \* the serialized records, by the path of their node
    cursor    \* the search a PolicyResult holds: its path, record, truncation

vars == <<phase, opts, hash, tree, todo, dirs, out, payload, cursor>>

NewNode == [coneMask |-> MaskNothing, coneValues |-> {},
            nodeMask |-> MaskNothing, nodeValues |-> {}]
TreeRoot == [path |-> <<>>, rec |-> <<>>, truncated |-> FALSE]
NoPayload == [n \in {} |-> {}]

(* A path on a server keeps its leading separators in the first fragment   *)
(* the DLL takes from it, and those no fragment of the builder has.        *)
WithSeparators(f) == 0 - f

Init ==
    /\ phase = "root"
    /\ opts \in [hermetic : BOOLEAN, writeOverlay : BOOLEAN, trace : TraceLengths,
                 r : SUBSET Declarable, w : SUBSET Declarable, b : SUBSET Declarable]
    /\ Cardinality(opts.r) + Cardinality(opts.w) + Cardinality(opts.b) <= MaxOptions
    /\ hash \in [Frag \cup {WithSeparators(f) : f \in Servers} -> Hashes]
    /\ tree = [n \in {<<>>} |-> NewNode]
    /\ todo = {} /\ dirs = {WorkingDir}
    /\ out = 0 /\ payload = NoPayload
    /\ cursor = TreeRoot

TypeOK ==
    /\ phase \in {"root", "cwd", "tool", "r", "w", "b", "find", "mkdir", "ov",
                  "build", "serialize", "run", "dead"}
    /\ DOMAIN tree \subseteq Paths
    /\ \A n \in DOMAIN tree : Prefixes(n) \subseteq DOMAIN tree
    /\ \A n \in DOMAIN tree :
         /\ {tree[n].coneMask, tree[n].coneValues} \subseteq SUBSET MaskNothing
         /\ {tree[n].nodeMask, tree[n].nodeValues} \subseteq SUBSET MaskNothing
    /\ todo \cup dirs \subseteq Paths
    /\ out \in Nat
    /\ phase = "run" => DOMAIN payload = DOMAIN tree /\ cursor.rec \in DOMAIN payload

----------------------------------------------------------------------------
(* Building the tree: main calls AddScope and AddNodeScope in this order.  *)

(* Mutant: only the leaf of a path becomes a node.                         *)
AddPathFragmentsLeaf(t, P) == t @@ [n \in P |-> NewNode]

AddPathFragments(t, P) ==
    [n \in DOMAIN t \cup UNION {Prefixes(p) : p \in P} |->
      IF n \in DOMAIN t THEN t[n] ELSE NewNode]

(* The same scope for each path of P; the order of the calls makes no      *)
(* difference, nor does a path named twice.                                *)
AddScope(t, P, mask, values) ==
    LET grown == AddPathFragments(t, P)
    IN  [n \in DOMAIN grown |->
          IF n \in P
          THEN [grown[n] EXCEPT !.coneMask = @ \cap mask, !.coneValues = @ \cup values]
          ELSE grown[n]]

AddNodeScope(t, P, mask, values) ==
    LET grown == AddPathFragments(t, P)
    IN  [n \in DOMAIN grown |->
          IF n \in P
          THEN [grown[n] EXCEPT !.nodeMask = @ \cap mask, !.nodeValues = @ \cup values]
          ELSE grown[n]]

Scopes(at, next, t) ==
    /\ phase = at
    /\ phase' = next
    /\ tree' = t
    /\ UNCHANGED <<opts, hash, todo, dirs, out, payload, cursor>>

AddRootScope ==
    Scopes("root", "cwd", AddScope(tree, {<<>>}, MaskAll, ReadOnly))
AddWorkingDir ==
    Scopes("cwd", "tool", AddScope(tree, {WorkingDir}, MaskAll, WorkingDirPolicy(opts)))
AddTool == Scopes("tool", "r", AddScope(tree, {Tool}, MaskAll, InputPolicy))
AddReadonlyFiles == Scopes("r", "w", AddScope(tree, opts.r, MaskAll, InputPolicy))
AddWritableFiles == Scopes("w", "b", AddScope(tree, opts.w, MaskAll, OutputPolicy))
AddBlockedFiles == Scopes("b", "find", AddScope(tree, opts.b, MaskAll, {}))

(* The ancestors of the declared outputs strictly below the working        *)
(* directory.                                                              *)
OutputDirs(o) ==
    {d \in UNION {Prefixes(p) \ {p} : p \in o.w} : IsStrictPrefix(WorkingDir, d)}

FindOutputDirs ==
    /\ phase = "find"
    /\ phase' = "mkdir"
    /\ todo' = OutputDirs(opts)
    /\ UNCHANGED <<opts, hash, tree, dirs, out, payload, cursor>>

AddCharacters(n, f) == n + f + 1
TextLength(p) == FoldLeft(AddCharacters, 0, p) - 1

(* Mutant: the deepest directory first.                                    *)
MayComeFirstReversed(d, D) == \A e \in D : TextLength(e) <= TextLength(d)

(* main sorts by the length of the text and leaves open which of two       *)
(* directories of one length comes first.                                  *)
MayComeFirst(d, D) == \A e \in D : TextLength(d) <= TextLength(e)

(* CreateDirectoryW fails, silently, where the parent does not exist.      *)
CreateOutputDir(d) ==
    /\ phase = "mkdir"
    /\ d \in todo /\ MayComeFirst(d, todo)
    /\ todo' = todo \ {d}
    /\ dirs' = IF Front(d) \in dirs THEN dirs \cup {d} ELSE dirs
    /\ UNCHANGED <<phase, opts, hash, tree, out, payload, cursor>>

AddOutputDirs ==
    /\ todo = {}
    /\ Scopes("mkdir", "ov",
              AddNodeScope(tree, OutputDirs(opts), MaskAll, OutputDirPolicy))

AddOverlayRoot ==
    Scopes("ov", "build",
           AddScope(tree, IF opts.writeOverlay THEN {OverlayRoot} ELSE {}, MaskAll,
                    AllowAll))

(* Any of these calls may refuse its path; main then exits.                *)
BadPath ==
    /\ \/ phase \in {"cwd", "tool"}
       \/ phase = "r" /\ opts.r # {}
       \/ phase = "w" /\ opts.w # {}
       \/ phase = "b" /\ opts.b # {}
       \/ phase = "mkdir" /\ todo = {} /\ OutputDirs(opts) # {}
       \/ phase = "ov" /\ opts.writeOverlay
    /\ phase' = "dead"
    /\ UNCHANGED <<opts, hash, tree, todo, dirs, out, payload, cursor>>

Dead == phase = "dead" /\ UNCHANGED vars

----------------------------------------------------------------------------
(* Serializing the tree.                                                   *)

Pad4(n) == 4 * ((n + 3) \div 4)

(* A fragment with its NUL; the root has a zero word instead.              *)
FragmentBytes(n) == IF n = <<>> THEN 4 ELSE 2 * (Last(n) + 1)

Children(n) == {f \in Frag : Append(n, f) \in DOMAIN tree}

(* childCount / 0.7, truncated.                                            *)
BucketCount(n) == (10 * Cardinality(Children(n))) \div 7

(* An empty slot has no child; otherwise low holds the bits of the child's *)
(* offset the chain flags share.                                           *)
NoChild == 0
EmptySlot == [child |-> NoChild, low |-> 0, start |-> FALSE, continuation |-> FALSE]

Slot(buckets, home, k) == ((home + k) % Len(buckets)) + 1

(* Mutant: the home slot of a displaced child is not marked a chain start. *)
PlaceChildNoStart(buckets, f, offset) ==
    LET Free(k) == buckets[Slot(buckets, hash[f], k)].child = NoChild
        k0 == CHOOSE k \in 0 .. Len(buckets) - 1 :
                Free(k) /\ \A j \in 0 .. k - 1 : ~ Free(j)
    IN  [buckets EXCEPT ![Slot(buckets, hash[f], k0)] =
          [EmptySlot EXCEPT !.child = f, !.low = offset % 4]]

(* Linear probing from the home slot: the home slot taken by another is    *)
(* marked a chain start, the slots passed after it continuations.          *)
PlaceChild(buckets, f, offset) ==
    LET home == hash[f]
        At(k) == Slot(buckets, home, k)
        Free(k) == buckets[At(k)].child = NoChild
        k0 == CHOOSE k \in 0 .. Len(buckets) - 1 :
                Free(k) /\ \A j \in 0 .. k - 1 : ~ Free(j)
        passed == {At(j) : j \in 1 .. k0 - 1}
    IN  [i \in DOMAIN buckets |->
          IF i = At(k0)
          THEN [EmptySlot EXCEPT !.child = f, !.low = offset % 4]
          ELSE [buckets[i] EXCEPT
                 !.start = @ \/ (k0 > 0 /\ i = At(0)),
                 !.continuation = @ \/ i \in passed]]

(* Mutant: no padding after the path.                                      *)
PathBlockUnpadded(length) == 4 + (IF length = 0 THEN 0 ELSE 2 * (length + 1))

(* A path block: a size word, then the NUL-terminated path and its padding. *)
PathBlock(length) == 4 + (IF length = 0 THEN 0 ELSE Pad4(2 * (length + 1)))

PaddedAnsiLength(length) == 4 * ((length + 4) \div 4)

TreeStart ==
    8 + PathBlock(opts.trace) + 16 + 2 * PaddedAnsiLength(DllLength)
      + PathBlock(IF opts.writeOverlay THEN TextLength(OverlayRoot) ELSE 0)
      + PathBlock(IF opts.writeOverlay THEN TextLength(WorkingDir) ELSE 0)

(* The blocks before the tree.                                             *)
Build ==
    /\ phase = "build"
    /\ phase' = "serialize"
    /\ out' = TreeStart
    /\ UNCHANGED <<opts, hash, tree, todo, dirs, payload, cursor>>

(* The order in which SerializeNode and Finalize come to the nodes: a node *)
(* before the nodes below it, and those of one child before the next's.    *)
Precedes(a, b) ==
    \/ IsStrictPrefix(a, b)
    \/ \E i \in 1 .. Len(a) : /\ i <= Len(b) /\ a[i] < b[i]
                              /\ SubSeq(a, 1, i - 1) = SubSeq(b, 1, i - 1)

(* Finalize: the policies of a node, from what its parent's cone has.      *)
ConePolicy(n) ==
    ((IF n = <<>> THEN {} ELSE payload[Front(n)].cone) \cap tree[n].coneMask)
        \cup tree[n].coneValues
NodePolicy(n) == (ConePolicy(n) \cap tree[n].nodeMask) \cup tree[n].nodeValues

(* One call of SerializeNode up to its loop over the children, with the    *)
(* turn of that loop, in the call for the parent, that makes the call.     *)
SerializeNode(n) ==
    LET header == out + 16 + 4 * BucketCount(n)
        parent == IF n = <<>> THEN {} ELSE {Front(n)}
    IN  /\ phase = "serialize"
        /\ n \in DOMAIN tree \ DOMAIN payload
        /\ \A m \in DOMAIN tree \ DOMAIN payload : m = n \/ Precedes(n, m)
        /\ payload' = [m \in DOMAIN payload \cup {n} |->
              IF m = n
              THEN [start |-> out, cone |-> ConePolicy(n), node |-> NodePolicy(n),
                    buckets |-> [i \in 1 .. BucketCount(n) |-> EmptySlot]]
              ELSE [payload[m] EXCEPT !.buckets =
                     IF m \in parent THEN PlaceChild(@, Last(n), out - payload[m].start)
                     ELSE @]]
        /\ out' = IF n = <<>> THEN header + FragmentBytes(n)
                  ELSE Pad4(header + FragmentBytes(n))
        /\ phase' = IF DOMAIN payload' = DOMAIN tree THEN "run" ELSE "serialize"
        /\ UNCHANGED <<opts, hash, tree, todo, dirs, cursor>>

----------------------------------------------------------------------------
(* Searching the serialized tree.                                          *)

(* The slots FindChild looks at: the home slot, and if a chain starts      *)
(* there the slots after it as long as the one before continues the chain. *)
FindChild(rec, f) ==
    LET buckets == payload[rec].buckets
        At(k) == buckets[Slot(buckets, hash[f], k)]
        Reached(k) == k = 0 \/ (At(0).start /\ \A j \in 1 .. k - 1 : At(j).continuation)
    IN  \E k \in 0 .. Len(buckets) - 1 : At(k).child = f /\ Reached(k)

(* One turn of the search: it ends at a leaf or where no child is found.   *)
Descend(c, f) ==
    IF c.truncated THEN c
    ELSE IF payload[c.rec].buckets # <<>> /\ FindChild(c.rec, f)
         THEN [c EXCEPT !.rec = Append(@, f)]
         ELSE [c EXCEPT !.truncated = TRUE]

FindFileAccessPolicyInTreeEx(from, fragments) == FoldLeft(Descend, from, fragments)

(* GetPartialPathAndRemainder counts leading separators to the fragment.   *)
Fragments(p) ==
    IF p # <<>> /\ Head(p) \in Servers THEN <<WithSeparators(Head(p))>> \o Tail(p) ELSE p

Policy(c) ==
    IF c.truncated THEN payload[c.rec].cone ELSE payload[c.rec].node

(* PolicyResult::Initialize: a new search from the root of the tree.       *)
Initialize(p) ==
    /\ phase = "run"
    /\ cursor = TreeRoot
    /\ cursor' = [FindFileAccessPolicyInTreeEx(TreeRoot, Fragments(p)) EXCEPT !.path = p]
    /\ UNCHANGED <<phase, opts, hash, tree, todo, dirs, out, payload>>

(* PolicyResult::GetPolicyForSubpath: the search resumed for a child.      *)
GetPolicyForSubpath(f) ==
    /\ phase = "run"
    /\ cursor # TreeRoot /\ Append(cursor.path, f) \in Looked
    /\ cursor' = [FindFileAccessPolicyInTreeEx(cursor, <<f>>)
                   EXCEPT !.path = Append(@, f)]
    /\ UNCHANGED <<phase, opts, hash, tree, todo, dirs, out, payload>>

(* The caller is done with its PolicyResult; searches share nothing.       *)
Release ==
    /\ phase = "run"
    /\ cursor # TreeRoot
    /\ cursor' = TreeRoot
    /\ UNCHANGED <<phase, opts, hash, tree, todo, dirs, out, payload>>

Next ==
    \/ AddRootScope \/ AddWorkingDir \/ AddTool
    \/ AddReadonlyFiles \/ AddWritableFiles \/ AddBlockedFiles
    \/ FindOutputDirs \/ AddOutputDirs \/ AddOverlayRoot \/ BadPath \/ Dead
    \/ \E d \in todo : CreateOutputDir(d)
    \/ Build
    \/ \E n \in DOMAIN tree : SerializeNode(n)
    \/ \E p \in Looked : Initialize(p)
    \/ \E f \in Frag : GetPolicyForSubpath(f)
    \/ Release

Spec == Init /\ [][Next]_vars

----------------------------------------------------------------------------
(* The policy the options give path p, without the tree: the grant of the  *)
(* deepest scope at or above it, where the options that name one path add  *)
(* up, and the fixed grant of an output directory for that directory only. *)
Given(condition, values) == IF condition THEN values ELSE {}

Granted(o, q) ==
    UNION {Given(q = WorkingDir, WorkingDirPolicy(o)),
           Given(q = Tool \/ q \in o.r, InputPolicy),
           Given(q \in o.w, OutputPolicy),
           Given(q = OverlayRoot /\ o.writeOverlay, AllowAll),
           Given(q = <<>>, ReadOnly)}

Scoped(o) == {<<>>, WorkingDir, Tool} \cup o.r \cup o.w \cup o.b \cup
             (IF o.writeOverlay THEN {OverlayRoot} ELSE {})

Expected(o, p) ==
    IF p \in OutputDirs(o) THEN OutputDirPolicy
    ELSE LET q == CHOOSE q \in Scoped(o) \cap Prefixes(p) :
                    \A s \in Scoped(o) \cap Prefixes(p) : Len(s) <= Len(q)
         IN  Granted(o, q)

(* Every search, from the root or resumed in any number of steps, whatever *)
(* the hash tables' collisions, ends with the policy the options give the  *)
(* path: what ManifestBuilder writes and what FindFileAccessPolicyInTreeEx *)
(* and FindChild read agree.                                               *)
PolicyAsDeclared ==
    phase = "run" /\ cursor.path # <<>> => Policy(cursor) = Expected(opts, cursor.path)

(* The assertion of SerializeNode: no child offset has a bit the chain     *)
(* flags use, whatever the lengths of the paths serialized before it.      *)
OffsetsLeaveFlagsFree ==
    \A n \in DOMAIN payload : \A i \in DOMAIN payload[n].buckets :
        payload[n].buckets[i].low = 0

(* When the tool starts, every directory between the working directory and *)
(* a declared output exists on disk and grants reading and making entries, *)
(* whatever else -r, -w and -b say of it: the tool's recursive mkdir of an *)
(* output's parent succeeds.                                               *)
OutputDirsReady ==
    phase = "run" =>
        \A p \in opts.w : \A d \in Prefixes(p) \ {p} :
            IsStrictPrefix(WorkingDir, d) =>
                d \in dirs /\ ReadOnly \cup Scratch \subseteq payload[d].node

=============================================================================

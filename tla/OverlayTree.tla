---------------------------- MODULE OverlayTree ----------------------------
(***************************************************************************)
(* Directories of the write overlay and the names by which a process       *)
(* reaches them.  The backing store mirrors the execroot: a scratch        *)
(* directory exists there only, an ancestor of a scratch file may exist in *)
(* both trees.  A process whose current directory is a scratch directory   *)
(* has the backing directory in its PEB, so the system resolves its        *)
(* relative names against the backing store before any hook sees them; the *)
(* hooks map such a place back to the virtual one when it is absent.       *)
(*                                                                         *)
(* A place is what a hook is given: a layer and a path.  Each hook is one  *)
(* step here; WriteOverlay has the interleavings within a hook.            *)
(***************************************************************************)
EXTENDS Naturals, Sequences, SequencesExt

CONSTANTS
    Procs, Root,    \* processes of the action; the one the launcher starts
    Paths,          \* paths below the working directory, << >> included
    Kind,           \* what the manifest says of each path
    LongPaths,      \* paths whose backing path reaches MAX_PATH
    Disks,          \* what may be in the execroot before the action
    Workload        \* classes of calls the processes make

Parent(p) == SubSeq(p, 1, Len(p) - 1)
Above == [p \in Paths |-> {q \in Paths : IsStrictPrefix(q, p)}]
Upwards == [p \in Paths |-> Above[p] \cup {p}]
Kinds == {"scratch", "input", "output"}
CallClasses == {"dir", "file", "move", "movedir", "handle", "process"}

ASSUME PathsAssumption ==
    /\ << >> \in Paths
    /\ \A p \in Paths : p \in Seq(STRING) /\ Parent(p) \in Paths
    /\ Kind \in [Paths -> Kinds] /\ Kind[<< >>] = "scratch"
    /\ LongPaths \subseteq Paths
ASSUME ProcsAssumption == Root \in Procs /\ Workload \subseteq CallClasses

Layers == {"real", "back"}
Types == {"none", "dir", "file"}
Places == [layer : Layers, at : Paths]
Virtual(p) == [layer |-> "real", at |-> p]
Dispositions == {"CREATE_NEW", "CREATE_ALWAYS", "OPEN_EXISTING",
                 "OPEN_ALWAYS", "TRUNCATE_EXISTING"}

\* A current directory as the PEB has it; "extended" is the \\?\ form.
Unborn == [layer |-> "unborn", at |-> << >>, form |-> "plain"]
Windows == [layer |-> "windows", at |-> << >>, form |-> "plain"]
CurrentDirs == [layer : Layers, at : Paths, form : {"plain", "extended"}]

VARIABLES
    tree,           \* tree[layer][path]: what is there on disk
    cwd,            \* the current directory of each process
    filterInputs    \* --filter-inputs, fixed by the manifest

vars == <<tree, cwd, filterInputs>>

Present(l, p) == tree[l][p] # "none"
IsDir(l, p) == tree[l][p] = "dir"
WellFormed(t) ==
    /\ t[<< >>] = "dir"
    /\ \A p \in Paths : t[p] # "none" => t[Parent(p)] = "dir"

BareRoot == [p \in Paths |-> IF p = << >> THEN "dir" ELSE "none"]

ASSUME DisksAssumption ==
    Disks # {} /\ \A t \in Disks : t \in [Paths -> Types] /\ WellFormed(t)

Init ==
    /\ \E t \in Disks : tree = [l \in Layers |-> IF l = "real" THEN t ELSE BareRoot]
    /\ cwd = [w \in Procs |-> IF w = Root THEN [Unborn EXCEPT !.layer = "real"]
                                          ELSE Unborn]
    /\ filterInputs \in BOOLEAN

-----------------------------------------------------------------------------
(* Policy of a place; the backing root is granted everything               *)

ShouldRedirectToOverlay(pl) == pl.layer = "real" /\ Kind[pl.at] = "scratch"
AllowWrite(pl) == ~(pl.layer = "real" /\ Kind[pl.at] = "input")
AllowRead(pl) == pl.layer = "back" \/ ~(filterInputs /\ Kind[pl.at] = "scratch")
IsExactManifestNode(p) ==
    \E q \in Paths : Kind[q] # "scratch" /\ p \in Upwards[q]
OverlayRealFileHiddenByFilter(p) ==
    filterInputs /\ Kind[p] = "scratch" /\ ~IsExactManifestNode(p)

\* Directories are always readable; a denied read is masked as not found.
CheckReadAccess(pl, outcome) ==
    \/ AllowRead(pl)
    \/ outcome = "dir"
    \/ outcome = "file" /\ ShouldRedirectToOverlay(pl) /\ Present("back", pl.at)

-----------------------------------------------------------------------------
(* Resolution of names                                                     *)

\* The places a process can name: any virtual path and, from a current
\* directory in the backing store, what a relative name is resolved to.
Named(w) ==
    CASE cwd[w] = Unborn -> {}
      [] cwd[w].layer = "back" -> Places
      [] OTHER -> {Virtual(p) : p \in Paths}

Names == UNION {Named(w) : w \in Procs}

\* Mutant: relative names left where the system resolved them.
ReverseMapNever(pl) == pl

\* ReverseMapWin32Path, ReverseMapOverlayBackingOpen.
ReverseMap(pl) ==
    IF pl.layer = "back" /\ ~Present("back", pl.at) THEN Virtual(pl.at) ELSE pl

MappedNames == {ReverseMap(name) : name \in Names}

OverlayOnly(p) == ~Present("real", p) /\ IsDir("back", p)

\* Mutant: a backing directory taken before the real one.
OpensBackingMirror(pl, write, disp) ==
    /\ ShouldRedirectToOverlay(pl)
    /\ \/ Present("back", pl.at)
       \/ write /\ ~(disp = "CREATE_NEW" /\ Present("real", pl.at))
       \/ ~write /\ OverlayOnly(Parent(pl.at))

\* Mutant: the overlay-only parent not looked at.
OpensBackingNoParent(pl, write, disp) ==
    /\ ShouldRedirectToOverlay(pl) /\ ~IsDir("real", pl.at)
    /\ \/ Present("back", pl.at)
       \/ write /\ ~(disp = "CREATE_NEW" /\ Present("real", pl.at)
                       /\ ~OverlayRealFileHiddenByFilter(pl.at))

\* ResolveOverlayOpenPath: the open is redirected to the backing path.
OpensBacking(pl, write, disp) ==
    /\ ShouldRedirectToOverlay(pl) /\ ~IsDir("real", pl.at)
    /\ \/ Present("back", pl.at)
       \/ write /\ ~(disp = "CREATE_NEW" /\ Present("real", pl.at)
                       /\ ~OverlayRealFileHiddenByFilter(pl.at))
       \/ ~write /\ OverlayOnly(Parent(pl.at))

\* Mutant: the probe goes to the real path whatever the backing store has.
ProbesNothing(pl) == FALSE

\* ResolveOverlayProbePath.
ProbesBacking(pl) == ShouldRedirectToOverlay(pl) /\ Present("back", pl.at)

\* What the system finds: the object, or which component is missing.
RealOutcome(l, p) ==
    IF Present(l, p) THEN tree[l][p]
    ELSE IF IsDir(l, Parent(p)) THEN "name not found" ELSE "path not found"

Masked(pl, outcome) ==
    IF CheckReadAccess(pl, outcome) THEN outcome ELSE "name not found"

Redirect(pl, toBacking) == IF toBacking THEN "back" ELSE pl.layer

\* CreateFileW, NtCreateFile of an existing object for reading.
ReadLayer(pl) == Redirect(pl, OpensBacking(pl, FALSE, "OPEN_EXISTING"))
OpenForRead(name) ==
    LET pl == ReverseMap(name) IN
    Masked(pl, RealOutcome(ReadLayer(pl), pl.at))

\* GetFileAttributesW, NtQueryAttributesFile.
Probe(name) ==
    LET pl == ReverseMap(name) IN
    Masked(pl, RealOutcome(Redirect(pl, ProbesBacking(pl)), pl.at))

Found(outcome) == outcome \in {"dir", "file"}

\* GetCurrentDirectoryW, GetFinalPathNameByHandleW: always a virtual path.
ReportedCurrentDirectory(w) == Virtual(cwd[w].at)

-----------------------------------------------------------------------------
(* What the real calls do to one tree                                      *)

Put(t, p, type) ==
    IF t[p] = "none" /\ t[Parent(p)] = "dir" THEN [t EXCEPT ![p] = type] ELSE t

\* EnsureBackingParentDirs: failures are ignored, a file in the way stays.
EnsureBackingParentDirs(t, p) ==
    [q \in Paths |->
       IF q \in Above[p] /\ t[q] = "none" /\ \A r \in Above[q] : t[r] # "file"
       THEN "dir" ELSE t[q]]

\* A directory that a process is in, or that has children, cannot go.
Busy(l, p) == \E w \in Procs : cwd[w].layer = l /\ p \in Upwards[cwd[w].at]
Empty(t, p) == \A q \in Paths : p \in Above[q] => t[q] = "none"
Removable(t, l, p, types) ==
    /\ t[p] \in types
    /\ t[p] = "dir" => Empty(t, p) /\ ~Busy(l, p)

SetTree(l, t) == tree' = [tree EXCEPT ![l] = t]

-----------------------------------------------------------------------------
(* Hooks that create                                                       *)

\* The name is not mapped back, and the real entry is not looked at.
CreateDirectoryW(pl) ==
    /\ "dir" \in Workload /\ AllowWrite(pl)
    /\ IF ShouldRedirectToOverlay(pl)
       THEN SetTree("back", Put(EnsureBackingParentDirs(tree["back"], pl.at), pl.at, "dir"))
       ELSE SetTree(pl.layer, Put(tree[pl.layer], pl.at, "dir"))
    /\ UNCHANGED <<cwd, filterInputs>>

\* What the tree opened holds once an open for writing or deleting is done.  A
\* copy-up makes the backing file exist as a creating disposition does.
WriteLayer(pl, disp) == Redirect(pl, OpensBacking(pl, TRUE, disp))
Opened(pl, disp) ==
    LET p == pl.at
        creates == disp \notin {"OPEN_EXISTING", "TRUNCATE_EXISTING"}
        copyUp == disp = "OPEN_EXISTING" /\ tree["real"][p] = "file"
        parents == EnsureBackingParentDirs(tree["back"], p)
    IN
    IF OpensBacking(pl, TRUE, disp)
    THEN IF creates \/ copyUp THEN Put(parents, p, "file") ELSE parents
    ELSE IF creates THEN Put(tree[pl.layer], p, "file") ELSE tree[pl.layer]

\* CreateFileW, NtCreateFile for writing.
CreateFileW(pl, disp) ==
    /\ "file" \in Workload /\ AllowWrite(pl)
    /\ SetTree(WriteLayer(pl, disp), Opened(pl, disp))
    /\ UNCHANGED <<cwd, filterInputs>>

-----------------------------------------------------------------------------
(* Hooks that remove                                                       *)

\* ResolveOverlayDelete.
DeleteAction(pl) ==
    LET p == pl.at
        hidden == OverlayRealFileHiddenByFilter(p)
    IN
    CASE ~ShouldRedirectToOverlay(pl) -> "PassThrough"
      [] ShouldRedirectToOverlay(pl) /\ Present("real", p) /\ ~hidden -> "DenyAccess"
      [] ShouldRedirectToOverlay(pl) /\ Present("back", p)
           /\ (Present("real", p) => hidden) -> "RedirectToBacking"
      [] ShouldRedirectToOverlay(pl) /\ ~Present("back", p)
           /\ Present("real", p) /\ hidden -> "NotFound"
      [] OTHER -> "PassThrough"

RemovalLayer(pl) == Redirect(pl, DeleteAction(pl) = "RedirectToBacking")
Removes(pl) == DeleteAction(pl) \in {"RedirectToBacking", "PassThrough"}

RealRemove(pl, type) ==
    LET l == RemovalLayer(pl) IN
    /\ AllowWrite(pl) /\ Removes(pl) /\ Removable(tree[l], l, pl.at, {type})
    /\ SetTree(l, [tree[l] EXCEPT ![pl.at] = "none"])
    /\ UNCHANGED <<cwd, filterInputs>>

\* The name is not mapped back.
RemoveDirectoryW(pl) ==
    /\ "dir" \in Workload /\ pl.at # << >>
    /\ RealRemove(pl, "dir")

DeleteFileW(pl) ==
    /\ "file" \in Workload
    /\ RealRemove(pl, "file")

-----------------------------------------------------------------------------
(* Moves                                                                   *)

\* The subtree at s of tree a goes to d of tree b; what the bound on paths
\* cannot hold below d is cut off.
Below(s, d, p) == s \o SubSeq(p, Len(d) + 1, Len(p))
Grafted(a, s, b, d) ==
    [p \in Paths |->
       IF d \in Upwards[p]
       THEN IF Below(s, d, p) \in Paths THEN a[Below(s, d, p)] ELSE "none"
       ELSE b[p]]
Pruned(t, s) == [p \in Paths |-> IF s \in Upwards[p] THEN "none" ELSE t[p]]

\* MoveFileEx of the system, within a volume, on the trees t.  A file replaces a
\* file; a call that may not replace it changes as much as one that fails.
RealMove(t, ls, s, ld, d) ==
    IF /\ t[ls][s] # "none" /\ s # << >> /\ d # << >>
       /\ t[ls][s] = "dir" => ~Busy(ls, s)
       /\ ~(ls = ld /\ s \in Upwards[d])
       /\ t[ld][Parent(d)] = "dir"
       /\ \/ t[ld][d] = "none"
          \/ t[ls][s] = "file" /\ t[ld][d] = "file"
    THEN LET grafted == [t EXCEPT ![ld] = Grafted(t[ls], s, t[ld], d)]
         IN [grafted EXCEPT ![ls] = Pruned(grafted[ls], s)]
    ELSE t

\* ValidateMoveDirectory: every entry of a moved directory may be written.
ChildrenWritable(src, dst) ==
    \A q \in Paths :
      src.at \in Above[q] /\ Present(src.layer, q) =>
        /\ AllowWrite([src EXCEPT !.at = q])
        /\ LET moved == dst.at \o SubSeq(q, Len(src.at) + 1, Len(q))
           IN moved \in Paths => AllowWrite([dst EXCEPT !.at = moved])

\* A directory that is there by its mapped name is moved as it is, past the
\* overlay.
MoveDirectory(src, dst) ==
    /\ "movedir" \in Workload /\ AllowWrite(src) /\ AllowWrite(dst)
    /\ IsDir(src.layer, src.at) /\ ChildrenWritable(src, dst)
    /\ tree' = RealMove(tree, src.layer, src.at, dst.layer, dst.at)
    /\ UNCHANGED <<cwd, filterInputs>>

\* Everything else is resolved, its backing parents created first: files, and
\* scratch directories by their virtual name.  A move of what is not there
\* changes as much as an open of it.
MoveFileWithProgress(src, dst) ==
    LET intoBacking == ShouldRedirectToOverlay(dst)
        prepared == IF intoBacking
                    THEN [tree EXCEPT !["back"] = EnsureBackingParentDirs(@, dst.at)]
                    ELSE tree
    IN
    /\ "move" \in Workload /\ AllowWrite(src) /\ AllowWrite(dst)
    /\ ~IsDir(src.layer, src.at) /\ Removes(src)
    /\ Present(RemovalLayer(src), src.at)
    /\ tree' = RealMove(prepared, RemovalLayer(src), src.at,
                        Redirect(dst, intoBacking), dst.at)
    /\ UNCHANGED <<cwd, filterInputs>>

-----------------------------------------------------------------------------
(* Deletions and renames through a handle that was opened for DELETE       *)

\* What the handle is on: inside a hook its final path is the physical one.
Held(pl) == [layer |-> WriteLayer(pl, "OPEN_EXISTING"), at |-> pl.at]
OpenedForDelete(pl) ==
    [tree EXCEPT ![Held(pl).layer] = Opened(pl, "OPEN_EXISTING")]

\* Mutant: the overlay not asked about the file of the handle.
MayActThroughAny(held) == AllowWrite(held)

\* The handlers take only a denial from the overlay; they act on the file of
\* the handle whatever else it says.
MayActThrough(held) == AllowWrite(held) /\ DeleteAction(held) # "DenyAccess"

\* FileDispositionInfo.
DeleteUsingSetFileInformationByHandle(pl) ==
    LET held == Held(pl)
        t == OpenedForDelete(pl)
    IN
    /\ "handle" \in Workload /\ pl.at # << >>
    /\ AllowWrite(pl) /\ MayActThrough(held)
    /\ Removable(t[held.layer], held.layer, held.at, {"dir", "file"})
    /\ tree' = [t EXCEPT ![held.layer][held.at] = "none"]
    /\ UNCHANGED <<cwd, filterInputs>>

\* FileRenameInfo: the new name is redirected but not mapped back.
RenameUsingSetFileInformationByHandle(pl, dst) ==
    LET held == Held(pl)
        t == OpenedForDelete(pl)
        intoBacking == ShouldRedirectToOverlay(dst)
        prepared == IF intoBacking
                    THEN [t EXCEPT !["back"] = EnsureBackingParentDirs(@, dst.at)]
                    ELSE t
    IN
    /\ "handle" \in Workload
    /\ AllowWrite(pl) /\ AllowWrite(dst) /\ MayActThrough(held)
    /\ t[held.layer][held.at] # "none"
    /\ t[held.layer][held.at] = "dir" => ChildrenWritable(held, dst)
    /\ tree' = RealMove(prepared, held.layer, held.at,
                        Redirect(dst, intoBacking), dst.at)
    /\ UNCHANGED <<cwd, filterInputs>>

-----------------------------------------------------------------------------
(* Current directories and child processes                                 *)

\* The open that SetCurrentDirectory makes is hooked; a redirected one leaves
\* the extended form in the PEB, a relative one what was there.
SetCurrentDirectoryW(w, name) ==
    LET pl == ReverseMap(name)
        l == ReadLayer(pl)
        form == CASE l = "real" -> "plain"
                  [] l = "back" /\ pl.layer = "real" -> "extended"
                  [] OTHER -> cwd[w].form
    IN
    /\ "process" \in Workload /\ cwd[w] # Unborn
    /\ OpenForRead(name) = "dir"
    /\ cwd' = [cwd EXCEPT ![w] = [layer |-> l, at |-> pl.at, form |-> form]]
    /\ UNCHANGED <<tree, filterInputs>>

\* Mutant: the backing path handed to the child as it is.
ExtendedChildPath(p) == [layer |-> "back", at |-> p, form |-> "extended"]

\* The backing path without its prefix, unless it is too long for that.
PlainOverlayChildPath(p) ==
    [layer |-> "back", at |-> p,
     form |-> IF p \in LongPaths THEN "extended" ELSE "plain"]

\* The current directory argument of CreateProcess, which may be absent.
Inherit == [layer |-> "none", at |-> << >>]

InheritedOverlayWorkingDirectory(w) ==
    IF cwd[w].layer = "back" THEN PlainOverlayChildPath(cwd[w].at) ELSE cwd[w]

\* A name that is not redirected is left to the system as it is.
ResolveOverlayWorkingDirectory(w, dir) ==
    CASE dir = Inherit -> InheritedOverlayWorkingDirectory(w)
      [] dir # Inherit /\ OpensBacking(dir, FALSE, "OPEN_EXISTING")
           -> PlainOverlayChildPath(dir.at)
      [] OTHER -> [layer |-> dir.layer, at |-> dir.at,
                   form |-> IF dir.layer = "back" THEN cwd[w].form ELSE "plain"]

\* The image is redirected before it is checked; its name is not mapped back.
ImageLoads(image) ==
    LET redirected == OpensBacking(image, FALSE, "OPEN_EXISTING")
        outcome == RealOutcome(Redirect(image, redirected), image.at)
    IN outcome = "file" /\ (redirected \/ CheckReadAccess(image, outcome))

\* Where the child starts; cmd.exe takes no extended current directory and
\* starts in the Windows directory instead.
ChildDirectory(w, dir, isCmd) ==
    LET d == ResolveOverlayWorkingDirectory(w, dir) IN
    IF isCmd /\ d.form = "extended" THEN Windows ELSE d

\* Mutant: the current directory left to fail or not in the child.
ChildStartsAnyway(w, image, dir) == ImageLoads(image)

ChildStarts(w, image, dir) ==
    LET d == ResolveOverlayWorkingDirectory(w, dir) IN
    ImageLoads(image) /\ (d.layer = "windows" \/ IsDir(d.layer, d.at))

CreateProcessW(w, child, dir, isCmd) ==
    /\ "process" \in Workload /\ cwd[w] # Unborn /\ cwd[child] = Unborn
    /\ TRUE \in {ChildStarts(w, image, dir) : image \in Named(w)}
    /\ cwd' = [cwd EXCEPT ![child] = ChildDirectory(w, dir, isCmd)]
    /\ UNCHANGED <<tree, filterInputs>>

ExitProcess(w) ==
    /\ w # Root /\ cwd[w] # Unborn
    /\ cwd' = [cwd EXCEPT ![w] = Unborn]
    /\ UNCHANGED <<tree, filterInputs>>

-----------------------------------------------------------------------------
FileCalls ==
    \/ \E name \in Names : CreateDirectoryW(name) \/ RemoveDirectoryW(name)
    \/ \E pl \in MappedNames :
         \/ \E disp \in Dispositions : CreateFileW(pl, disp)
         \/ DeleteFileW(pl) \/ DeleteUsingSetFileInformationByHandle(pl)
         \/ \E dst \in MappedNames :
              MoveDirectory(pl, dst) \/ MoveFileWithProgress(pl, dst)
         \/ \E name \in Names : RenameUsingSetFileInformationByHandle(pl, name)

ProcessCalls(w) ==
    \/ \E pl \in Named(w) : SetCurrentDirectoryW(w, pl)
    \/ \E child \in Procs, dir \in Named(w) \cup {Inherit}, isCmd \in BOOLEAN :
         CreateProcessW(w, child, dir, isCmd)
    \/ ExitProcess(w)

Next == FileCalls \/ \E w \in Procs : ProcessCalls(w)

Spec == Init /\ [][Next]_vars
-----------------------------------------------------------------------------
(* What must hold                                                          *)

\* Both trees are trees, and the current directory of a process is there.
TypeOK ==
    /\ tree \in [Layers -> [Paths -> Types]]
    /\ \A l \in Layers : WellFormed(tree[l])
    /\ cwd \in [Procs -> CurrentDirs \cup {Unborn, Windows}]
    /\ \A w \in Procs : cwd[w].layer \in Layers => IsDir(cwd[w].layer, cwd[w].at)
    /\ filterInputs \in BOOLEAN

\* Two steps pass the overlay by: a move of a directory
\* (DetouredFunctions.cpp:2900), and a call on the handle of a real directory
\* that the filter hides (DetouredFunctions.cpp:972 takes NotFound for leave).
HiddenDirectory(pl) ==
    pl.layer = "real" /\ IsDir("real", pl.at) /\ OverlayRealFileHiddenByFilter(pl.at)
PassesOverlayBy ==
    \E pl \in MappedNames :
      \/ \E dst \in MappedNames : MoveDirectory(pl, dst)
      \/ HiddenDirectory(pl) /\ DeleteUsingSetFileInformationByHandle(pl)
      \/ /\ HiddenDirectory(pl)
         /\ \E name \in Names : RenameUsingSetFileInformationByHandle(pl, name)

\* Whatever else a tool creates, removes, moves or enters, by whatever names and
\* through whatever handles, nothing appears, vanishes or changes its type on
\* the real disk outside the declared outputs.
RealTreeUntouched ==
    [][(\E p \in Paths :
          Kind[p] # "output" /\ tree'["real"][p] # tree["real"][p]) => PassesOverlayBy]_vars

\* A name that is a directory in one layer and a file in the other: a
\* directory created over a real file, a file moved onto a real directory.
Clash(p) == /\ Present("real", p) /\ Present("back", p)
            /\ tree["real"][p] # tree["back"][p]

\* In a process whose current directory is a scratch directory, a relative
\* name denotes what the absolute name of the same logical path does: the same
\* object, or an error that means the same (overlay_engine.cpp:155).
NamesAgree ==
    \A w \in Procs : \A pl \in Named(w) :
      Kind[pl.at] = "scratch" /\ ~Clash(pl.at) =>
        /\ OpenForRead(pl) = OpenForRead(Virtual(pl.at))
        /\ Found(Probe(pl)) = Found(Probe(Virtual(pl.at)))

\* A probe and an open of one name agree on what is there, under the filter
\* too (overlay_engine.cpp:169 tells of a runtime that broke when they did not).
StatAgreesWithOpen ==
    \A w \in Procs : \A pl \in Named(w) :
      Kind[pl.at] = "scratch" /\ ~Clash(pl.at) =>
        LET stat == Probe(pl)
            open == OpenForRead(pl)
        IN Found(stat) = Found(open) /\ (Found(stat) => stat = open)

\* A scratch file that is missing from a directory the tool can see is
\* reported as a missing leaf, never as a missing directory, also when that
\* directory is in the backing store only (overlay_engine.cpp:493).
MissingLeaf ==
    \A p \in Paths :
      Kind[p] = "scratch" /\ ~Clash(Parent(p))
        /\ OpenForRead(Virtual(Parent(p))) = "dir"
        => OpenForRead(Virtual(p)) # "path not found"

\* A child can be started from every file the tool can read and in every
\* directory it can see or is in; it starts there, cmd.exe too when the
\* backing path is short enough.
ChildStartsWhereAsked ==
    \A w \in Procs : \A image, p \in Paths : \A isCmd \in BOOLEAN :
      OpenForRead(Virtual(image)) = "file" =>
        /\ OpenForRead(Virtual(p)) = "dir" =>
             /\ ChildStarts(w, Virtual(image), Virtual(p))
             /\ p \notin LongPaths =>
                  ChildDirectory(w, Virtual(p), isCmd).at = p
                  /\ ChildDirectory(w, Virtual(p), isCmd) # Windows
        /\ cwd[w].layer \in Layers =>
             /\ ChildStarts(w, Virtual(image), Inherit)
             /\ cwd[w].at \notin LongPaths =>
                  /\ ChildDirectory(w, Inherit, isCmd).layer = cwd[w].layer
                  /\ ChildDirectory(w, Inherit, isCmd).at = cwd[w].at

\* The current directory a process is told about can be opened, and leads to
\* the scratch directory it is in, not to another directory of that name.
ReportedCwdLeadsBack ==
    \A w \in Procs :
      cwd[w].layer \in Layers /\ Kind[cwd[w].at] = "scratch" =>
        LET pl == ReportedCurrentDirectory(w) IN
        /\ OpenForRead(pl) = "dir"
        /\ ReadLayer(pl) = "back" => cwd[w].layer = "back"

\* Listing a directory by a relative name shows what its absolute name shows:
\* both opens reach the same directory (design document, line 1388).
ListingByRelativeName ==
    \A w \in Procs : \A pl \in Named(w) :
      OpenForRead(pl) = "dir" =>
        ReadLayer(ReverseMap(pl)) = ReadLayer(Virtual(pl.at))
=============================================================================

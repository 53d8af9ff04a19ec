---------------------------- MODULE WriteOverlay ----------------------------
(***************************************************************************)
(* The write-overlay file-system engine of DetoursServices.dll ("Model W").*)
(* A sandboxed action runs in place in the shared execroot.  Every file    *)
(* call of its processes is hooked: the policy is checked on the virtual   *)
(* path, and a write to an undeclared ("scratch") path is redirected to a  *)
(* backing store private to the action, so that the execroot itself is     *)
(* never mutated.  The backing store on disk is the only record of what    *)
(* was redirected: each hook probes it, decides, and only then performs    *)
(* the real call, with nothing held in between.                            *)
(*                                                                         *)
(* Files of one directory are modelled; a call is split into the steps     *)
(* that touch the disk, and processes interleave between them.             *)
(***************************************************************************)

CONSTANTS
    Procs,          \* the processes of the sandboxed action
    Paths,          \* virtual paths of files in the execroot
    Kind,           \* what the manifest says of each path
    FilterInputs,   \* --filter-inputs
    Workload,       \* classes of calls the processes make
    Foreign,        \* paths other actions create or remove on the real disk
    CopyMayFail,    \* a copy-up may fail (disk full, sharing violation)
    NewInodes,      \* bound: files that exist at once beyond the initial ones
    NoInode, Empty, Absent

Kinds == {"scratch", "input", "output"}
CallClasses == {"read", "rocreate", "create", "modify",
                "copy", "move", "delete", "link"}

ASSUME PathsAssumption == Paths # {} /\ Kind \in [Paths -> Kinds]
ASSUME ParametersAssumption ==
    /\ FilterInputs \in BOOLEAN
    /\ CopyMayFail \in BOOLEAN
    /\ Workload \subseteq CallClasses
    /\ Foreign \subseteq Paths
ASSUME DistinctAssumption ==
    /\ NewInodes \cap Paths = {}
    /\ Procs \cap Paths = {}
    /\ NoInode \notin Paths \cup NewInodes
    /\ Empty \notin Paths \cup Procs
    /\ Absent \notin Paths \cup Procs \cup {Empty}

Layers == {"real", "back"}
Inodes == Paths \cup NewInodes      \* inode p: the file found on disk at path p
Contents == Paths \cup Procs \cup {Empty}  \* token p: the bytes of that file

Accesses == SUBSET {"R", "W"} \ {{}}
Dispositions == {"CREATE_NEW", "CREATE_ALWAYS", "OPEN_EXISTING",
                 "OPEN_ALWAYS", "TRUNCATE_EXISTING"}
MoveFlags == {"REPLACE_EXISTING", "COPY_ALLOWED"}
Flags == MoveFlags \cup {"FAIL_IF_EXISTS"}

NoHandle == [ino |-> NoInode, read |-> FALSE, write |-> FALSE]
Handles == {NoHandle} \cup [ino : Inodes, read : BOOLEAN, write : BOOLEAN]

\* src, dst: the paths the tool named (dst alone when there is one);
\* effSrc, effDst: the layer the hook decided to use for each;
\* backed: what the hook saw when it probed the backing store.
Calls == [src : Paths, dst : Paths, acc : SUBSET {"R", "W"},
          disp : Dispositions, flags : SUBSET Flags, backed : BOOLEAN,
          effSrc : Layers, effDst : Layers]
NoCall == LET p == CHOOSE p \in Paths : TRUE IN
          [src |-> p, dst |-> p, acc |-> {}, disp |-> "OPEN_EXISTING",
           flags |-> {}, backed |-> FALSE, effSrc |-> "real",
           effDst |-> "real"]

PCs == {"idle", "newcheck", "copyup", "open", "openread", "copy", "link",
        "srcread", "moveresolve", "move", "delresolve", "delete"}
Results == {"none", "ok", "notfound", "denied", "exists"}

VARIABLES
    fs,      \* fs[layer][path]: the file in the execroot / the backing store
    data,    \* the bytes of each file
    pre,     \* the paths that existed on disk when the action started
    handle,  \* the file handle each process holds (bound: one at a time)
    pc, call,\* the step of the hooked call in progress
    res      \* the error code of the last call

vars == <<fs, data, pre, handle, pc, call, res>>

-----------------------------------------------------------------------------
(* Policy: what the manifest grants (PolicyResult)                         *)

\* OverrideAllowWriteForExistingFiles is set on the execroot cone only.
ShouldRedirectToOverlay(p) == Kind[p] = "scratch"

AllowRead(p) == ~(FilterInputs /\ Kind[p] = "scratch")
AllowReadIfNonexistent(p) == AllowRead(p)

\* With the overlay on, a write to an existing undeclared file is allowed:
\* it will be redirected.  Only a declared input denies it.
AllowWrite(p) == Kind[p] # "input"

OverlayRealFileHiddenByFilter(p) == FilterInputs /\ ~AllowRead(p)

Exists(l, p) == fs[l][p] # NoInode
HasOverlayBackingShadow(p) == Exists("back", p)

\* Mutant: the carve-out for redirected files without its shadow test.
CheckReadAccessNoShadow(p, exists) ==
    exists \/ AllowReadIfNonexistent(p) \/ ShouldRedirectToOverlay(p)

CheckReadAccess(p, exists) ==
    \/ exists /\ AllowRead(p)
    \/ ~exists /\ AllowReadIfNonexistent(p)
    \/ exists /\ ShouldRedirectToOverlay(p) /\ HasOverlayBackingShadow(p)

\* DenialError: only a denial without a write component is masked.
DenialError(acc) == IF FilterInputs /\ "W" \notin acc THEN "notfound" ELSE "denied"

-----------------------------------------------------------------------------
(* What the tool can see                                                   *)

MergedContent(p) ==
    CASE ShouldRedirectToOverlay(p) /\ Exists("back", p) -> data[fs["back"][p]]
      [] ~(ShouldRedirectToOverlay(p) /\ Exists("back", p))
           /\ Exists("real", p) /\ ~OverlayRealFileHiddenByFilter(p)
           -> data[fs["real"][p]]
      [] OTHER -> Absent

-----------------------------------------------------------------------------
Live(i) == \/ \E l \in Layers, p \in Paths : fs[l][p] = i
           \/ \E w \in Procs : handle[w].ino = i
FreeInodes == {i \in NewInodes : ~Live(i)}

Init ==
    /\ pre \in SUBSET Paths
    /\ fs = [l \in Layers |-> [p \in Paths |->
               IF l = "real" /\ p \in pre THEN p ELSE NoInode]]
    /\ data = [i \in Inodes |-> IF i \in Paths THEN i ELSE Empty]
    /\ handle = [w \in Procs |-> NoHandle]
    /\ pc = [w \in Procs |-> "idle"]
    /\ call = [w \in Procs |-> NoCall]
    /\ res = [w \in Procs |-> "none"]

Disk == <<fs, data, pre>>

\* The hook returns to the tool with the given last error.
Return(w, code) ==
    /\ pc' = [pc EXCEPT ![w] = "idle"]
    /\ call' = [call EXCEPT ![w] = NoCall]
    /\ res' = [res EXCEPT ![w] = code]

Enter(w, step, c) ==
    /\ pc' = [pc EXCEPT ![w] = step]
    /\ call' = [call EXCEPT ![w] = c]
    /\ res' = [res EXCEPT ![w] = "none"]

-----------------------------------------------------------------------------
(* CreateFileW                                                             *)

OpenClass(acc, disp) ==
    CASE "W" \notin acc /\ disp = "OPEN_EXISTING" -> "read"
      [] "W" \notin acc /\ disp # "OPEN_EXISTING" -> "rocreate"
      [] "W" \in acc /\ disp \in {"OPEN_EXISTING", "OPEN_ALWAYS"} -> "modify"
      [] OTHER -> "create"

\* Mutant: copy-up for every disposition but CREATE_NEW.
KeepsContentAlways(disp) == disp # "CREATE_NEW"

KeepsContent(disp) == disp \in {"OPEN_EXISTING", "OPEN_ALWAYS"}

\* Mutant: CREATE_NEW redirected without looking at the real file.
OpenStepNoNewCheck(p, acc, disp) ==
    IF /\ ShouldRedirectToOverlay(p) /\ "W" \in acc
       /\ ~Exists("back", p) /\ KeepsContent(disp)
    THEN "copyup" ELSE "open"

\* Where ResolveOverlayOpenPath goes once it has probed the backing store.
OpenStep(p, acc, disp) ==
    IF ~ShouldRedirectToOverlay(p) \/ "W" \notin acc THEN "open"
    ELSE IF Exists("back", p) THEN "open"
    ELSE IF disp = "CREATE_NEW" THEN "newcheck"
    ELSE IF KeepsContent(disp) THEN "copyup"
    ELSE "open"

OpenLayer(p, acc) ==
    IF ShouldRedirectToOverlay(p) /\ ("W" \in acc \/ Exists("back", p))
    THEN "back" ELSE "real"

CreateFileW(w, p, acc, disp) ==
    /\ pc[w] = "idle" /\ handle[w] = NoHandle
    /\ OpenClass(acc, disp) \in Workload
    /\ disp = "TRUNCATE_EXISTING" => "W" \in acc
    /\ IF "W" \in acc /\ ~AllowWrite(p)
       THEN Return(w, DenialError(acc))
       ELSE Enter(w, OpenStep(p, acc, disp),
                  [NoCall EXCEPT !.src = p, !.dst = p, !.acc = acc,
                                 !.disp = disp, !.effDst = OpenLayer(p, acc)])
    /\ UNCHANGED <<Disk, handle>>

\* CREATE_NEW of a visible real file is left on the real path to fail there.
ResolveCreateNew(w) ==
    LET p == call[w].dst
        visible == Exists("real", p) /\ ~OverlayRealFileHiddenByFilter(p)
    IN
    /\ pc[w] = "newcheck"
    /\ pc' = [pc EXCEPT ![w] = "open"]
    /\ call' = [call EXCEPT ![w].effDst = IF visible THEN "real" ELSE "back"]
    /\ UNCHANGED <<Disk, handle, res>>

\* Mutant: the copy-up made without failIfExists.
CopyUpClobbers(w) ==
    LET p == call[w].dst IN
    /\ pc[w] = "copyup"
    /\ pc' = [pc EXCEPT ![w] = "open"]
    /\ IF Exists("real", p)
       THEN \E i \in FreeInodes :
              /\ fs' = [fs EXCEPT !["back"][p] = i]
              /\ data' = [data EXCEPT ![i] = data[fs["real"][p]]]
       ELSE UNCHANGED <<fs, data>>
    /\ UNCHANGED <<pre, handle, call, res>>

\* CopyFileW(real, backing, failIfExists): the result is not looked at.
CopyUp(w) ==
    LET p == call[w].dst IN
    /\ pc[w] = "copyup"
    /\ pc' = [pc EXCEPT ![w] = "open"]
    /\ IF Exists("real", p) /\ ~Exists("back", p)
       THEN \/ \E i \in FreeInodes :
                 /\ fs' = [fs EXCEPT !["back"][p] = i]
                 /\ data' = [data EXCEPT ![i] = data[fs["real"][p]]]
            \/ CopyMayFail /\ UNCHANGED <<fs, data>>
       ELSE UNCHANGED <<fs, data>>
    /\ UNCHANGED <<pre, handle, call, res>>

\* The real open is over; a call that asked to read still has to be checked.
Opened(w, h, code) ==
    /\ handle' = [handle EXCEPT ![w] = h]
    /\ res' = [res EXCEPT ![w] = code]
    /\ IF "R" \in call[w].acc
       THEN pc' = [pc EXCEPT ![w] = "openread"] /\ UNCHANGED call
       ELSE /\ pc' = [pc EXCEPT ![w] = "idle"]
            /\ call' = [call EXCEPT ![w] = NoCall]

\* Mutant: the handle taken from the path as it was before the open.
HandleOnStale(w, i) ==
    [ino |-> fs[call[w].effDst][call[w].dst],
     read |-> "R" \in call[w].acc, write |-> "W" \in call[w].acc]

HandleOn(w, i) ==
    [ino |-> i, read |-> "R" \in call[w].acc, write |-> "W" \in call[w].acc]

RealOpenFails(w) ==
    LET c == call[w] IN
    /\ pc[w] = "open"
    /\ \/ /\ Exists(c.effDst, c.dst) /\ c.disp = "CREATE_NEW"
          /\ Opened(w, NoHandle, "exists")
       \/ /\ ~Exists(c.effDst, c.dst)
          /\ c.disp \in {"OPEN_EXISTING", "TRUNCATE_EXISTING"}
          /\ Opened(w, NoHandle, "notfound")
    /\ UNCHANGED Disk

RealOpenExisting(w) ==
    LET c == call[w]
        i == fs[c.effDst][c.dst]
    IN
    /\ pc[w] = "open"
    /\ Exists(c.effDst, c.dst) /\ c.disp # "CREATE_NEW"
    /\ data' = IF KeepsContent(c.disp) THEN data ELSE [data EXCEPT ![i] = Empty]
    /\ Opened(w, HandleOn(w, i), "ok")
    /\ UNCHANGED <<fs, pre>>

RealOpenCreates(w) ==
    LET c == call[w] IN
    /\ pc[w] = "open"
    /\ ~Exists(c.effDst, c.dst)
    /\ c.disp \in {"CREATE_NEW", "CREATE_ALWAYS", "OPEN_ALWAYS"}
    /\ \E i \in FreeInodes :
         /\ fs' = [fs EXCEPT ![c.effDst][c.dst] = i]
         /\ data' = [data EXCEPT ![i] = Empty]
         /\ Opened(w, HandleOn(w, i), "ok")
    /\ UNCHANGED pre

\* The read half of the policy, checked after the fact on the virtual path.
CreateFileReadCheck(w) ==
    /\ pc[w] = "openread"
    /\ IF CheckReadAccess(call[w].dst, res[w] # "notfound")
       THEN Return(w, res[w]) /\ UNCHANGED handle
       ELSE /\ Return(w, DenialError(call[w].acc))
            /\ handle' = [handle EXCEPT ![w] = NoHandle]
    /\ UNCHANGED Disk

WriteFile(w) ==
    /\ pc[w] = "idle" /\ handle[w].write
    /\ data' = [data EXCEPT ![handle[w].ino] = w]
    /\ UNCHANGED <<fs, pre, handle, pc, call, res>>

CloseHandle(w) ==
    /\ pc[w] = "idle" /\ handle[w] # NoHandle
    /\ handle' = [handle EXCEPT ![w] = NoHandle]
    /\ UNCHANGED <<Disk, pc, call, res>>

-----------------------------------------------------------------------------
(* Copy, hard link: one kernel call with both operands resolved before     *)

ResolveOverlayProbePath(p) ==
    IF ShouldRedirectToOverlay(p) /\ Exists("back", p) THEN "back" ELSE "real"

ResolveOverlayRenameDest(p) ==
    IF ShouldRedirectToOverlay(p) THEN "back" ELSE "real"

TwoPathCall(s, d, flags) ==
    [NoCall EXCEPT !.src = s, !.dst = d, !.flags = flags,
                   !.effSrc = ResolveOverlayProbePath(s),
                   !.effDst = ResolveOverlayRenameDest(d)]

CopyFileEx(w, s, d, flags) ==
    /\ pc[w] = "idle" /\ s # d /\ "copy" \in Workload
    /\ IF ~AllowWrite(d) THEN Return(w, "denied")
                         ELSE Enter(w, "copy", TwoPathCall(s, d, flags))
    /\ UNCHANGED <<Disk, handle>>

CreateHardLinkW(w, s, d) ==
    /\ pc[w] = "idle" /\ s # d /\ "link" \in Workload
    /\ IF ~AllowWrite(d) THEN Return(w, "denied")
                         ELSE Enter(w, "link", TwoPathCall(s, d, {}))
    /\ UNCHANGED <<Disk, handle>>

ToSourceCheck(w, code) ==
    /\ pc' = [pc EXCEPT ![w] = "srcread"]
    /\ res' = [res EXCEPT ![w] = code]
    /\ UNCHANGED call

RealCopyOrLinkFails(w) ==
    LET c == call[w] IN
    /\ \/ /\ pc[w] \in {"copy", "link"} /\ ~Exists(c.effSrc, c.src)
          /\ ToSourceCheck(w, "notfound")
       \/ /\ Exists(c.effSrc, c.src) /\ Exists(c.effDst, c.dst)
          /\ \/ pc[w] = "link"
             \/ pc[w] = "copy" /\ "FAIL_IF_EXISTS" \in c.flags
          /\ ToSourceCheck(w, "exists")
    /\ UNCHANGED <<Disk, handle>>

\* An existing destination is overwritten in place, a new one is created.
RealCopyFileEx(w) ==
    LET c == call[w]
        bytes == data[fs[c.effSrc][c.src]]
    IN
    /\ pc[w] = "copy" /\ Exists(c.effSrc, c.src)
    /\ \/ /\ Exists(c.effDst, c.dst) /\ "FAIL_IF_EXISTS" \notin c.flags
          /\ data' = [data EXCEPT ![fs[c.effDst][c.dst]] = bytes]
          /\ UNCHANGED fs
       \/ /\ ~Exists(c.effDst, c.dst)
          /\ \E i \in FreeInodes :
               /\ fs' = [fs EXCEPT ![c.effDst][c.dst] = i]
               /\ data' = [data EXCEPT ![i] = bytes]
    /\ ToSourceCheck(w, "ok")
    /\ UNCHANGED <<pre, handle>>

RealCreateHardLinkW(w) ==
    LET c == call[w] IN
    /\ pc[w] = "link" /\ Exists(c.effSrc, c.src) /\ ~Exists(c.effDst, c.dst)
    /\ fs' = [fs EXCEPT ![c.effDst][c.dst] = fs[c.effSrc][c.src]]
    /\ ToSourceCheck(w, "ok")
    /\ UNCHANGED <<data, pre, handle>>

\* A denied source turns the result into a failure; nothing is undone.
SourceReadCheck(w) ==
    /\ pc[w] = "srcread"
    /\ IF CheckReadAccess(call[w].src, res[w] # "notfound")
       THEN Return(w, res[w])
       ELSE Return(w, DenialError({"R"}))
    /\ UNCHANGED <<Disk, handle>>

-----------------------------------------------------------------------------
(* Delete, move                                                            *)

\* Mutant: the real file below is not looked at.
DeleteActionBlind(p, backed) ==
    IF backed THEN "RedirectToBacking" ELSE "PassThrough"

\* ResolveOverlayDelete, given the backing probe and the real disk now.
DeleteAction(p, backed) ==
    CASE backed /\ Exists("real", p) /\ ~OverlayRealFileHiddenByFilter(p)
           -> "DenyAccess"
      [] backed /\ ~(Exists("real", p) /\ ~OverlayRealFileHiddenByFilter(p))
           -> "RedirectToBacking"
      [] ~backed /\ Exists("real", p)
           -> IF OverlayRealFileHiddenByFilter(p) THEN "NotFound" ELSE "DenyAccess"
      [] OTHER -> "PassThrough"

\* The backing probe is made here, the real one in the next step.
StartRemoval(w, p, c, resolveStep, realStep) ==
    IF ShouldRedirectToOverlay(p)
    THEN Enter(w, resolveStep, [c EXCEPT !.backed = Exists("back", p)])
    ELSE Enter(w, realStep, c)

DeleteFileW(w, p) ==
    /\ pc[w] = "idle" /\ "delete" \in Workload
    /\ IF ~AllowWrite(p) THEN Return(w, "denied")
       ELSE StartRemoval(w, p, [NoCall EXCEPT !.src = p, !.dst = p],
                         "delresolve", "delete")
    /\ UNCHANGED <<Disk, handle>>

\* MOVEFILE_COPY_ALLOWED asks for read access to the source as well.
MoveFileWithProgress(w, s, d, flags) ==
    /\ pc[w] = "idle" /\ s # d /\ "move" \in Workload
    /\ IF \/ ~AllowWrite(s)
          \/ ~AllowWrite(d)
          \/ "COPY_ALLOWED" \in flags /\ ~CheckReadAccess(s, TRUE)
       THEN Return(w, "denied")
       ELSE StartRemoval(w, s,
              [NoCall EXCEPT !.src = s, !.dst = d, !.flags = flags,
                             !.effDst = ResolveOverlayRenameDest(d)],
              "moveresolve", "move")
    /\ UNCHANGED <<Disk, handle>>

ResolveOverlayDelete(w) ==
    LET c == call[w]
        action == DeleteAction(c.src, c.backed)
    IN
    /\ pc[w] \in {"delresolve", "moveresolve"}
    /\ CASE action = "DenyAccess" -> Return(w, "denied")
         [] action = "NotFound" -> Return(w, "notfound")
         [] OTHER ->
              /\ pc' = [pc EXCEPT ![w] =
                          IF pc[w] = "delresolve" THEN "delete" ELSE "move"]
              /\ call' = [call EXCEPT ![w].effSrc =
                            IF action = "RedirectToBacking" THEN "back" ELSE "real"]
              /\ UNCHANGED res
    /\ UNCHANGED <<Disk, handle>>

RealRemovalFails(w) ==
    LET c == call[w] IN
    /\ \/ /\ pc[w] \in {"delete", "move"} /\ ~Exists(c.effSrc, c.src)
          /\ Return(w, "notfound")
       \/ /\ pc[w] = "move" /\ Exists(c.effSrc, c.src)
          /\ Exists(c.effDst, c.dst) /\ "REPLACE_EXISTING" \notin c.flags
          /\ Return(w, "exists")
    /\ UNCHANGED <<Disk, handle>>

RealDeleteFileW(w) ==
    LET c == call[w] IN
    /\ pc[w] = "delete" /\ Exists(c.effSrc, c.src)
    /\ fs' = [fs EXCEPT ![c.effSrc][c.src] = NoInode]
    /\ Return(w, "ok")
    /\ UNCHANGED <<data, pre, handle>>

RealMoveFile(w) ==
    LET c == call[w] IN
    /\ pc[w] = "move" /\ Exists(c.effSrc, c.src)
    /\ ~Exists(c.effDst, c.dst) \/ "REPLACE_EXISTING" \in c.flags
    /\ fs' = [fs EXCEPT ![c.effDst][c.dst] = fs[c.effSrc][c.src],
                        ![c.effSrc][c.src] = NoInode]
    /\ Return(w, "ok")
    /\ UNCHANGED <<data, pre, handle>>

-----------------------------------------------------------------------------
(* Another action of the same build creates or removes its own file.       *)

ForeignCreate(p) ==
    /\ p \in Foreign \ pre /\ ~Exists("real", p) /\ ~Live(p)
    /\ fs' = [fs EXCEPT !["real"][p] = p]
    /\ data' = [data EXCEPT ![p] = p]
    /\ UNCHANGED <<pre, handle, pc, call, res>>

ForeignDelete(p) ==
    /\ p \in Foreign \ pre /\ fs["real"][p] = p
    /\ fs' = [fs EXCEPT !["real"][p] = NoInode]
    /\ UNCHANGED <<data, pre, handle, pc, call, res>>

-----------------------------------------------------------------------------
HookSteps(w) ==
    \/ ResolveCreateNew(w) \/ CopyUp(w)
    \/ RealOpenFails(w) \/ RealOpenExisting(w) \/ RealOpenCreates(w)
    \/ CreateFileReadCheck(w)
    \/ RealCopyOrLinkFails(w) \/ RealCopyFileEx(w) \/ RealCreateHardLinkW(w)
    \/ SourceReadCheck(w)
    \/ ResolveOverlayDelete(w)
    \/ RealRemovalFails(w) \/ RealDeleteFileW(w) \/ RealMoveFile(w)

ToolCalls(w) ==
    \/ \E p \in Paths, acc \in Accesses, disp \in Dispositions :
         CreateFileW(w, p, acc, disp)
    \/ WriteFile(w) \/ CloseHandle(w)
    \/ \E s, d \in Paths : \/ CreateHardLinkW(w, s, d)
                           \/ \E flags \in SUBSET {"FAIL_IF_EXISTS"} :
                                CopyFileEx(w, s, d, flags)
                           \/ \E flags \in SUBSET MoveFlags :
                                MoveFileWithProgress(w, s, d, flags)
    \/ \E p \in Paths : DeleteFileW(w, p)

Next ==
    \/ \E w \in Procs : HookSteps(w) \/ ToolCalls(w)
    \/ \E p \in Paths : ForeignCreate(p) \/ ForeignDelete(p)

Spec == Init /\ [][Next]_vars
-----------------------------------------------------------------------------
(* What must hold                                                          *)

TypeOK ==
    /\ fs \in [Layers -> [Paths -> Inodes \cup {NoInode}]]
    /\ data \in [Inodes -> Contents]
    /\ pre \subseteq Paths
    /\ handle \in [Procs -> Handles]
    /\ pc \in [Procs -> PCs]
    /\ call \in [Procs -> Calls]
    /\ res \in [Procs -> Results]

\* The files that were on disk before the action and that it does not own.
Protected == {p \in pre : Kind[p] # "output"}

\* A file that existed before the action started, and that is not one of its
\* declared outputs, is never overwritten, truncated, deleted or renamed
\* (docs/design/detours-write-overlay-vfs.md, section 1.0), whatever
\* interleaving of hooked calls the processes of the action produce.
PreExistingUntouched ==
    \A p \in Protected : fs["real"][p] = p /\ data[p] = p

\* Outside its declared outputs no hooked call of the action changes an entry
\* of the shared execroot: only other actions do.
ExecrootUntouched ==
    [][\A p \in Paths :
         Kind[p] # "output" /\ fs["real"][p]' # fs["real"][p]
           => ForeignCreate(p) \/ ForeignDelete(p)]_vars

\* A handle the tool got from CreateFileW for reading never shows the bytes of
\* an undeclared file that --filter-inputs hides.
HiddenStaysHidden ==
    \A w \in Procs :
        pc[w] = "idle" /\ handle[w].read =>
            \A p \in pre : OverlayRealFileHiddenByFilter(p) => data[handle[w].ino] # p

\* CREATE_NEW succeeds only on a path the tool sees as absent, even when other
\* processes create or remove it between the probes and the real open.
CreateNewIsExclusive ==
    [][\A w \in Procs :
         RealOpenCreates(w) /\ call[w].disp = "CREATE_NEW"
           => MergedContent(call[w].dst) = Absent]_vars

\* Opening a file to modify it (copy-up, then the real open) never changes the
\* bytes the tool sees there: in particular a copy-up that lost the race to
\* another process does not bring the original bytes back over its writes.
OpenKeepsContent ==
    [][\A w \in Procs, p \in Paths :
         (/\ CopyUp(w) \/ RealOpenExisting(w) \/ RealOpenCreates(w)
          /\ p = call[w].dst /\ KeepsContent(call[w].disp)
          /\ MergedContent(p) # Absent)
           => MergedContent(p)' = MergedContent(p)]_vars

\* After a delete or a move that succeeded, the path is gone for the tool: the
\* removal of a backing copy never re-exposes a visible lower file.
RemovalHides ==
    [][\A w \in Procs, p \in Paths :
         (RealDeleteFileW(w) \/ RealMoveFile(w)) /\ p = call[w].src
           => MergedContent(p)' = Absent]_vars
-----------------------------------------------------------------------------
(* What the tools of the action see is a throwaway execroot of their own.  *)

Throwaway == INSTANCE ThrowawayExecroot WITH
    Inputs <- {p \in Paths : Kind[p] = "input"},
    Outputs <- {p \in Paths : Kind[p] = "output"},
    Writers <- Procs,
    base <- [p \in Paths |->
               IF p \in pre /\ ~OverlayRealFileHiddenByFilter(p) THEN p ELSE Absent],
    view <- [p \in Paths |-> MergedContent(p)]

\* The overlay implements the private execroot: every step of every hook shows
\* the tools of the action a step of ThrowawayExecroot or nothing at all.
ImplementsThrowaway == Throwaway!Spec
=============================================================================

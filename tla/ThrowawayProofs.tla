---------------------------- MODULE ThrowawayProofs ----------------------------
(***************************************************************************)
(* What the tools of an action see through the write overlay: theorems     *)
(* about each step of each hook, with any number of processes in between,  *)
(* that end in the refinement of ThrowawayExecroot.                        *)
(***************************************************************************)
EXTENDS WriteOverlayProofs

\* The scratch paths belong to the action: no open for reading creates files on
\* the real disk, and other actions work on other paths.
ScratchIsOurs ==
    /\ "rocreate" \notin Workload
    /\ \A p \in Foreign : Kind[p] # "scratch"

\* A file below the backing store that the tool can see.
Lower(p) == Exists("real", p) /\ ~OverlayRealFileHiddenByFilter(p)

\* An open that would create a file in the backing store, or fill an empty one,
\* although the tool has a file to see there.
MustFindBacking(c) ==
    /\ "W" \in c.acc /\ c.effDst = "back" /\ Lower(c.dst)
    /\ c.disp = "CREATE_NEW" \/ (KeepsContent(c.disp) /\ ~CopyMayFail)

\* What is still true, in the steps of a call after its first, of the layers that
\* were chosen for it.
Routed(step, c) ==
    /\ step = "newcheck" =>
         Kind[c.dst] = "scratch" /\ c.disp = "CREATE_NEW" /\ "W" \in c.acc
    /\ step = "copyup" =>
         /\ Kind[c.dst] = "scratch" /\ c.effDst = "back"
         /\ "W" \in c.acc /\ KeepsContent(c.disp)
    /\ step = "open" =>
         /\ "W" \notin c.acc => c.disp = "OPEN_EXISTING"
         /\ "W" \in c.acc /\ c.effDst = "real" =>
              \/ Kind[c.dst] = "output"
              \/ Kind[c.dst] = "scratch" /\ c.disp = "CREATE_NEW" /\ Lower(c.dst)
         /\ "W" \in c.acc /\ c.effDst = "back" => Kind[c.dst] = "scratch"
         /\ MustFindBacking(c) => Exists("back", c.dst)
    /\ step \in {"copy", "link", "move", "moveresolve"} =>
         /\ c.src # c.dst
         /\ c.effDst = "real" => Kind[c.dst] = "output"
         /\ c.effDst = "back" => Kind[c.dst] = "scratch"
    /\ step \in {"delresolve", "moveresolve"} => Kind[c.src] = "scratch"
    /\ step \in {"delete", "move"} =>
         /\ c.effSrc = "real" =>
              \/ Kind[c.src] = "output"
              \/ Kind[c.src] = "scratch" /\ ~Exists("real", c.src)
         /\ c.effSrc = "back" => Kind[c.src] = "scratch" /\ ~Lower(c.src)

RoutedInv == TypeOK /\ \A w \in Procs : Routed(pc[w], call[w])
-----------------------------------------------------------------------------
(* The refinement: what else is true when no file has two names.           *)

\* Nobody but the action works here, no hard links and no creating opens for
\* reading are made, and what --filter-inputs hides is not written over.
PrivateWorkload ==
    /\ Foreign = {}
    /\ Workload \cap {"rocreate", "link"} = {}
    /\ FilterInputs => Workload \cap {"modify", "copy"} = {}

\* Outside the outputs the real disk is as it was, and what is redirected are
\* scratch files.
LayersApart ==
    \A p \in Paths :
      /\ Kind[p] # "output" => fs["real"][p] = IF p \in pre THEN p ELSE NoInode
      /\ Exists("back", p) => Kind[p] = "scratch"

OneName ==
    \A k, l \in Layers, p, q \in Paths :
      fs[k][p] = fs[l][q] /\ Exists(k, p) => k = l /\ p = q

\* Without the filter every file holds bytes the tools may see.
SeenBytes ==
    ~FilterInputs =>
      \A l \in Layers, p \in Paths :
        Exists(l, p) => data[fs[l][p]] \in Procs \cup {Empty} \cup pre

FilteredCalls == FilterInputs => \A w \in Procs : pc[w] \notin {"copyup", "copy"}

ViewInv ==
    /\ UntouchedInv /\ RoutedInv
    /\ LayersApart /\ OneName /\ SeenBytes /\ FilteredCalls
-----------------------------------------------------------------------------
(* What a step of one process can do to the disk and to the others.        *)

\* The call of a process goes on only by its own steps.
LEMMA OthersWait ==
    ASSUME TypeOK, NEW w \in Procs, HookSteps(w) \/ ToolCalls(w),
           NEW v \in Procs, v # w
    PROVE  pc'[v] = pc[v] /\ call'[v] = call[v] /\ handle'[v] = handle[v]
<1> USE DEF TypeOK
<1>1. CASE HookSteps(w)
  BY <1>1 DEF HookSteps, ResolveCreateNew, CopyUp, RealOpenFails, RealOpenExisting,
     RealOpenCreates, CreateFileReadCheck, RealCopyOrLinkFails, RealCopyFileEx,
     RealCreateHardLinkW, SourceReadCheck, ResolveOverlayDelete, RealRemovalFails,
     RealDeleteFileW, RealMoveFile, Opened, Return, ToSourceCheck
<1>2. CASE ToolCalls(w)
  BY <1>2, ZenonT(60) DEF ToolCalls, CreateFileW, WriteFile, CloseHandle, CreateHardLinkW,
     CopyFileEx, MoveFileWithProgress, DeleteFileW, StartRemoval, Return, Enter
<1> QED
  BY <1>1, <1>2

LEMMA PreKept == [Next]_vars => pre' = pre
<1> SUFFICES ASSUME [Next]_vars PROVE pre' = pre
  OBVIOUS
<1>1. ASSUME NEW w \in Procs, HookSteps(w) PROVE pre' = pre
  BY <1>1 DEF HookSteps, ResolveCreateNew, CopyUp, RealOpenFails, RealOpenExisting,
     RealOpenCreates, CreateFileReadCheck, RealCopyOrLinkFails, RealCopyFileEx,
     RealCreateHardLinkW, SourceReadCheck, ResolveOverlayDelete, RealRemovalFails,
     RealDeleteFileW, RealMoveFile, Disk
<1>2. ASSUME NEW w \in Procs, ToolCalls(w) PROVE pre' = pre
  BY <1>2 DEF ToolCalls, CreateFileW, WriteFile, CloseHandle, CreateHardLinkW,
     CopyFileEx, MoveFileWithProgress, DeleteFileW, Disk
<1> QED
  BY <1>1, <1>2 DEF Next, vars, ForeignCreate, ForeignDelete

\* The entries a step of process w may change, and when.
FillsEntry(w, l, p) ==
    LET c == call[w] IN
    /\ p = c.dst /\ fs'[l][p] # NoInode
    /\ \/ pc[w] = "copyup" /\ l = "back"
       \/ pc[w] \in {"copy", "link", "move"} /\ l = c.effDst
       \/ /\ pc[w] = "open" /\ l = c.effDst /\ ~Exists(l, p)
          /\ c.disp \in {"CREATE_NEW", "CREATE_ALWAYS", "OPEN_ALWAYS"}

ClearsEntry(w, l, p) ==
    LET c == call[w] IN
    /\ pc[w] \in {"delete", "move"} /\ l = c.effSrc /\ p = c.src
    /\ Exists(l, p) /\ fs'[l][p] = NoInode

LEMMA EntryEffect ==
    ASSUME TypeOK, NEW w \in Procs, HookSteps(w) \/ ToolCalls(w),
           NEW l \in Layers, NEW p \in Paths, fs'[l][p] # fs[l][p]
    PROVE  FillsEntry(w, l, p) \/ ClearsEntry(w, l, p)
<1> DEFINE c == call[w]
<1>0. /\ c.src \in Paths /\ c.dst \in Paths
      /\ c.effSrc \in Layers /\ c.effDst \in Layers /\ "back" \in Layers
  BY CallFields DEF Layers
<1>f. NoInode \notin FreeInodes
  BY DistinctAssumption DEF FreeInodes
<1>e. ASSUME NEW k \in Layers, NEW q \in Paths, NEW i, fs' = [fs EXCEPT ![k][q] = i]
      PROVE  l = k /\ p = q /\ fs'[l][p] = i
  BY <1>e DEF TypeOK
<1>1. CASE HookSteps(w)
  <2>1. CASE CopyUp(w)
    <3>1. PICK i \in FreeInodes : fs' = [fs EXCEPT !["back"][c.dst] = i]
      BY <2>1 DEF CopyUp
    <3> QED
      BY <1>0, <1>e, <1>f, <2>1, <3>1 DEF CopyUp, FillsEntry
  <2>2. CASE RealOpenCreates(w)
    <3>1. PICK i \in FreeInodes : fs' = [fs EXCEPT ![c.effDst][c.dst] = i]
      BY <2>2 DEF RealOpenCreates
    <3> QED
      BY <1>0, <1>e, <1>f, <2>2, <3>1 DEF RealOpenCreates, FillsEntry
  <2>3. CASE RealCopyFileEx(w)
    <3>1. PICK i \in FreeInodes : fs' = [fs EXCEPT ![c.effDst][c.dst] = i]
      BY <2>3 DEF RealCopyFileEx
    <3> QED
      BY <1>0, <1>e, <1>f, <2>3, <3>1 DEF RealCopyFileEx, FillsEntry
  <2>4. CASE RealCreateHardLinkW(w)
    BY <1>0, <1>e, <2>4 DEF RealCreateHardLinkW, FillsEntry, Exists
  <2>5. CASE RealDeleteFileW(w)
    BY <1>0, <1>e, <2>5 DEF RealDeleteFileW, ClearsEntry
  <2>6. CASE RealMoveFile(w)
    <3> DEFINE i == fs[c.effSrc][c.src]
    <3>1. /\ fs' = [fs EXCEPT ![c.effDst][c.dst] = i, ![c.effSrc][c.src] = NoInode]
          /\ pc[w] = "move" /\ Exists(c.effSrc, c.src)
      BY <2>6 DEF RealMoveFile
    <3>2. fs'[l][p] = IF l = c.effSrc /\ p = c.src THEN NoInode
                      ELSE IF l = c.effDst /\ p = c.dst THEN i ELSE fs[l][p]
      BY <1>0, <3>1 DEF TypeOK
    <3>3. i # NoInode
      BY <3>1 DEF Exists
    <3> HIDE DEF i
    <3> QED
      BY <3>1, <3>2, <3>3 DEF FillsEntry, ClearsEntry
  <2> QED
    BY <1>1, <2>1, <2>2, <2>3, <2>4, <2>5, <2>6
       DEF HookSteps, ResolveCreateNew, RealOpenFails, RealOpenExisting,
           CreateFileReadCheck, RealCopyOrLinkFails, SourceReadCheck,
           ResolveOverlayDelete, RealRemovalFails, Disk
<1>2. CASE ToolCalls(w)
  BY <1>2 DEF ToolCalls, CreateFileW, WriteFile, CloseHandle, CreateHardLinkW,
     CopyFileEx, MoveFileWithProgress, DeleteFileW, Disk
<1> QED
  BY <1>1, <1>2
-----------------------------------------------------------------------------
(* The layers of a scratch path, while calls are under way.                *)

LEMMA RealKept ==
    ASSUME RoutedInv, [Next]_vars, NEW p \in Paths, Kind[p] # "output",
           fs'["real"][p] # fs["real"][p]
    PROVE  ForeignCreate(p) \/ ForeignDelete(p)
<1>0. TypeOK /\ "real" \in Layers
  BY DEF RoutedInv, Layers
<1>1. ASSUME NEW w \in Procs, HookSteps(w) \/ ToolCalls(w)
      PROVE  FALSE
  <2> DEFINE c == call[w]
  <2>1. FillsEntry(w, "real", p) \/ ClearsEntry(w, "real", p)
    BY <1>0, <1>1, EntryEffect
  <2>2. Routed(pc[w], c)
    BY DEF RoutedInv
  <2>3. CASE FillsEntry(w, "real", p)
    BY <2>2, <2>3 DEF FillsEntry, Routed, Lower
  <2>4. CASE ClearsEntry(w, "real", p)
    BY <2>2, <2>4 DEF ClearsEntry, Routed
  <2> QED
    BY <2>1, <2>3, <2>4
<1>2. ASSUME NEW q \in Paths, ForeignCreate(q) \/ ForeignDelete(q)
      PROVE  q = p
  BY <1>0, <1>2 DEF ForeignCreate, ForeignDelete, TypeOK
<1> QED
  BY <1>1, <1>2 DEF Next, vars

\* What is below a scratch path never changes, and what shadows a file the tool
\* can see is never taken away.
LEMMA LowerKept ==
    ASSUME ScratchIsOurs, RoutedInv, [Next]_vars, NEW p \in Paths, Kind[p] = "scratch"
    PROVE  /\ fs'["real"][p] = fs["real"][p]
           /\ Exists("real", p)' = Exists("real", p) /\ Lower(p)' = Lower(p)
           /\ Lower(p) /\ Exists("back", p) => Exists("back", p)'
<1>0. TypeOK /\ "back" \in Layers
  BY DEF RoutedInv, Layers
<1>1. fs'["real"][p] = fs["real"][p]
  BY RealKept DEF ScratchIsOurs, ForeignCreate, ForeignDelete
<1>2. Exists("real", p)' = Exists("real", p) /\ Lower(p)' = Lower(p)
  BY <1>1 DEF Lower, Exists, OverlayRealFileHiddenByFilter, AllowRead
<1>3. ASSUME Lower(p), Exists("back", p), ~Exists("back", p)'
      PROVE  FALSE
  <2>1. fs'["back"][p] = NoInode /\ fs["back"][p] # NoInode
    BY <1>3 DEF Exists
  <2>2. PICK w \in Procs : HookSteps(w) \/ ToolCalls(w)
    BY <1>0, <2>1 DEF Next, vars, ForeignCreate, ForeignDelete, TypeOK
  <2>3. ClearsEntry(w, "back", p)
    BY <1>0, <2>1, <2>2, EntryEffect DEF FillsEntry
  <2> QED
    BY <1>3, <2>3 DEF ClearsEntry, RoutedInv, Routed
<1> QED
  BY <1>1, <1>2, <1>3
-----------------------------------------------------------------------------
(* The layers chosen for a call stay right until its real step.            *)

\* A step of anybody leaves a call as well routed as it was.
LEMMA RoutedStable ==
    ASSUME ScratchIsOurs, RoutedInv, [Next]_vars, NEW step, NEW c \in Calls,
           Routed(step, c)
    PROVE  Routed(step, c)'
<1>1. ASSUME NEW p \in {c.src, c.dst}, Kind[p] = "scratch"
      PROVE  /\ Exists("real", p)' = Exists("real", p) /\ Lower(p)' = Lower(p)
             /\ Lower(p) /\ Exists("back", p) => Exists("back", p)'
  BY <1>1, LowerKept DEF Calls
<1>2. step \in {"delete", "move"} =>
        /\ c.effSrc = "real" =>
             \/ Kind[c.src] = "output"
             \/ Kind[c.src] = "scratch" /\ ~Exists("real", c.src)'
        /\ c.effSrc = "back" => Kind[c.src] = "scratch" /\ ~Lower(c.src)'
  BY <1>1 DEF Routed
<1>3. step = "open" =>
        /\ "W" \in c.acc /\ c.effDst = "real" =>
              \/ Kind[c.dst] = "output"
              \/ Kind[c.dst] = "scratch" /\ c.disp = "CREATE_NEW" /\ Lower(c.dst)'
        /\ MustFindBacking(c)' => Exists("back", c.dst)'
  BY <1>1 DEF Routed, MustFindBacking
<1> QED
  BY <1>2, <1>3 DEF Routed

LEMMA RoutedMoved ==
    ASSUME ScratchIsOurs, RoutedInv, [Next]_vars, NEW v \in Procs,
           NEW step, NEW c \in Calls, pc'[v] = step, call'[v] = c, Routed(step, c)
    PROVE  Routed(pc[v], call[v])'
<1>1. Routed(step, c)'
  BY RoutedStable
<1> QED
  BY <1>1 DEF Routed, MustFindBacking

\* The steps that look at the disk and choose the layers.
LEMMA RoutedOpen ==
    ASSUME ScratchIsOurs, RoutedInv, [Next]_vars, NEW w \in Procs,
           \/ \E p \in Paths, acc \in Accesses, disp \in Dispositions :
                CreateFileW(w, p, acc, disp)
           \/ ResolveCreateNew(w)
           \/ CopyUp(w)
    PROVE  Routed(pc[w], call[w])'
<1> DEFINE c == call[w]
<1>0. TypeOK /\ c \in Calls /\ c.dst \in Paths /\ "back" \in Layers
  BY DEF RoutedInv, TypeOK, Calls, Layers
<1>1. ASSUME NEW p \in Paths, NEW acc \in Accesses, NEW disp \in Dispositions,
             CreateFileW(w, p, acc, disp)
      PROVE  Routed(pc[w], call[w])'
  <2>1. CASE "W" \in acc /\ ~AllowWrite(p)
    <3>1. pc'[w] = "idle"
      BY <1>0, <1>1, <2>1 DEF CreateFileW, Return, TypeOK
    <3> QED
      BY <3>1 DEF Routed
  <2>2. CASE ~("W" \in acc /\ ~AllowWrite(p))
    <3> DEFINE step == OpenStep(p, acc, disp)
               l == OpenLayer(p, acc)
               o == [NoCall EXCEPT !.src = p, !.dst = p, !.acc = acc,
                                   !.disp = disp, !.effDst = l]
    <3>1. pc'[w] = step /\ call'[w] = o
      BY <1>0, <1>1, <2>2 DEF CreateFileW, Enter, TypeOK
    <3>2. l \in Layers /\ o \in Calls
      BY OpenCallType DEF OpenLayer, Layers
    <3>3. o.dst = p /\ o.acc = acc /\ o.disp = disp /\ o.effDst = l
      BY NoCallType DEF Calls
    <3>4. "W" \notin acc => disp = "OPEN_EXISTING"
      BY <1>1 DEF CreateFileW, OpenClass, ScratchIsOurs
    <3>5. "W" \in acc =>
            \/ Kind[p] = "output" /\ l = "real"
            \/ Kind[p] = "scratch" /\ l = "back"
      <4>1. "W" \in acc => Kind[p] \in {"scratch", "output"}
        BY <2>2, KindCases DEF AllowWrite
      <4> QED
        BY <4>1 DEF OpenLayer, ShouldRedirectToOverlay
    <3>6. /\ step \in {"newcheck", "copyup", "open"}
          /\ step = "newcheck" => disp = "CREATE_NEW"
          /\ step = "copyup" => KeepsContent(disp)
          /\ step # "open" => Kind[p] = "scratch" /\ "W" \in acc
          /\ step = "open" /\ Kind[p] = "scratch" /\ "W" \in acc
               /\ (disp = "CREATE_NEW" \/ KeepsContent(disp))
               => Exists("back", p)
      BY DEF OpenStep, ShouldRedirectToOverlay
    <3> HIDE DEF step, l, o
    <3>7. Routed(step, o)
      BY <3>3, <3>4, <3>5, <3>6 DEF Routed, MustFindBacking
    <3> QED
      BY <3>1, <3>2, <3>7, RoutedMoved
  <2> QED
    BY <2>1, <2>2
<1>2. CASE ResolveCreateNew(w)
  <2> DEFINE l == IF Lower(c.dst) THEN "real" ELSE "back"
             o == [c EXCEPT !.effDst = l]
  <2>1. pc'[w] = "open" /\ call'[w] = o
    BY <1>0, <1>2 DEF ResolveCreateNew, TypeOK, Lower
  <2>2. l \in Layers
    BY DEF Layers
  <2>3. o \in Calls /\ o.dst = c.dst /\ o.acc = c.acc /\ o.disp = c.disp /\ o.effDst = l
    BY <1>0, <2>2 DEF Calls
  <2>4. Kind[c.dst] = "scratch" /\ c.disp = "CREATE_NEW" /\ "W" \in c.acc
    BY <1>2 DEF ResolveCreateNew, RoutedInv, Routed
  <2>5. l = "real" <=> Lower(c.dst)
    OBVIOUS
  <2> HIDE DEF l, o, c
  <2>6. Routed("open", o)
    BY <2>3, <2>4, <2>5 DEF Routed, MustFindBacking
  <2> QED
    BY <2>1, <2>3, <2>6, RoutedMoved
<1>3. CASE CopyUp(w)
  <2>1. /\ pc'[w] = "open" /\ call'[w] = c
        /\ c.effDst = "back" /\ "W" \in c.acc /\ KeepsContent(c.disp)
        /\ Kind[c.dst] = "scratch"
    BY <1>0, <1>3 DEF CopyUp, RoutedInv, Routed, TypeOK
  <2>2. Lower(c.dst)' /\ ~CopyMayFail => Exists("back", c.dst)'
    <3>1. Lower(c.dst)' = Lower(c.dst)
      BY <1>0, <2>1, LowerKept
    <3>2. CASE Lower(c.dst) /\ Exists("back", c.dst)
      BY <1>0, <2>1, <3>2, LowerKept
    <3>3. CASE Lower(c.dst) /\ ~Exists("back", c.dst) /\ ~CopyMayFail
      <4>1. PICK i \in FreeInodes : fs' = [fs EXCEPT !["back"][c.dst] = i]
        BY <1>3, <3>3 DEF CopyUp, Lower
      <4> QED
        <5>1. fs'["back"][c.dst] = i
          BY <1>0, <4>1 DEF TypeOK
        <5> QED
          BY <2>1, <5>1, DistinctAssumption DEF Exists, FreeInodes
    <3> QED
      BY <3>1, <3>2, <3>3
  <2> QED
    BY <2>1, <2>2 DEF Routed, MustFindBacking, KeepsContent
<1> QED
  BY <1>1, <1>2, <1>3

LEMMA RoutedCopyLink ==
    ASSUME ScratchIsOurs, RoutedInv, [Next]_vars, NEW w \in Procs,
           NEW s \in Paths, NEW d \in Paths,
           \/ CreateHardLinkW(w, s, d)
           \/ \E flags \in SUBSET {"FAIL_IF_EXISTS"} : CopyFileEx(w, s, d, flags)
    PROVE  Routed(pc[w], call[w])'
<1>0. TypeOK /\ s # d
  BY DEF RoutedInv, CreateHardLinkW, CopyFileEx
<1>1. CASE ~AllowWrite(d)
  <2>1. pc'[w] = "idle"
    BY <1>0, <1>1 DEF CreateHardLinkW, CopyFileEx, Return, TypeOK
  <2> QED
    BY <2>1 DEF Routed
<1>2. CASE AllowWrite(d)
  <2>1. PICK step \in {"copy", "link"}, flags \in SUBSET Flags :
          Enter(w, step, TwoPathCall(s, d, flags))
    BY <1>2 DEF CreateHardLinkW, CopyFileEx, Flags
  <2> DEFINE c == TwoPathCall(s, d, flags)
  <2>2. c \in Calls /\ pc'[w] = step /\ call'[w] = c
    BY <1>0, <2>1, TwoPathCallType DEF Enter, TypeOK
  <2>3. c.src = s /\ c.dst = d /\ c.effDst = ResolveOverlayRenameDest(d)
    BY NoCallType DEF TwoPathCall, Calls
  <2>4. Kind[d] \in {"scratch", "output"}
    BY <1>2, KindCases DEF AllowWrite
  <2>5. Routed(step, c)
    <3> HIDE DEF c
    <3> QED
      BY <1>0, <2>3, <2>4 DEF Routed, ResolveOverlayRenameDest, ShouldRedirectToOverlay
  <2> QED
    BY <2>2, <2>5, RoutedMoved
<1> QED
  BY <1>1, <1>2

\* A removal starts on a declared output, or where it has to look further.
LEMMA RoutedStart ==
    ASSUME ScratchIsOurs, RoutedInv, [Next]_vars, NEW w \in Procs, NEW c \in Calls,
           NEW resolveStep, NEW realStep,
           <<resolveStep, realStep>> \in {<<"delresolve", "delete">>,
                                        <<"moveresolve", "move">>},
           StartRemoval(w, c.src, c, resolveStep, realStep), AllowWrite(c.src),
           c.effSrc = "real",
           realStep = "move" =>
             /\ c.src # c.dst
             /\ c.effDst = "real" => Kind[c.dst] = "output"
             /\ c.effDst = "back" => Kind[c.dst] = "scratch"
    PROVE  Routed(pc[w], call[w])'
<1>0. TypeOK /\ c.src \in Paths
  BY DEF RoutedInv, Calls
<1>1. CASE Kind[c.src] = "scratch"
  <2> DEFINE cc == [c EXCEPT !.backed = Exists("back", c.src)]
  <2>1. /\ pc'[w] = resolveStep /\ call'[w] = cc
        /\ cc \in Calls
        /\ cc.src = c.src /\ cc.dst = c.dst /\ cc.effDst = c.effDst
    BY <1>0, <1>1 DEF StartRemoval, ShouldRedirectToOverlay, Enter, TypeOK, Exists, Calls
  <2> HIDE DEF cc
  <2>2. Routed(resolveStep, cc)
    BY <1>1, <2>1 DEF Routed
  <2> QED
    BY <2>1, <2>2, RoutedMoved
<1>2. CASE Kind[c.src] # "scratch"
  <2>1. pc'[w] = realStep /\ call'[w] = c
    BY <1>0, <1>2 DEF StartRemoval, ShouldRedirectToOverlay, Enter, TypeOK
  <2>2. Kind[c.src] = "output"
    BY <1>0, <1>2, KindCases DEF AllowWrite
  <2>3. Routed(realStep, c)
    BY <2>2 DEF Routed
  <2> QED
    BY <2>1, <2>3, RoutedMoved
<1> QED
  BY <1>1, <1>2

LEMMA RoutedRemoval ==
    ASSUME ScratchIsOurs, RoutedInv, [Next]_vars, NEW w \in Procs,
           \/ \E p \in Paths : DeleteFileW(w, p)
           \/ \E s, d \in Paths, flags \in SUBSET MoveFlags :
                MoveFileWithProgress(w, s, d, flags)
           \/ ResolveOverlayDelete(w)
    PROVE  Routed(pc[w], call[w])'
<1>0. TypeOK /\ call[w] \in Calls
  BY DEF RoutedInv, TypeOK
<1>i. ASSUME NEW code, Return(w, code)
      PROVE  Routed(pc[w], call[w])'
  <2>1. pc'[w] = "idle"
    BY <1>0, <1>i DEF Return, TypeOK
  <2> QED
    BY <2>1 DEF Routed
<1>1. ASSUME NEW p \in Paths, DeleteFileW(w, p)
      PROVE  Routed(pc[w], call[w])'
  <2>1. CASE ~AllowWrite(p)
    BY <1>1, <1>i, <2>1 DEF DeleteFileW
  <2>2. CASE AllowWrite(p)
    <3> DEFINE c == [NoCall EXCEPT !.src = p, !.dst = p]
    <3>1. StartRemoval(w, p, c, "delresolve", "delete")
      BY <1>1, <2>2 DEF DeleteFileW
    <3>2. c \in Calls /\ c.src = p /\ c.effSrc = "real"
      BY NoCallType DEF Calls, NoCall
    <3> HIDE DEF c
    <3> QED
      BY <2>2, <3>1, <3>2, RoutedStart
  <2> QED
    BY <2>1, <2>2
<1>2. ASSUME NEW s \in Paths, NEW d \in Paths, NEW flags \in SUBSET MoveFlags,
             MoveFileWithProgress(w, s, d, flags)
      PROVE  Routed(pc[w], call[w])'
  <2> DEFINE denied == \/ ~AllowWrite(s)
                       \/ ~AllowWrite(d)
                       \/ "COPY_ALLOWED" \in flags /\ ~CheckReadAccess(s, TRUE)
  <2>1. CASE denied
    BY <1>2, <1>i, <2>1 DEF MoveFileWithProgress
  <2>2. CASE ~denied
    <3> DEFINE l == ResolveOverlayRenameDest(d)
               c == [NoCall EXCEPT !.src = s, !.dst = d, !.flags = flags, !.effDst = l]
    <3>1. StartRemoval(w, s, c, "moveresolve", "move") /\ s # d
      BY <1>2, <2>2 DEF MoveFileWithProgress
    <3>2. /\ AllowWrite(s)
          /\ l = "real" => Kind[d] = "output"
          /\ l = "back" => Kind[d] = "scratch"
      <4>1. Kind[d] \in {"scratch", "output"}
        BY <2>2, KindCases DEF AllowWrite
      <4> QED
        BY <2>2, <4>1 DEF ResolveOverlayRenameDest, ShouldRedirectToOverlay
    <3>3. l \in Layers /\ flags \in SUBSET Flags
      BY DEF ResolveOverlayRenameDest, Layers, Flags
    <3>4. c \in Calls /\ c.src = s /\ c.dst = d /\ c.effDst = l /\ c.effSrc = "real"
      BY <3>3, NoCallType DEF Calls, NoCall
    <3> HIDE DEF c, l
    <3> QED
      BY <3>1, <3>2, <3>4, RoutedStart
  <2> QED
    BY <2>1, <2>2
<1>3. CASE ResolveOverlayDelete(w)
  <2> DEFINE c == call[w]
             action == DeleteAction(c.src, c.backed)
             step == IF pc[w] = "delresolve" THEN "delete" ELSE "move"
             l == IF action = "RedirectToBacking" THEN "back" ELSE "real"
             cc == [c EXCEPT !.effSrc = l]
  <2>1. CASE \E code : Return(w, code)
    BY <1>i, <2>1
  <2>2. CASE ~\E code : Return(w, code)
    <3>1. /\ pc'[w] = step /\ call'[w] = cc
          /\ action \notin {"DenyAccess", "NotFound"}
          /\ pc[w] \in {"delresolve", "moveresolve"}
      BY <1>0, <1>3, <2>2 DEF ResolveOverlayDelete, TypeOK
    <3>2. /\ cc \in Calls /\ cc.src = c.src /\ cc.dst = c.dst
          /\ cc.effDst = c.effDst /\ cc.effSrc = l
      BY <1>0 DEF Calls, Layers
    <3>3. /\ l = "real" => ~Exists("real", c.src)
          /\ l = "back" => ~Lower(c.src)
      BY <1>0, <3>1 DEF DeleteAction, Calls, Lower
    <3>4. /\ Kind[c.src] = "scratch"
          /\ step = "move" => /\ c.src # c.dst
                              /\ c.effDst = "real" => Kind[c.dst] = "output"
                              /\ c.effDst = "back" => Kind[c.dst] = "scratch"
      BY <3>1 DEF RoutedInv, Routed
    <3>5. step \in {"delete", "move"}
      OBVIOUS
    <3> HIDE DEF c, cc, l, step, action
    <3>6. Routed(step, cc)
      BY <3>2, <3>3, <3>4, <3>5 DEF Routed
    <3> QED
      BY <3>1, <3>2, <3>6, RoutedMoved
  <2> QED
    BY <2>1, <2>2
<1> QED
  BY <1>1, <1>2, <1>3

LEMMA RoutedInit == Init => RoutedInv
<1> SUFFICES ASSUME Init PROVE RoutedInv
  OBVIOUS
<1>1. \A w \in Procs : pc[w] = "idle"
  BY DEF Init
<1> QED
  BY <1>1, InitType DEF RoutedInv, Routed

LEMMA RoutedNext ==
    ASSUME ScratchIsOurs, RoutedInv, [Next]_vars
    PROVE  RoutedInv'
<1>t. TypeOK /\ TypeOK'
  BY NextType DEF RoutedInv
<1> SUFFICES ASSUME NEW v \in Procs PROVE Routed(pc[v], call[v])'
  BY <1>t DEF RoutedInv
<1>0. call[v] \in Calls /\ Routed(pc[v], call[v])
  BY <1>t DEF RoutedInv, TypeOK
<1>1. CASE pc'[v] = pc[v] /\ call'[v] = call[v]
  BY <1>0, <1>1, RoutedMoved
<1>2. CASE pc'[v] \in {"idle", "openread", "srcread"}
  BY <1>2 DEF Routed
<1>3. CASE HookSteps(v)
  <2>1. \/ ResolveCreateNew(v) \/ CopyUp(v) \/ ResolveOverlayDelete(v)
        \/ pc'[v] \in {"idle", "openread", "srcread"}
    BY <1>t, <1>3 DEF HookSteps, RealOpenFails, RealOpenExisting, RealOpenCreates,
       CreateFileReadCheck, RealCopyOrLinkFails, RealCopyFileEx, RealCreateHardLinkW,
       SourceReadCheck, RealRemovalFails, RealDeleteFileW, RealMoveFile, Opened,
       Return, ToSourceCheck, TypeOK
  <2> QED
    BY <1>2, <2>1, RoutedOpen, RoutedRemoval
<1>4. CASE ToolCalls(v)
  <2>1. WriteFile(v) \/ CloseHandle(v) => pc'[v] = pc[v] /\ call'[v] = call[v]
    BY DEF WriteFile, CloseHandle
  <2> QED
    BY <1>1, <1>4, <2>1, RoutedOpen, RoutedCopyLink, RoutedRemoval DEF ToolCalls
<1>5. ASSUME NEW w \in Procs, HookSteps(w) \/ ToolCalls(w), w # v
      PROVE  Routed(pc[v], call[v])'
  BY <1>t, <1>1, <1>5, OthersWait
<1>6. CASE UNCHANGED vars
  BY <1>1, <1>6 DEF vars
<1>7. ASSUME NEW p \in Paths, ForeignCreate(p) \/ ForeignDelete(p)
      PROVE  Routed(pc[v], call[v])'
  BY <1>1, <1>7 DEF ForeignCreate, ForeignDelete
<1> QED
  BY <1>3, <1>4, <1>5, <1>6, <1>7 DEF Next

\* However the hooked calls of any number of processes interleave, the layer that a
\* hook chose for a path is still the right one when the real call is made.
THEOREM LayersStayRight ==
    ASSUME ScratchIsOurs
    PROVE  Spec => []RoutedInv
<1> QED
  BY RoutedInit, RoutedNext, PTL DEF Spec
-----------------------------------------------------------------------------
(* Action properties.                                                      *)

\* Outside its declared outputs no hooked call of an action changes an entry of the
\* shared execroot, hard links and failing copy-ups included, provided that no
\* open for reading creates a file and other actions keep off the scratch paths.
THEOREM OnlyOthersChangeTheExecroot ==
    ASSUME ScratchIsOurs
    PROVE  Spec => ExecrootUntouched
<1>1. RoutedInv /\ [Next]_vars
        => [\A p \in Paths :
              Kind[p] # "output" /\ fs["real"][p]' # fs["real"][p]
                => ForeignCreate(p) \/ ForeignDelete(p)]_vars
  BY RealKept
<1> QED
  BY <1>1, LayersStayRight, PTL DEF Spec, ExecrootUntouched

\* MergedContent, by what decides it.
LEMMA MergedCases ==
    ASSUME NEW p \in Paths
    PROVE  /\ Kind[p] = "scratch" /\ Exists("back", p)
                 => MergedContent(p) = data[fs["back"][p]]
           /\ ~(Kind[p] = "scratch" /\ Exists("back", p)) /\ Lower(p)
                 => MergedContent(p) = data[fs["real"][p]]
           /\ ~(Kind[p] = "scratch" /\ Exists("back", p)) /\ ~Lower(p)
                 => MergedContent(p) = Absent
BY DEF MergedContent, ShouldRedirectToOverlay, Lower

\* A path has no file exactly when the tool sees none there.
LEMMA MergedAbsent ==
    ASSUME TypeOK, NEW p \in Paths
    PROVE  MergedContent(p) = Absent
             <=> ~(Kind[p] = "scratch" /\ Exists("back", p)) /\ ~Lower(p)
<1>1. \A l \in Layers : Exists(l, p) => data[fs[l][p]] # Absent
  BY EntryType, DistinctAssumption DEF Contents
<1> QED
  BY <1>1, MergedCases DEF Lower, Layers

\* After a delete or a move that succeeded the path is gone for the tool, although
\* other processes may have touched both layers since the hook probed them.
THEOREM RemovalStaysHidden ==
    ASSUME ScratchIsOurs
    PROVE  Spec => RemovalHides
<1>1. ASSUME RoutedInv, [Next]_vars, NEW w \in Procs, NEW p \in Paths, p = call[w].src,
             RealDeleteFileW(w) \/ RealMoveFile(w)
      PROVE  MergedContent(p)' = Absent
  <2> DEFINE l == call[w].effSrc
  <2>0. l \in Layers /\ fs \in [Layers -> [Paths -> Inodes \cup {NoInode}]]
    BY <1>1, CallFields DEF RoutedInv, TypeOK
  <2>1. fs'[l][p] = NoInode /\ Exists(l, p) /\ pc[w] \in {"delete", "move"}
    BY <1>1, <2>0, CallFields DEF RealDeleteFileW, RealMoveFile, RoutedInv
  <2>2. \/ l = "real" /\ Kind[p] = "output"
        \/ l = "back" /\ Kind[p] = "scratch" /\ ~Lower(p)
    BY <1>1, <2>0, <2>1 DEF RoutedInv, Routed, Layers
  <2>3. ~(Kind[p] = "scratch" /\ Exists("back", p)') /\ ~Lower(p)'
    BY <1>1, <2>1, <2>2, LowerKept DEF Lower, Exists
  <2> QED
    BY <2>3 DEF MergedContent, ShouldRedirectToOverlay, Lower
<1>2. RoutedInv /\ [Next]_vars
        => [\A w \in Procs, p \in Paths :
              (RealDeleteFileW(w) \/ RealMoveFile(w)) /\ p = call[w].src
                => MergedContent(p)' = Absent]_vars
  BY <1>1
<1> QED
  BY <1>2, LayersStayRight, PTL DEF Spec, RemovalHides

\* A creating open that finds no file where it was sent finds none for the tool.
LEMMA CreatesAbsent ==
    ASSUME RoutedInv, NEW w \in Procs, RealOpenCreates(w),
           call[w].disp = "CREATE_NEW" \/ (KeepsContent(call[w].disp) /\ ~CopyMayFail)
    PROVE  MergedContent(call[w].dst) = Absent
<1> DEFINE c == call[w]
<1>0. TypeOK /\ c.dst \in Paths /\ c.effDst \in Layers
  BY CallFields DEF RoutedInv
<1>1. ~Exists(c.effDst, c.dst) /\ "W" \in c.acc /\ Routed("open", c)
  BY DEF RealOpenCreates, RoutedInv, Routed
<1>2. CASE c.effDst = "real"
  BY <1>0, <1>1, <1>2, MergedAbsent DEF Routed, Lower
<1>3. CASE c.effDst = "back"
  BY <1>0, <1>1, <1>3, MergedAbsent DEF Routed, MustFindBacking
<1> QED
  BY <1>0, <1>2, <1>3 DEF Layers

\* CREATE_NEW succeeds only where the tool sees no file, in whatever order the
\* processes of an action create and remove the file between the probes and the open.
THEOREM CreateNewExcludes ==
    ASSUME ScratchIsOurs
    PROVE  Spec => CreateNewIsExclusive
<1>1. RoutedInv /\ [Next]_vars
        => [\A w \in Procs :
              RealOpenCreates(w) /\ call[w].disp = "CREATE_NEW"
                => MergedContent(call[w].dst) = Absent]_vars
  BY CreatesAbsent
<1> QED
  BY <1>1, LayersStayRight, PTL DEF Spec, CreateNewIsExclusive

\* Opening a file to modify it shows the tool the bytes it saw there before, for any
\* number of processes that copy the file up, open it and remove it at once, as long as
\* no copy-up fails.
THEOREM OpenKeeps ==
    ASSUME ScratchIsOurs, ~CopyMayFail
    PROVE  Spec => OpenKeepsContent
<1>1. ASSUME RoutedInv, [Next]_vars, NEW w \in Procs, NEW p \in Paths, p = call[w].dst,
             CopyUp(w) \/ RealOpenExisting(w) \/ RealOpenCreates(w),
             KeepsContent(call[w].disp), MergedContent(p) # Absent
      PROVE  MergedContent(p)' = MergedContent(p)
  <2>0. TypeOK /\ "real" \in Layers /\ "back" \in Layers
    BY <1>1 DEF RoutedInv, Layers
  <2>1. CASE UNCHANGED <<fs, data>>
    BY <2>1 DEF MergedContent, Exists, OverlayRealFileHiddenByFilter, AllowRead
  <2>2. ASSUME NEW i \in FreeInodes, CopyUp(w), Exists("real", p), ~Exists("back", p),
               fs' = [fs EXCEPT !["back"][p] = i],
               data' = [data EXCEPT ![i] = data[fs["real"][p]]]
        PROVE  MergedContent(p)' = MergedContent(p)
    <3>1. Kind[p] = "scratch"
      BY <1>1, <2>2 DEF CopyUp, RoutedInv, Routed
    <3>2. i \in Inodes /\ i # NoInode
      BY DistinctAssumption DEF FreeInodes, Inodes
    <3>3. fs'["back"][p] = i /\ data'[i] = data[fs["real"][p]]
      BY <2>0, <2>2, <3>2 DEF TypeOK
    <3>4. MergedContent(p)' = data'[fs'["back"][p]]
      BY <3>1, <3>2, <3>3 DEF MergedContent, ShouldRedirectToOverlay, Exists
    <3>5. MergedContent(p) = data[fs["real"][p]]
      BY <1>1, <2>2, MergedCases
    <3> QED
      BY <3>3, <3>4, <3>5
  <2>3. CASE CopyUp(w)
    BY <1>1, <2>1, <2>2, <2>3 DEF CopyUp
  <2>4. CASE RealOpenExisting(w)
    BY <1>1, <2>1, <2>4 DEF RealOpenExisting
  <2>5. CASE RealOpenCreates(w)
    BY <1>1, <2>5, CreatesAbsent
  <2> QED
    BY <1>1, <2>3, <2>4, <2>5
<1>2. RoutedInv /\ [Next]_vars
        => [\A w \in Procs, p \in Paths :
              (/\ CopyUp(w) \/ RealOpenExisting(w) \/ RealOpenCreates(w)
               /\ p = call[w].dst /\ KeepsContent(call[w].disp)
               /\ MergedContent(p) # Absent)
                => MergedContent(p)' = MergedContent(p)]_vars
  BY <1>1
<1> QED
  BY <1>2, LayersStayRight, PTL DEF Spec, OpenKeepsContent
-----------------------------------------------------------------------------
(* The steps of the private execroot, in terms of MergedContent.           *)

LEMMA NotHidden ==
    ASSUME NEW p \in Paths, ~FilterInputs \/ Kind[p] # "scratch"
    PROVE  ~OverlayRealFileHiddenByFilter(p)
BY DEF OverlayRealFileHiddenByFilter, AllowRead

LEMMA ViewStutters ==
    ASSUME pre' = pre, \A q \in Paths : MergedContent(q)' = MergedContent(q)
    PROVE  UNCHANGED Throwaway!vars
BY DEF Throwaway!vars, OverlayRealFileHiddenByFilter, AllowRead

\* The bytes a tool may come to see.
Seeable(b) == b \in Procs \cup {Empty} \/ (~FilterInputs /\ b \in pre)

LEMMA SeeableBytes ==
    ASSUME TypeOK, NEW b, Seeable(b)
    PROVE  b \in Throwaway!Bytes
<1>1. CASE b \in Procs \cup {Empty}
  BY <1>1 DEF Throwaway!Bytes
<1>2. CASE ~FilterInputs /\ b \in pre
  <2>1. b \in Paths /\ b # Absent
    BY <1>2, DistinctAssumption DEF TypeOK
  <2>2. ~OverlayRealFileHiddenByFilter(b)
    BY <1>2, <2>1, NotHidden
  <2> QED
    BY <1>2, <2>1, <2>2 DEF Throwaway!Bytes, Throwaway!Visible
<1> QED
  BY <1>1, <1>2 DEF Seeable

LEMMA ViewStores ==
    ASSUME TypeOK, pre' = pre, NEW p \in Paths, Kind[p] # "input", NEW b, Seeable(b),
           \A q \in Paths : MergedContent(q)' = IF q = p THEN b ELSE MergedContent(q)
    PROVE  Throwaway!Next
<1>1. b \in Throwaway!Bytes
  BY SeeableBytes
<1>2. Throwaway!Store(p, b)
  BY DEF Throwaway!Store, OverlayRealFileHiddenByFilter, AllowRead
<1> QED
  BY <1>1, <1>2 DEF Throwaway!Next

\* A path from which a file can be removed has none below that the tool sees.
LEMMA ViewRemovable ==
    ASSUME NEW p \in Paths, MergedContent(p) # Absent,
           Kind[p] = "output" \/ (Kind[p] = "scratch" /\ LayersApart /\ ~Lower(p)),
           NoInode \notin Paths
    PROVE  Throwaway!Removable(p)
BY DEF Throwaway!Removable, LayersApart, Lower, Exists

LEMMA ViewRemoves ==
    ASSUME pre' = pre, NEW p \in Paths, Throwaway!Removable(p),
           \A q \in Paths : MergedContent(q)' = IF q = p THEN Absent ELSE MergedContent(q)
    PROVE  Throwaway!Next
<1>1. Throwaway!Remove(p)
  BY DEF Throwaway!Remove, OverlayRealFileHiddenByFilter, AllowRead
<1> QED
  BY <1>1 DEF Throwaway!Next

LEMMA ViewRenames ==
    ASSUME pre' = pre, NEW s \in Paths, NEW d \in Paths, s # d,
           Throwaway!Removable(s), Kind[d] # "input",
           \A q \in Paths : MergedContent(q)' = IF q = s THEN Absent
                                            ELSE IF q = d THEN MergedContent(s)
                                            ELSE MergedContent(q)
    PROVE  Throwaway!Next
<1>1. Throwaway!Rename(s, d)
  BY DEF Throwaway!Rename, OverlayRealFileHiddenByFilter, AllowRead
<1> QED
  BY <1>1 DEF Throwaway!Next
-----------------------------------------------------------------------------
(* What a step can do to the disk, and what the tools see of it.           *)

\* What has to be shown of every step.
Shows ==
    /\ OneName' /\ SeenBytes'
    /\ [Throwaway!Next]_(Throwaway!vars)

LEMMA NoInodeFacts ==
    /\ NoInode \notin Inodes /\ NoInode \notin Paths /\ NoInode \notin FreeInodes
    /\ FreeInodes \subseteq Inodes
    /\ \A i \in FreeInodes, l \in Layers, p \in Paths : fs[l][p] # i
BY DistinctAssumption DEF Inodes, FreeInodes, Live

\* A path whose entries and files are left alone shows what it showed.
LEMMA MergedKept ==
    ASSUME NEW q \in Paths,
           \A l \in Layers :
             /\ fs'[l][q] = fs[l][q]
             /\ Exists(l, q) => data'[fs[l][q]] = data[fs[l][q]]
    PROVE  MergedContent(q)' = MergedContent(q)
<1>1. \A l \in {"real", "back"} :
        /\ fs'[l][q] = fs[l][q]
        /\ Exists(l, q) => data'[fs[l][q]] = data[fs[l][q]]
  BY DEF Layers
<1> QED
  BY <1>1 DEF MergedContent, Exists, OverlayRealFileHiddenByFilter, AllowRead

LEMMA QuietShows ==
    ASSUME ViewInv, UNCHANGED Disk
    PROVE  Shows
<1>1. UNCHANGED Throwaway!vars
  BY ViewStutters, MergedKept DEF Disk
<1>2. OneName' /\ SeenBytes'
  BY DEF ViewInv, OneName, SeenBytes, Disk, Exists
<1> QED
  BY <1>1, <1>2 DEF Shows

\* Bytes are written to a file: the tool sees them at its one name, if it has one.
LEMMA BytesShow ==
    ASSUME ViewInv, UNCHANGED <<fs, pre>>, NEW i \in Inodes \ Protected,
           NEW b, Seeable(b), data' = [data EXCEPT ![i] = b]
    PROVE  Shows
<1>0. TypeOK /\ NoInode \notin Inodes /\ "real" \in Layers /\ "back" \in Layers
  BY NoInodeFacts DEF ViewInv, RoutedInv, Layers
<1>d. \A j \in Inodes : data'[j] = IF j = i THEN b ELSE data[j]
  BY <1>0 DEF TypeOK
<1>1. OneName'
  BY DEF ViewInv, OneName, Exists
<1>2. SeenBytes'
  <2> SUFFICES ASSUME ~FilterInputs, NEW l \in Layers, NEW p \in Paths, Exists(l, p)'
               PROVE  data'[fs'[l][p]] \in Procs \cup {Empty} \cup pre'
    BY DEF SeenBytes
  <2>1. fs'[l][p] = fs[l][p] /\ Exists(l, p) /\ fs[l][p] \in Inodes
    BY <1>0, EntryType DEF Exists
  <2> QED
    BY <1>d, <2>1 DEF ViewInv, SeenBytes, Seeable
<1>3. [Throwaway!Next]_(Throwaway!vars)
  <2>1. ASSUME NEW q \in Paths, \A l \in Layers : fs[l][q] # i
        PROVE  MergedContent(q)' = MergedContent(q)
    BY <1>0, <1>d, <2>1, EntryType, MergedKept
  <2>2. CASE \A l \in Layers, q \in Paths : fs[l][q] # i
    BY <2>1, <2>2, ViewStutters
  <2>3. ASSUME NEW l \in Layers, NEW p \in Paths, fs[l][p] = i
        PROVE  [Throwaway!Next]_(Throwaway!vars)
    <3>1. Exists(l, p)
      BY <1>0, <2>3 DEF Exists
    <3>2. \A k \in Layers, q \in Paths : fs[k][q] = i => k = l /\ q = p
      BY <2>3, <3>1 DEF ViewInv, OneName
    <3>3. \A q \in Paths : q # p => MergedContent(q)' = MergedContent(q)
      BY <2>1, <3>2
    <3>4. Kind[p] # "input"
      <4> SUFFICES ASSUME Kind[p] = "input" PROVE FALSE
        OBVIOUS
      <4>1. l = "real"
        BY <3>1 DEF ViewInv, LayersApart, Layers
      <4>2. i = p /\ p \in pre
        BY <2>3, <3>1, <4>1 DEF ViewInv, LayersApart, Exists
      <4> QED
        BY <4>2 DEF Protected
    <3>5. MergedContent(p)' \in {b, MergedContent(p)}
      <4>1. \A k \in Layers :
              /\ fs'[k][p] = fs[k][p]
              /\ Exists(k, p) =>
                   data'[fs[k][p]] = IF k = l THEN b ELSE data[fs[k][p]]
        BY <1>0, <1>d, <2>3, <3>2, EntryType
      <4>2. \A k \in {"real", "back"} :
              /\ fs'[k][p] = fs[k][p]
              /\ Exists(k, p) =>
                   data'[fs[k][p]] = IF k = l THEN b ELSE data[fs[k][p]]
        BY <4>1 DEF Layers
      <4> QED
        BY <4>2 DEF MergedContent, Exists, OverlayRealFileHiddenByFilter, AllowRead
    <3>6. CASE MergedContent(p)' = b
      BY <1>0, <3>3, <3>4, <3>6, ViewStores
    <3>7. CASE MergedContent(p)' = MergedContent(p)
      BY <3>3, <3>7, ViewStutters
    <3> QED
      BY <3>5, <3>6, <3>7
  <2> QED
    BY <2>2, <2>3
<1> QED
  BY <1>1, <1>2, <1>3 DEF Shows

\* A file appears in the layer its path belongs to: the tool sees its bytes there.
LEMMA NewFileShows ==
    ASSUME ViewInv, pre' = pre, NEW l \in Layers, NEW p \in Paths,
           l = "real" => Kind[p] = "output",
           l = "back" => Kind[p] = "scratch",
           NEW i \in FreeInodes, NEW b, Seeable(b),
           fs' = [fs EXCEPT ![l][p] = i], data' = [data EXCEPT ![i] = b]
    PROVE  Shows
<1>0. TypeOK /\ i \in Inodes /\ i # NoInode /\ \A k \in Layers, q \in Paths : fs[k][q] # i
  BY NoInodeFacts DEF ViewInv, RoutedInv
<1>d. \A j \in Inodes : data'[j] = IF j = i THEN b ELSE data[j]
  BY <1>0 DEF TypeOK
<1>f. \A k \in Layers, q \in Paths : fs'[k][q] = IF k = l /\ q = p THEN i ELSE fs[k][q]
  BY <1>0 DEF TypeOK
<1>1. OneName'
  BY <1>0, <1>f DEF ViewInv, OneName, Exists
<1>2. SeenBytes'
  <2> SUFFICES ASSUME ~FilterInputs, NEW k \in Layers, NEW q \in Paths, Exists(k, q)'
               PROVE  data'[fs'[k][q]] \in Procs \cup {Empty} \cup pre'
    BY DEF SeenBytes
  <2>1. CASE k = l /\ q = p
    BY <1>0, <1>d, <1>f, <2>1 DEF Seeable
  <2>2. CASE ~(k = l /\ q = p)
    <3>1. fs'[k][q] = fs[k][q] /\ Exists(k, q) /\ fs[k][q] \in Inodes
      BY <1>0, <1>f, <2>2, EntryType DEF Exists
    <3> QED
      BY <1>0, <1>d, <3>1 DEF ViewInv, SeenBytes
  <2> QED
    BY <2>1, <2>2
<1>3. \A q \in Paths : MergedContent(q)' = IF q = p THEN b ELSE MergedContent(q)
  <2>1. ASSUME NEW q \in Paths, q # p
        PROVE  MergedContent(q)' = MergedContent(q)
    BY <1>0, <1>d, <1>f, <2>1, EntryType, MergedKept
  <2>2. fs'[l][p] = i /\ data'[i] = b
    BY <1>0, <1>d, <1>f
  <2>3. MergedContent(p)' = b
    <3>1. CASE l = "back"
      BY <1>0, <2>2, <3>1 DEF MergedContent, ShouldRedirectToOverlay, Exists
    <3>2. CASE l = "real"
      BY <1>0, <2>2, <3>2 DEF MergedContent, ShouldRedirectToOverlay, Exists,
         OverlayRealFileHiddenByFilter, AllowRead
    <3> QED
      BY <3>1, <3>2 DEF Layers
  <2> QED
    BY <2>1, <2>3
<1> QED
  BY <1>0, <1>1, <1>2, <1>3, ViewStores DEF Shows, Layers

\* The file a removal or a move may take: one the tool sees, and nothing below it.
LEMMA TakenIsRemovable ==
    ASSUME ViewInv, NEW l \in Layers, NEW p \in Paths, Exists(l, p),
           \/ l = "real" /\ Kind[p] = "output"
           \/ l = "back" /\ Kind[p] = "scratch" /\ ~Lower(p)
    PROVE  /\ Throwaway!Removable(p)
           /\ MergedContent(p) = data[fs[l][p]]
<1>1. TypeOK /\ LayersApart /\ (~Exists("back", p) \/ Kind[p] = "scratch")
  BY DEF ViewInv, RoutedInv, LayersApart
<1>2. Kind[p] = "output" => ~OverlayRealFileHiddenByFilter(p)
  BY NotHidden
<1>3. MergedContent(p) = data[fs[l][p]] /\ MergedContent(p) # Absent
  BY <1>1, <1>2, MergedCases, EntryType, DistinctAssumption
     DEF Lower, Contents, ViewInv, RoutedInv
<1> QED
  BY <1>3, NoInodeFacts, ViewRemovable DEF ViewInv

LEMMA ClearShows ==
    ASSUME ViewInv, UNCHANGED <<data, pre>>, NEW l \in Layers, NEW p \in Paths, Exists(l, p),
           \/ l = "real" /\ Kind[p] = "output"
           \/ l = "back" /\ Kind[p] = "scratch" /\ ~Lower(p),
           fs' = [fs EXCEPT ![l][p] = NoInode]
    PROVE  Shows
<1>0. TypeOK
  BY DEF ViewInv, RoutedInv
<1>f. \A k \in Layers, q \in Paths : fs'[k][q] = IF k = l /\ q = p THEN NoInode ELSE fs[k][q]
  BY <1>0 DEF TypeOK
<1>1. OneName' /\ SeenBytes'
  BY <1>f DEF ViewInv, OneName, SeenBytes, Exists
<1>2. \A q \in Paths : MergedContent(q)' = IF q = p THEN Absent ELSE MergedContent(q)
  <2>1. ASSUME NEW q \in Paths, q # p
        PROVE  MergedContent(q)' = MergedContent(q)
    BY <1>f, <2>1, MergedKept
  <2>2. MergedContent(p)' = Absent
    <3>1. CASE l = "real"
      BY <1>f, <3>1 DEF MergedContent, ShouldRedirectToOverlay, Exists
    <3>2. CASE l = "back"
      <4>1. fs'["back"][p] = NoInode /\ fs'["real"][p] = fs["real"][p] /\ ~Lower(p)
        BY <1>f, <3>2 DEF Layers
      <4> QED
        BY <4>1 DEF MergedContent, Lower, Exists, OverlayRealFileHiddenByFilter, AllowRead
    <3> QED
      BY <3>1, <3>2 DEF Layers
  <2> QED
    BY <2>1, <2>2
<1> QED
  BY <1>1, <1>2, TakenIsRemovable, ViewRemoves DEF Shows

LEMMA MoveShows ==
    ASSUME ViewInv, UNCHANGED <<data, pre>>,
           NEW l \in Layers, NEW s \in Paths, Exists(l, s),
           \/ l = "real" /\ Kind[s] = "output"
           \/ l = "back" /\ Kind[s] = "scratch" /\ ~Lower(s),
           NEW m \in Layers, NEW d \in Paths, s # d,
           m = "real" => Kind[d] = "output",
           m = "back" => Kind[d] = "scratch",
           NEW i, i = fs[l][s],
           \A k \in Layers, q \in Paths :
             fs'[k][q] = IF k = l /\ q = s THEN NoInode
                         ELSE IF k = m /\ q = d THEN i ELSE fs[k][q]
    PROVE  Shows
<1>0. TypeOK /\ i # NoInode
  BY DEF ViewInv, RoutedInv, Exists
<1>o. \A k \in Layers, q \in Paths : fs[k][q] = i => k = l /\ q = s
  BY <1>0 DEF ViewInv, OneName, Exists
<1>k. Kind[d] # "input"
  BY DEF Layers
<1>t. Throwaway!Removable(s) /\ MergedContent(s) = data[i]
  BY TakenIsRemovable
<1>s. ~FilterInputs => data[i] \in Procs \cup {Empty} \cup pre
  BY <1>0 DEF ViewInv, SeenBytes, Exists
<1>1. OneName'
  BY <1>0, <1>o DEF ViewInv, OneName, Exists
<1>2. SeenBytes'
  <2> SUFFICES ASSUME ~FilterInputs, NEW k \in Layers, NEW q \in Paths, Exists(k, q)'
               PROVE  data[fs'[k][q]] \in Procs \cup {Empty} \cup pre
    BY DEF SeenBytes
  <2>1. CASE fs'[k][q] = i
    BY <1>s, <2>1
  <2>2. CASE fs'[k][q] # i
    BY <2>2 DEF ViewInv, SeenBytes, Exists
  <2> QED
    BY <2>1, <2>2
<1>3. \A q \in Paths : MergedContent(q)' = IF q = s THEN Absent
                                       ELSE IF q = d THEN MergedContent(s)
                                       ELSE MergedContent(q)
  <2>1. ASSUME NEW q \in Paths, q # s, q # d
        PROVE  MergedContent(q)' = MergedContent(q)
    <3>1. \A k \in Layers : fs'[k][q] = fs[k][q]
      BY <2>1
    <3> QED
      BY <3>1, MergedKept
  <2>2. MergedContent(s)' = Absent
    <3>1. CASE l = "real"
      BY <3>1 DEF MergedContent, ShouldRedirectToOverlay, Exists
    <3>2. CASE l = "back"
      <4>1. fs'["back"][s] = NoInode /\ fs'["real"][s] = fs["real"][s] /\ ~Lower(s)
        BY <3>2 DEF Layers
      <4> QED
        BY <4>1 DEF MergedContent, Lower, Exists, OverlayRealFileHiddenByFilter, AllowRead
    <3> QED
      BY <3>1, <3>2 DEF Layers
  <2>3. MergedContent(d)' = data[i]
    <3>0. fs'[m][d] = i
      OBVIOUS
    <3>1. CASE m = "back"
      BY <1>0, <3>0, <3>1 DEF MergedContent, ShouldRedirectToOverlay, Exists
    <3>2. CASE m = "real"
      BY <1>0, <3>0, <3>2 DEF MergedContent, ShouldRedirectToOverlay, Exists,
         OverlayRealFileHiddenByFilter, AllowRead
    <3> QED
      BY <3>1, <3>2 DEF Layers
  <2> QED
    BY <1>t, <2>1, <2>2, <2>3
<1> QED
  BY <1>1, <1>2, <1>3, <1>k, <1>t, ViewRenames DEF Shows
-----------------------------------------------------------------------------
(* Every step of every hook is one of these.                               *)

LEMMA HookShows ==
    ASSUME ViewInv, NEW w \in Procs, HookSteps(w)
    PROVE  Shows
<1> DEFINE c == call[w]
<1>0. /\ TypeOK /\ Routed(pc[w], c)
      /\ c.src \in Paths /\ c.dst \in Paths
      /\ c.effSrc \in Layers /\ c.effDst \in Layers /\ "back" \in Layers
  BY CallFields DEF ViewInv, RoutedInv, Layers
<1>s. ASSUME ~FilterInputs, NEW l \in Layers, NEW p \in Paths, Exists(l, p)
      PROVE  Seeable(data[fs[l][p]])
  BY <1>s DEF ViewInv, SeenBytes, Seeable
<1>e. Seeable(Empty)
  BY DEF Seeable
<1>p. ASSUME NEW l \in Layers, NEW p \in Paths, fs[l][p] \in Protected
      PROVE  l = "real" /\ fs[l][p] = p /\ Kind[p] # "output"
  BY <1>p, ProtectedFacts DEF ViewInv, UntouchedInv, Unaliased
<1>1. CASE UNCHANGED Disk
  BY <1>1, QuietShows
<1>2. CASE CopyUp(w)
  <2>1. ASSUME NEW i \in FreeInodes, Exists("real", c.dst),
               fs' = [fs EXCEPT !["back"][c.dst] = i],
               data' = [data EXCEPT ![i] = data[fs["real"][c.dst]]]
        PROVE  Shows
    <3>1. pre' = pre /\ Kind[c.dst] = "scratch" /\ ~FilterInputs
      BY <1>0, <1>2 DEF CopyUp, Routed, ViewInv, FilteredCalls
    <3>2. Seeable(data[fs["real"][c.dst]])
      BY <1>0, <1>s, <2>1, <3>1 DEF Layers
    <3> QED
      BY <1>0, <2>1, <3>1, <3>2, NewFileShows
  <2> QED
    BY <1>1, <1>2, <2>1 DEF CopyUp, Disk
<1>3. CASE RealOpenExisting(w)
  <2> DEFINE i == fs[c.effDst][c.dst]
  <2>1. CASE KeepsContent(c.disp)
    BY <1>1, <1>3, <2>1 DEF RealOpenExisting, Disk
  <2>2. CASE ~KeepsContent(c.disp)
    <3>1. UNCHANGED <<fs, pre>> /\ data' = [data EXCEPT ![i] = Empty] /\ i \in Inodes
      BY <1>0, <1>3, <2>2, EntryType DEF RealOpenExisting
    <3>2. i \notin Protected
      <4> SUFFICES ASSUME i \in Protected PROVE FALSE
        OBVIOUS
      <4>1. c.effDst = "real" /\ Kind[c.dst] # "output"
        BY <1>0, <1>p
      <4>2. c.disp # "CREATE_NEW" /\ c.disp # "OPEN_EXISTING" /\ pc[w] = "open"
        BY <1>3, <2>2 DEF RealOpenExisting, KeepsContent
      <4> QED
        BY <1>0, <4>1, <4>2 DEF Routed
    <3> QED
      BY <1>e, <3>1, <3>2, BytesShow
  <2> QED
    BY <2>1, <2>2
<1>4. CASE RealOpenCreates(w)
  <2>1. PICK i \in FreeInodes : /\ fs' = [fs EXCEPT ![c.effDst][c.dst] = i]
                                /\ data' = [data EXCEPT ![i] = Empty]
    BY <1>4 DEF RealOpenCreates
  <2>2. /\ pre' = pre
        /\ c.effDst = "real" => Kind[c.dst] = "output"
        /\ c.effDst = "back" => Kind[c.dst] = "scratch"
    BY <1>0, <1>4 DEF RealOpenCreates, Routed, Lower
  <2> QED
    BY <1>0, <1>e, <2>1, <2>2, NewFileShows
<1>5. CASE RealCopyFileEx(w)
  <2> DEFINE b == data[fs[c.effSrc][c.src]]
  <2>1. /\ pre' = pre
        /\ c.effDst = "real" => Kind[c.dst] = "output"
        /\ c.effDst = "back" => Kind[c.dst] = "scratch"
    BY <1>0, <1>5 DEF RealCopyFileEx, Routed
  <2>2. Seeable(b)
    BY <1>0, <1>5, <1>s DEF RealCopyFileEx, ViewInv, FilteredCalls
  <2>3. CASE Exists(c.effDst, c.dst)
    <3> DEFINE i == fs[c.effDst][c.dst]
    <3>1. fs' = fs /\ data' = [data EXCEPT ![i] = b] /\ i \in Inodes
      BY <1>0, <1>5, <2>3, EntryType DEF RealCopyFileEx
    <3>2. i \notin Protected
      BY <1>0, <1>p, <2>1
    <3> HIDE DEF b, i
    <3> QED
      BY <2>1, <2>2, <3>1, <3>2, BytesShow
  <2>4. CASE ~Exists(c.effDst, c.dst)
    <3>1. PICK i \in FreeInodes : /\ fs' = [fs EXCEPT ![c.effDst][c.dst] = i]
                                  /\ data' = [data EXCEPT ![i] = b]
      BY <1>5, <2>4 DEF RealCopyFileEx
    <3> HIDE DEF b
    <3> QED
      BY <1>0, <2>1, <2>2, <3>1, NewFileShows
  <2> QED
    BY <2>3, <2>4
<1>6. CASE RealCreateHardLinkW(w)
  BY <1>6 DEF RealCreateHardLinkW, ViewInv, UntouchedInv, PendingHarmless
<1>7. ASSUME pc[w] \in {"delete", "move"}, Exists(c.effSrc, c.src)
      PROVE  \/ c.effSrc = "real" /\ Kind[c.src] = "output"
             \/ c.effSrc = "back" /\ Kind[c.src] = "scratch" /\ ~Lower(c.src)
  BY <1>0, <1>7 DEF Routed, Layers
<1>8. CASE RealDeleteFileW(w)
  BY <1>0, <1>7, <1>8, ClearShows DEF RealDeleteFileW
<1>9. CASE RealMoveFile(w)
  <2> DEFINE i == fs[c.effSrc][c.src]
             l == c.effSrc
             m == c.effDst
             s == c.src
             d == c.dst
  <2>1. pc[w] = "move" /\ Exists(l, s) /\ UNCHANGED <<data, pre>>
    BY <1>9 DEF RealMoveFile
  <2>2. \A k \in Layers, q \in Paths :
          fs'[k][q] = IF k = l /\ q = s THEN NoInode
                      ELSE IF k = m /\ q = d THEN i ELSE fs[k][q]
    <3>1. fs' = [fs EXCEPT ![m][d] = i, ![l][s] = NoInode]
      BY <1>9 DEF RealMoveFile
    <3> QED
      BY <1>0, <3>1 DEF TypeOK
  <2>3. /\ s # d
        /\ m = "real" => Kind[d] = "output"
        /\ m = "back" => Kind[d] = "scratch"
    BY <1>0, <2>1 DEF Routed
  <2>4. \/ l = "real" /\ Kind[s] = "output"
        \/ l = "back" /\ Kind[s] = "scratch" /\ ~Lower(s)
    BY <1>7, <2>1
  <2>5. l \in Layers /\ m \in Layers /\ s \in Paths /\ d \in Paths /\ i = fs[l][s]
    BY <1>0
  <2> HIDE DEF i, l, m, s, d
  <2> QED
    BY <2>1, <2>2, <2>3, <2>4, <2>5, MoveShows
<1> QED
  BY <1>1, <1>2, <1>3, <1>4, <1>5, <1>6, <1>8, <1>9
     DEF HookSteps, ResolveCreateNew, RealOpenFails, CreateFileReadCheck,
         RealCopyOrLinkFails, SourceReadCheck, ResolveOverlayDelete, RealRemovalFails

LEMMA NextShows ==
    ASSUME PrivateWorkload, ViewInv, [Next]_vars
    PROVE  Shows
<1>1. CASE UNCHANGED vars
  BY <1>1, QuietShows DEF vars, Disk
<1>2. ASSUME NEW w \in Procs, HookSteps(w)
      PROVE  Shows
  BY <1>2, HookShows
<1>3. ASSUME NEW w \in Procs, ToolCalls(w)
      PROVE  Shows
  <2>1. CASE WriteFile(w)
    <3>1. handle[w].ino \in Inodes \ Protected
      BY <2>1 DEF WriteFile, ViewInv, UntouchedInv, NoWriteHandle, TypeOK, Handles, NoHandle
    <3>2. UNCHANGED <<fs, pre>> /\ data' = [data EXCEPT ![handle[w].ino] = w]
      BY <2>1 DEF WriteFile
    <3>3. Seeable(w)
      BY DEF Seeable
    <3> QED
      BY <3>1, <3>2, <3>3, BytesShow
  <2>2. ~WriteFile(w) => UNCHANGED Disk
    BY <1>3 DEF ToolCalls, CreateFileW, CloseHandle, CreateHardLinkW, CopyFileEx,
       MoveFileWithProgress, DeleteFileW
  <2> QED
    BY <2>1, <2>2, QuietShows
<1>4. ASSUME NEW p \in Paths, ForeignCreate(p) \/ ForeignDelete(p)
      PROVE  FALSE
  BY <1>4 DEF ForeignCreate, ForeignDelete, PrivateWorkload
<1> QED
  BY <1>1, <1>2, <1>3, <1>4 DEF Next

LEMMA LayersStayApart ==
    ASSUME PrivateWorkload, ViewInv, [Next]_vars
    PROVE  LayersApart'
<1>0. TypeOK /\ RoutedInv /\ pre' = pre
  BY PreKept DEF ViewInv, RoutedInv
<1>1. ASSUME NEW p \in Paths, Kind[p] # "output"
      PROVE  fs'["real"][p] = fs["real"][p]
  BY <1>0, <1>1, RealKept DEF ForeignCreate, ForeignDelete, PrivateWorkload
<1>2. ASSUME NEW p \in Paths, Exists("back", p)', Kind[p] # "scratch"
      PROVE  FALSE
  <2>1. "back" \in Layers /\ fs["back"][p] = NoInode /\ fs'["back"][p] # NoInode
    BY <1>2 DEF Layers, Exists, ViewInv, LayersApart
  <2>2. PICK w \in Procs : HookSteps(w) \/ ToolCalls(w)
    BY <2>1 DEF Next, vars, ForeignCreate, ForeignDelete, PrivateWorkload
  <2>3. FillsEntry(w, "back", p)
    BY <1>0, <2>1, <2>2, EntryEffect DEF ClearsEntry
  <2> QED
    BY <1>0, <1>2, <2>3 DEF FillsEntry, RoutedInv, Routed
<1> QED
  BY <1>0, <1>1, <1>2 DEF ViewInv, LayersApart

\* Without calls that keep or copy bytes none are ever copied.
LEMMA NoCopying ==
    ASSUME TypeOK, [Next]_vars, Workload \cap {"modify", "copy"} = {},
           NEW v \in Procs, pc[v] \notin {"copyup", "copy"}
    PROVE  pc'[v] \notin {"copyup", "copy"}
<1>1. CASE pc'[v] = pc[v]
  BY <1>1
<1>2. CASE HookSteps(v)
  BY <1>2, ZenonT(60) DEF HookSteps, ResolveCreateNew, CopyUp, RealOpenFails, RealOpenExisting,
     RealOpenCreates, CreateFileReadCheck, RealCopyOrLinkFails, RealCopyFileEx,
     RealCreateHardLinkW, SourceReadCheck, ResolveOverlayDelete, RealRemovalFails,
     RealDeleteFileW, RealMoveFile, Opened, Return, ToSourceCheck, TypeOK
<1>3. CASE ToolCalls(v)
  <2>1. ASSUME NEW p \in Paths, NEW acc \in Accesses, NEW disp \in Dispositions,
               CreateFileW(v, p, acc, disp)
        PROVE  pc'[v] \notin {"copyup", "copy"}
    <3>1. ~("W" \in acc /\ KeepsContent(disp))
      BY <2>1 DEF CreateFileW, OpenClass, KeepsContent
    <3>2. OpenStep(p, acc, disp) \notin {"copyup", "copy"}
      BY <3>1 DEF OpenStep
    <3> QED
      BY <2>1, <3>2 DEF CreateFileW, Return, Enter, TypeOK
  <2>2. ASSUME ~\E p \in Paths, acc \in Accesses, disp \in Dispositions :
                  CreateFileW(v, p, acc, disp)
        PROVE  pc'[v] \notin {"copyup", "copy"}
    BY <1>3, <2>2, ZenonT(60) DEF ToolCalls, WriteFile, CloseHandle, CreateHardLinkW,
       CopyFileEx, MoveFileWithProgress, DeleteFileW, StartRemoval, Return, Enter,
       TypeOK
  <2> QED
    BY <2>1, <2>2
<1>4. ASSUME NEW w \in Procs, HookSteps(w) \/ ToolCalls(w), w # v
      PROVE  pc'[v] \notin {"copyup", "copy"}
  BY <1>1, <1>4, OthersWait
<1>5. CASE UNCHANGED vars
  BY <1>1, <1>5 DEF vars
<1>6. ASSUME NEW p \in Paths, ForeignCreate(p) \/ ForeignDelete(p)
      PROVE  pc'[v] \notin {"copyup", "copy"}
  BY <1>1, <1>6 DEF ForeignCreate, ForeignDelete
<1> QED
  BY <1>2, <1>3, <1>4, <1>5, <1>6 DEF Next

LEMMA FilteredKept ==
    ASSUME PrivateWorkload, ViewInv, [Next]_vars
    PROVE  FilteredCalls'
BY NoCopying DEF ViewInv, RoutedInv, FilteredCalls, PrivateWorkload

LEMMA ViewInit == Init => ViewInv /\ Throwaway!Init
<1> SUFFICES ASSUME Init PROVE ViewInv /\ Throwaway!Init
  OBVIOUS
<1>1. UntouchedInv /\ RoutedInv
  BY InitUntouched, RoutedInit
<1>2. /\ pre \subseteq Paths
      /\ \A p \in Paths : /\ fs["real"][p] = IF p \in pre THEN p ELSE NoInode
                          /\ fs["back"][p] = NoInode
      /\ \A p \in Paths : data[p] = p
      /\ \A w \in Procs : pc[w] = "idle"
  BY DEF Init, Layers, Inodes
<1>3. LayersApart /\ OneName /\ SeenBytes /\ FilteredCalls
  BY <1>2 DEF LayersApart, OneName, SeenBytes, FilteredCalls, Exists, Layers
<1>4. \A p \in Paths : MergedContent(p) =
        IF p \in pre /\ ~OverlayRealFileHiddenByFilter(p) THEN p ELSE Absent
  BY <1>2, NoInodeFacts DEF MergedContent, Exists
<1> QED
  BY <1>1, <1>3, <1>4 DEF ViewInv, Throwaway!Init

LEMMA ViewNext ==
    ASSUME PrivateWorkload, ViewInv, [Next]_vars
    PROVE  ViewInv'
<1>1. UntouchedInv'
  BY NextUntouched DEF ViewInv, PrivateWorkload, SafeWorkload
<1>2. RoutedInv'
  BY RoutedNext DEF ViewInv, PrivateWorkload, ScratchIsOurs
<1>3. OneName' /\ SeenBytes'
  BY NextShows DEF Shows
<1> QED
  BY <1>1, <1>2, <1>3, LayersStayApart, FilteredKept DEF ViewInv

\* The write overlay implements the private execroot: for any number of processes, of
\* files and any manifest, with copy-ups that fail, every step of every hook shows
\* the tools of the action one step of ThrowawayExecroot or nothing, as long as
\* nobody else works on the scratch paths, no hard links and no creating opens for
\* reading are made, and a filtered action neither copies nor modifies in place.
THEOREM OverlayIsThrowaway ==
    ASSUME PrivateWorkload
    PROVE  Spec => ImplementsThrowaway
<1>1. Init => ViewInv /\ Throwaway!Init
  BY ViewInit
<1>2. ViewInv /\ [Next]_vars => ViewInv'
  BY ViewNext
<1>3. ViewInv /\ [Next]_vars => [Throwaway!Next]_(Throwaway!vars)
  BY NextShows DEF Shows
<1> QED
  BY <1>1, <1>2, <1>3, PTL DEF Spec, ImplementsThrowaway, Throwaway!Spec
-----------------------------------------------------------------------------
(* What --filter-inputs hides.                                             *)

HiddenFile(p) == p \in pre /\ OverlayRealFileHiddenByFilter(p)

\* An action of one process that neither copies bytes nor keeps those of a file it
\* opens for writing.
HermeticWorkload ==
    /\ \A u, v \in Procs : u = v
    /\ Workload \cap {"rocreate", "link", "modify", "copy"} = {}

\* The bytes of a hidden file are nowhere else, ...
BytesAtHome ==
    \A i \in Inodes, p \in Paths : HiddenFile(p) /\ data[i] = p => i = p

\* ... an open goes to the real file only while no backing file shadows it, ...
OpensUnshadowed ==
    \A w \in Procs :
        LET c == call[w] IN
        pc[w] = "open" /\ c.effDst = "real" /\ Kind[c.dst] = "scratch"
          /\ c.disp # "CREATE_NEW" => ~Exists("back", c.dst)

\* ... and a handle that could read a hidden file still has its check to come,
\* which finds no backing file.
ReadsChecked ==
    \A w \in Procs :
        HiddenFile(handle[w].ino) /\ handle[w].read =>
          /\ pc[w] = "openread" /\ call[w].dst = handle[w].ino
          /\ ~Exists("back", handle[w].ino)

HiddenInv ==
    /\ UntouchedInv /\ BytesAtHome /\ OpensUnshadowed /\ ReadsChecked
    /\ \A w \in Procs : pc[w] \notin {"copyup", "copy"}

LEMMA HiddenFacts ==
    /\ \A p \in Paths : HiddenFile(p) =>
          p \in Protected /\ Kind[p] = "scratch" /\ ~AllowRead(p)
    /\ TypeOK => \A i : HiddenFile(i) => i \in Paths /\ i \notin FreeInodes
    /\ pre' = pre => \A p : HiddenFile(p)' = HiddenFile(p)
<1>1. \A p : OverlayRealFileHiddenByFilter(p) => Kind[p] = "scratch" /\ ~AllowRead(p)
  BY DEF OverlayRealFileHiddenByFilter, AllowRead
<1>2. pre \subseteq Paths => \A i \in pre : i \notin FreeInodes
  BY DistinctAssumption DEF FreeInodes
<1>3. pre' = pre => \A p : HiddenFile(p)' = HiddenFile(p)
  BY DEF HiddenFile, OverlayRealFileHiddenByFilter, AllowRead
<1> QED
  BY <1>1, <1>2, <1>3 DEF HiddenFile, Protected, TypeOK

LEMMA BytesStayHome ==
    ASSUME HermeticWorkload, HiddenInv, [Next]_vars
    PROVE  BytesAtHome'
<1>0. TypeOK /\ pre' = pre /\ Paths \cap (Procs \cup {Empty}) = {}
  BY PreKept, DistinctAssumption DEF HiddenInv, UntouchedInv
<1>1. ASSUME NEW i \in Inodes, NEW b \in Procs \cup {Empty}, data' = [data EXCEPT ![i] = b]
      PROVE  BytesAtHome'
  <2>1. \A j \in Inodes : data'[j] = IF j = i THEN b ELSE data[j]
    BY <1>0, <1>1 DEF TypeOK
  <2> QED
    BY <1>0, <2>1, HiddenFacts DEF HiddenInv, BytesAtHome
<1>2. CASE data' = data
  BY <1>0, <1>2, HiddenFacts DEF HiddenInv, BytesAtHome
<1>3. ASSUME NEW w \in Procs, HookSteps(w)
      PROVE  BytesAtHome'
  <2> DEFINE c == call[w]
  <2>1. /\ c.dst \in Paths /\ c.effDst \in Layers /\ FreeInodes \subseteq Inodes
        /\ pc[w] \notin {"copyup", "copy"}
    BY <1>0, CallFields, NoInodeFacts DEF HiddenInv
  <2>2. CASE RealOpenExisting(w)
    <3>1. fs[c.effDst][c.dst] \in Inodes
      BY <1>0, <2>1, <2>2, EntryType DEF RealOpenExisting
    <3> QED
      BY <1>1, <1>2, <2>2, <3>1 DEF RealOpenExisting
  <2>3. CASE RealOpenCreates(w)
    BY <1>1, <2>1, <2>3 DEF RealOpenCreates
  <2> QED
    BY <1>2, <1>3, <2>1, <2>2, <2>3
       DEF HookSteps, ResolveCreateNew, CopyUp, RealOpenFails, CreateFileReadCheck,
           RealCopyOrLinkFails, RealCopyFileEx, RealCreateHardLinkW, SourceReadCheck,
           ResolveOverlayDelete, RealRemovalFails, RealDeleteFileW, RealMoveFile, Disk
<1>4. ASSUME NEW w \in Procs, ToolCalls(w)
      PROVE  BytesAtHome'
  <2>1. CASE WriteFile(w)
    <3>1. handle[w].ino \in Inodes
      BY <1>0, <2>1 DEF WriteFile, TypeOK, Handles, NoHandle
    <3> QED
      BY <1>1, <2>1, <3>1 DEF WriteFile
  <2>2. ~WriteFile(w) => data' = data
    BY <1>4 DEF ToolCalls, CreateFileW, CloseHandle, CreateHardLinkW, CopyFileEx,
       MoveFileWithProgress, DeleteFileW, Disk
  <2> QED
    BY <1>2, <2>1, <2>2
<1>5. ASSUME NEW q \in Paths, ForeignCreate(q)
      PROVE  BytesAtHome'
  <2>1. \A j \in Inodes : data'[j] = IF j = q THEN q ELSE data[j]
    BY <1>0, <1>5 DEF ForeignCreate, TypeOK
  <2> QED
    BY <1>0, <2>1, HiddenFacts DEF HiddenInv, BytesAtHome
<1> QED
  BY <1>2, <1>3, <1>4, <1>5 DEF Next, vars, ForeignDelete

LEMMA OpensStayUnshadowed ==
    ASSUME HermeticWorkload, HiddenInv, [Next]_vars
    PROVE  OpensUnshadowed'
<1>0. TypeOK
  BY DEF HiddenInv, UntouchedInv
<1> SUFFICES ASSUME NEW w \in Procs, pc'[w] = "open", call'[w].effDst = "real",
                    Kind[call'[w].dst] = "scratch", call'[w].disp # "CREATE_NEW"
             PROVE  fs'["back"][call'[w].dst] = NoInode
  BY DEF OpensUnshadowed, Exists
<1>1. ASSUME UNCHANGED <<pc, call>>, fs'["back"] = fs["back"]
      PROVE  fs'["back"][call'[w].dst] = NoInode
  BY <1>1 DEF HiddenInv, OpensUnshadowed, Exists
<1>2. CASE HookSteps(w)
  <2>1. pc[w] # "copyup"
    BY DEF HiddenInv
  <2>2. ResolveCreateNew(w)
    BY <1>0, <1>2, <2>1 DEF HookSteps, CopyUp, RealOpenFails, RealOpenExisting,
       RealOpenCreates, CreateFileReadCheck, RealCopyOrLinkFails, RealCopyFileEx,
       RealCreateHardLinkW, SourceReadCheck, ResolveOverlayDelete, RealRemovalFails,
       RealDeleteFileW, RealMoveFile, Opened, Return, ToSourceCheck, TypeOK
  <2>3. call'[w].disp = call[w].disp
    BY <1>0, <2>2 DEF ResolveCreateNew, TypeOK, Calls
  <2>4. call[w].disp = "CREATE_NEW"
    BY <2>2 DEF ResolveCreateNew, HiddenInv, UntouchedInv, PendingHarmless
  <2> QED
    BY <2>3, <2>4
<1>3. CASE ToolCalls(w)
  <2>1. ASSUME NEW p \in Paths, NEW acc \in Accesses, NEW disp \in Dispositions,
               CreateFileW(w, p, acc, disp)
        PROVE  fs'["back"][call'[w].dst] = NoInode
    <3>1. fs' = fs /\ call'[w].dst = p /\ call'[w].effDst = OpenLayer(p, acc)
      <4> DEFINE o == [NoCall EXCEPT !.src = p, !.dst = p, !.acc = acc, !.disp = disp,
                                     !.effDst = OpenLayer(p, acc)]
      <4>1. fs' = fs /\ call'[w] = o
        BY <1>0, <2>1 DEF CreateFileW, Disk, Return, Enter, TypeOK
      <4>2. o.dst = p /\ o.effDst = OpenLayer(p, acc)
        BY DEF NoCall
      <4> QED
        BY <4>1, <4>2
    <3> QED
      BY <3>1 DEF OpenLayer, ShouldRedirectToOverlay, Exists
  <2>2. CASE WriteFile(w) \/ CloseHandle(w)
    BY <1>1, <2>2 DEF WriteFile, CloseHandle, Disk
  <2>3. CASE ~(WriteFile(w) \/ CloseHandle(w))
    BY <1>0, <1>3, <2>1, <2>3, ZenonT(60) DEF ToolCalls, CreateHardLinkW, CopyFileEx,
       MoveFileWithProgress, DeleteFileW, StartRemoval, Return, Enter, TypeOK
  <2> QED
    BY <2>2, <2>3
<1>4. CASE UNCHANGED vars
  BY <1>1, <1>4 DEF vars
<1>5. ASSUME NEW p \in Paths, ForeignCreate(p) \/ ForeignDelete(p)
      PROVE  fs'["back"] = fs["back"] /\ UNCHANGED <<pc, call>>
  BY <1>0, <1>5 DEF ForeignCreate, ForeignDelete, TypeOK, Layers
<1> QED
  BY <1>1, <1>2, <1>3, <1>4, <1>5 DEF Next, HermeticWorkload

LEMMA ReadsStayChecked ==
    ASSUME HermeticWorkload, HiddenInv, [Next]_vars
    PROVE  ReadsChecked'
<1>0. TypeOK /\ pre' = pre /\ \A i : HiddenFile(i)' = HiddenFile(i)
  BY PreKept, HiddenFacts DEF HiddenInv, UntouchedInv
<1> SUFFICES ASSUME NEW w \in Procs, NEW p, p = handle'[w].ino,
                    HiddenFile(p), handle'[w].read
             PROVE  /\ pc'[w] = "openread" /\ call'[w].dst = p
                    /\ fs'["back"][p] = NoInode
  BY <1>0 DEF ReadsChecked, Exists
<1>p. p \in Paths /\ p \in Protected /\ Kind[p] = "scratch" /\ ~AllowRead(p)
      /\ p \notin FreeInodes
  BY <1>0, HiddenFacts
<1>1. ASSUME handle'[w] = handle[w]
      PROVE  pc[w] = "openread" /\ call[w].dst = p /\ fs["back"][p] = NoInode
  BY <1>1 DEF HiddenInv, ReadsChecked, Exists
<1>2. ASSUME UNCHANGED <<pc, call, handle>>, fs'["back"] = fs["back"]
      PROVE  /\ pc'[w] = "openread" /\ call'[w].dst = p
             /\ fs'["back"][p] = NoInode
  BY <1>1, <1>2
<1>3. CASE HookSteps(w)
  <2> DEFINE c == call[w]
  <2>0. c \in Calls /\ c.dst \in Paths /\ c.effDst \in Layers
    BY <1>0, CallFields DEF TypeOK
  <2>1. CASE handle'[w] = handle[w]
    <3>1. CreateFileReadCheck(w)
      BY <1>1, <1>3, <2>1 DEF HookSteps, ResolveCreateNew, CopyUp, RealOpenFails,
         RealOpenExisting, RealOpenCreates, RealCopyOrLinkFails, RealCopyFileEx,
         RealCreateHardLinkW, SourceReadCheck, ResolveOverlayDelete, RealRemovalFails,
         RealDeleteFileW, RealMoveFile
    <3>2. c.dst = p /\ ~Exists("back", p)
      BY <1>1, <2>1 DEF Exists
    <3>3. ~CheckReadAccess(p, res[w] # "notfound")
      BY <1>p, <3>2 DEF CheckReadAccess, AllowReadIfNonexistent, HasOverlayBackingShadow
    <3>4. handle'[w] = NoHandle
      BY <1>0, <3>1, <3>2, <3>3 DEF CreateFileReadCheck, TypeOK
    <3> QED
      BY <3>4 DEF NoHandle
  <2>2. CASE handle'[w] # handle[w]
    <3>1. handle'[w] # NoHandle
      BY DEF NoHandle
    <3>2. RealOpenExisting(w) \/ RealOpenCreates(w)
      BY <1>0, <1>3, <2>2, <3>1 DEF HookSteps, ResolveCreateNew, CopyUp, RealOpenFails,
         CreateFileReadCheck, RealCopyOrLinkFails, RealCopyFileEx,
         RealCreateHardLinkW, SourceReadCheck, ResolveOverlayDelete, RealRemovalFails,
         RealDeleteFileW, RealMoveFile, Opened, TypeOK
    <3>3. ASSUME NEW i, Opened(w, HandleOn(w, i), "ok")
          PROVE  p = i /\ pc'[w] = "openread" /\ call'[w] = c
      BY <1>0, <3>3 DEF Opened, HandleOn, TypeOK
    <3>4. ~RealOpenCreates(w)
      BY <1>p, <3>3 DEF RealOpenCreates
    <3>5. /\ p = fs[c.effDst][c.dst] /\ pc'[w] = "openread" /\ call'[w] = c
          /\ fs' = fs /\ c.disp # "CREATE_NEW" /\ pc[w] = "open"
      BY <3>2, <3>3, <3>4 DEF RealOpenExisting
    <3>6. c.effDst = "real" /\ c.dst = p
      BY <1>p, <2>0, <3>5 DEF HiddenInv, UntouchedInv, Unaliased
    <3>7. ~Exists("back", p)
      BY <1>p, <3>5, <3>6 DEF HiddenInv, OpensUnshadowed
    <3> QED
      BY <3>5, <3>6, <3>7 DEF Exists
  <2> QED
    BY <2>1, <2>2
<1>4. CASE ToolCalls(w)
  <2>1. CASE CloseHandle(w)
    <3>1. handle'[w] = NoHandle
      BY <1>0, <2>1 DEF CloseHandle, TypeOK
    <3> QED
      BY <3>1 DEF NoHandle
  <2>2. ~CloseHandle(w) => handle'[w] = handle[w]
    BY <1>4 DEF ToolCalls, CreateFileW, WriteFile, CreateHardLinkW, CopyFileEx,
       MoveFileWithProgress, DeleteFileW
  <2>3. pc[w] = "idle"
    BY <1>4 DEF ToolCalls, CreateFileW, WriteFile, CloseHandle, CreateHardLinkW,
       CopyFileEx, MoveFileWithProgress, DeleteFileW
  <2> QED
    BY <1>1, <2>1, <2>2, <2>3
<1>5. CASE UNCHANGED vars
  BY <1>2, <1>5 DEF vars
<1>6. ASSUME NEW q \in Paths, ForeignCreate(q) \/ ForeignDelete(q)
      PROVE  fs'["back"] = fs["back"] /\ UNCHANGED <<pc, call, handle>>
  BY <1>0, <1>6 DEF ForeignCreate, ForeignDelete, TypeOK, Layers
<1> QED
  BY <1>2, <1>3, <1>4, <1>5, <1>6 DEF Next, HermeticWorkload

LEMMA HiddenStart == Init => HiddenInv
<1> SUFFICES ASSUME Init PROVE HiddenInv
  OBVIOUS
<1>1. UntouchedInv
  BY InitUntouched
<1>2. BytesAtHome
  BY DistinctAssumption DEF Init, BytesAtHome, HiddenFile
<1>3. /\ \A w \in Procs : pc[w] = "idle" /\ ~handle[w].read
  BY DEF Init, NoHandle
<1> QED
  BY <1>1, <1>2, <1>3 DEF HiddenInv, OpensUnshadowed, ReadsChecked

LEMMA HiddenNext ==
    ASSUME HermeticWorkload, HiddenInv, [Next]_vars
    PROVE  HiddenInv'
<1>1. UntouchedInv'
  BY NextUntouched DEF HiddenInv, HermeticWorkload, SafeWorkload
<1>2. \A w \in Procs : pc'[w] \notin {"copyup", "copy"}
  BY NoCopying DEF HiddenInv, UntouchedInv, HermeticWorkload
<1> QED
  BY <1>1, <1>2, BytesStayHome, OpensStayUnshadowed, ReadsStayChecked DEF HiddenInv

\* Under --filter-inputs a process never gets a handle that reads the bytes of an
\* undeclared file that was there before it: a handle the system opened on one is
\* closed by the check that follows, whatever other actions do at the same paths.
THEOREM HiddenFilesStayHidden ==
    ASSUME HermeticWorkload
    PROVE  Spec => []HiddenStaysHidden
<1>1. HiddenInv => HiddenStaysHidden
  <2> SUFFICES ASSUME HiddenInv, NEW w \in Procs, pc[w] = "idle", handle[w].read,
                      NEW p \in pre, OverlayRealFileHiddenByFilter(p),
                      data[handle[w].ino] = p
               PROVE  FALSE
    BY DEF HiddenStaysHidden
  <2>1. TypeOK /\ p \in Paths /\ HiddenFile(p)
    BY DEF HiddenInv, UntouchedInv, TypeOK, HiddenFile
  <2>2. handle[w].ino \in Inodes
    BY <2>1 DEF TypeOK, Handles, NoHandle
  <2>3. handle[w].ino = p
    BY <2>1, <2>2 DEF HiddenInv, BytesAtHome
  <2> QED
    BY <2>1, <2>3 DEF HiddenInv, ReadsChecked
<1> QED
  BY <1>1, HiddenStart, HiddenNext, PTL DEF Spec
=============================================================================

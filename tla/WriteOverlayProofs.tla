------------------------- MODULE WriteOverlayProofs -------------------------
(***************************************************************************)
(* Theorems about WriteOverlay for every number of processes, every set of *)
(* paths and every manifest.                                               *)
(***************************************************************************)
EXTENDS WriteOverlay, TLAPS

\* The call a process has between calls is a call like the others.
LEMMA NoCallType == NoCall \in Calls
<1>1. (CHOOSE p \in Paths : TRUE) \in Paths
  BY PathsAssumption
<1> QED
  BY <1>1 DEF NoCall, Calls, Dispositions, Flags, Layers

\* A returning hook leaves well-typed process state.
LEMMA ReturnType ==
    ASSUME TypeOK, NEW w \in Procs, NEW code \in Results, Return(w, code)
    PROVE  /\ pc' \in [Procs -> PCs]
           /\ call' \in [Procs -> Calls]
           /\ res' \in [Procs -> Results]
BY NoCallType DEF TypeOK, Return, PCs

LEMMA EnterType ==
    ASSUME TypeOK, NEW w \in Procs, NEW step \in PCs, NEW c \in Calls,
           Enter(w, step, c)
    PROVE  /\ pc' \in [Procs -> PCs]
           /\ call' \in [Procs -> Calls]
           /\ res' \in [Procs -> Results]
BY DEF TypeOK, Enter, Results

LEMMA DenialErrorType == \A acc : DenialError(acc) \in Results
BY DEF DenialError, Results

\* The records the handlers build are calls.
LEMMA OpenCallType ==
    ASSUME NEW p \in Paths, NEW acc \in Accesses, NEW disp \in Dispositions,
           NEW l \in Layers
    PROVE  [NoCall EXCEPT !.src = p, !.dst = p, !.acc = acc, !.disp = disp,
                          !.effDst = l] \in Calls
BY NoCallType DEF Calls, Accesses

LEMMA TwoPathCallType ==
    ASSUME NEW s \in Paths, NEW d \in Paths, NEW flags \in SUBSET Flags
    PROVE  TwoPathCall(s, d, flags) \in Calls
<1>1. ResolveOverlayProbePath(s) \in Layers /\ ResolveOverlayRenameDest(d) \in Layers
  BY DEF ResolveOverlayProbePath, ResolveOverlayRenameDest, Layers
<1> QED
  BY <1>1, NoCallType DEF TwoPathCall, Calls

\* The paths of a call in progress, and the entries it refers to.
LEMMA CallFields ==
    ASSUME TypeOK, NEW w \in Procs
    PROVE  /\ call[w].src \in Paths /\ call[w].dst \in Paths
           /\ call[w].effSrc \in Layers /\ call[w].effDst \in Layers
BY DEF TypeOK, Calls

LEMMA EntryType ==
    ASSUME TypeOK, NEW l \in Layers, NEW p \in Paths
    PROVE  /\ fs[l][p] \in Inodes \cup {NoInode}
           /\ Exists(l, p) => fs[l][p] \in Inodes /\ data[fs[l][p]] \in Contents
BY DEF TypeOK, Exists

LEMMA LinkType ==
    ASSUME NEW f \in [Layers -> [Paths -> Inodes \cup {NoInode}]],
           NEW l \in Layers, NEW p \in Paths, NEW i \in Inodes \cup {NoInode}
    PROVE  [f EXCEPT ![l][p] = i] \in [Layers -> [Paths -> Inodes \cup {NoInode}]]
OBVIOUS

LEMMA OpenedType ==
    ASSUME TypeOK, NEW w \in Procs, NEW h \in Handles, NEW code \in Results,
           Opened(w, h, code)
    PROVE  /\ handle' \in [Procs -> Handles]
           /\ pc' \in [Procs -> PCs]
           /\ call' \in [Procs -> Calls]
           /\ res' \in [Procs -> Results]
BY NoCallType DEF TypeOK, Opened, PCs

LEMMA HandleOnType ==
    ASSUME NEW w \in Procs, NEW i \in Inodes
    PROVE  HandleOn(w, i) \in Handles
BY DEF HandleOn, Handles
-----------------------------------------------------------------------------
(* Type correctness: one lemma per group of handlers.                      *)

LEMMA CreateFileType ==
    ASSUME TypeOK, NEW w \in Procs,
           \/ \E p \in Paths, acc \in Accesses, disp \in Dispositions :
                CreateFileW(w, p, acc, disp)
           \/ ResolveCreateNew(w)
           \/ CopyUp(w)
           \/ RealOpenFails(w)
           \/ RealOpenExisting(w)
           \/ RealOpenCreates(w)
           \/ CreateFileReadCheck(w)
    PROVE  TypeOK'
<1>0. call[w] \in Calls /\ handle[w] \in Handles /\ res[w] \in Results
  BY DEF TypeOK
<1>n. NoHandle \in Handles
  BY DEF Handles
<1>f. FreeInodes \subseteq Inodes /\ "real" \in Layers /\ "back" \in Layers
  BY DEF FreeInodes, Inodes, Layers
<1>1. ASSUME NEW p \in Paths, NEW acc \in Accesses, NEW disp \in Dispositions,
             CreateFileW(w, p, acc, disp)
      PROVE  TypeOK'
  <2>1. OpenStep(p, acc, disp) \in PCs /\ OpenLayer(p, acc) \in Layers
    BY DEF OpenStep, OpenLayer, PCs, Layers
  <2>2. /\ pc' \in [Procs -> PCs]
        /\ call' \in [Procs -> Calls]
        /\ res' \in [Procs -> Results]
    <3>1. CASE "W" \in acc /\ ~AllowWrite(p)
      BY <1>1, <3>1, ReturnType, DenialErrorType DEF CreateFileW
    <3>2. CASE ~("W" \in acc /\ ~AllowWrite(p))
      BY <1>1, <2>1, <3>2, EnterType, OpenCallType DEF CreateFileW
    <3> QED
      BY <3>1, <3>2
  <2> QED
    BY <1>1, <2>2 DEF CreateFileW, Disk, TypeOK
<1>2. CASE ResolveCreateNew(w)
  BY <1>2, <1>0 DEF ResolveCreateNew, Disk, TypeOK, Calls, PCs, Layers
<1>3. CASE CopyUp(w)
  <2>1. pc' \in [Procs -> PCs]
    BY <1>3 DEF CopyUp, TypeOK, PCs
  <2>2. /\ fs' \in [Layers -> [Paths -> Inodes \cup {NoInode}]]
        /\ data' \in [Inodes -> Contents]
    <3>1. CASE UNCHANGED <<fs, data>>
      BY <3>1 DEF TypeOK
    <3>2. ASSUME Exists("real", call[w].dst), NEW i \in FreeInodes,
                 fs' = [fs EXCEPT !["back"][call[w].dst] = i],
                 data' = [data EXCEPT ![i] = data[fs["real"][call[w].dst]]]
          PROVE  /\ fs' \in [Layers -> [Paths -> Inodes \cup {NoInode}]]
                 /\ data' \in [Inodes -> Contents]
      <4>1. call[w].dst \in Paths
        BY <1>0 DEF Calls
      <4>2. fs["real"][call[w].dst] \in Inodes
        BY <4>1, <3>2, <1>f DEF Exists, TypeOK
      <4> QED
        BY <4>1, <4>2, <3>2, <1>f DEF TypeOK
    <3> QED
      BY <1>3, <3>1, <3>2 DEF CopyUp
  <2> QED
    BY <1>3, <2>1, <2>2 DEF CopyUp, TypeOK
<1>4. CASE RealOpenFails(w)
  <2>1. \E code \in Results : Opened(w, NoHandle, code)
    BY <1>4 DEF RealOpenFails, Results
  <2> QED
    BY <1>4, <2>1, <1>n, OpenedType DEF RealOpenFails, Disk, TypeOK
<1>5. CASE RealOpenExisting(w)
  <2> DEFINE i == fs[call[w].effDst][call[w].dst]
  <2>1. i \in Inodes
    BY <1>5, <1>0 DEF RealOpenExisting, Exists, TypeOK, Calls
  <2>2. data' \in [Inodes -> Contents]
    BY <1>5, <2>1 DEF RealOpenExisting, TypeOK, Contents
  <2>3. HandleOn(w, i) \in Handles /\ "ok" \in Results
    BY <2>1, HandleOnType DEF Results
  <2>4. /\ handle' \in [Procs -> Handles]
        /\ pc' \in [Procs -> PCs]
        /\ call' \in [Procs -> Calls]
        /\ res' \in [Procs -> Results]
    BY <1>5, <2>3, OpenedType DEF RealOpenExisting
  <2> QED
    BY <1>5, <2>2, <2>4 DEF RealOpenExisting, TypeOK
<1>6. CASE RealOpenCreates(w)
  <2>1. PICK i \in FreeInodes :
          /\ fs' = [fs EXCEPT ![call[w].effDst][call[w].dst] = i]
          /\ data' = [data EXCEPT ![i] = Empty]
          /\ Opened(w, HandleOn(w, i), "ok")
    BY <1>6 DEF RealOpenCreates
  <2>2. HandleOn(w, i) \in Handles /\ "ok" \in Results
    BY <1>f, HandleOnType DEF Results
  <2>3. /\ handle' \in [Procs -> Handles]
        /\ pc' \in [Procs -> PCs]
        /\ call' \in [Procs -> Calls]
        /\ res' \in [Procs -> Results]
    BY <2>1, <2>2, OpenedType
  <2> QED
    BY <1>6, <1>0, <1>f, <2>1, <2>3 DEF RealOpenCreates, TypeOK, Calls, Contents
<1>7. CASE CreateFileReadCheck(w)
  <2>1. \E code \in Results : Return(w, code)
    BY <1>7, <1>0, DenialErrorType DEF CreateFileReadCheck
  <2>2. /\ pc' \in [Procs -> PCs]
        /\ call' \in [Procs -> Calls]
        /\ res' \in [Procs -> Results]
    BY <2>1, ReturnType
  <2> QED
    BY <1>7, <1>n, <2>2 DEF CreateFileReadCheck, Disk, TypeOK
<1> QED
  BY <1>1, <1>2, <1>3, <1>4, <1>5, <1>6, <1>7

LEMMA HandleUseType ==
    ASSUME TypeOK, NEW w \in Procs, WriteFile(w) \/ CloseHandle(w)
    PROVE  TypeOK'
<1>1. CASE WriteFile(w)
  <2>1. handle[w].ino \in Inodes
    BY <1>1 DEF WriteFile, TypeOK, Handles, NoHandle
  <2> QED
    BY <1>1, <2>1 DEF WriteFile, TypeOK, Contents
<1>2. CASE CloseHandle(w)
  BY <1>2 DEF CloseHandle, Disk, TypeOK, Handles
<1> QED
  BY <1>1, <1>2

LEMMA CopyLinkType ==
    ASSUME TypeOK, NEW w \in Procs,
           \/ \E s, d \in Paths, flags \in SUBSET {"FAIL_IF_EXISTS"} :
                CopyFileEx(w, s, d, flags)
           \/ \E s, d \in Paths : CreateHardLinkW(w, s, d)
           \/ RealCopyOrLinkFails(w)
           \/ RealCopyFileEx(w)
           \/ RealCreateHardLinkW(w)
           \/ SourceReadCheck(w)
    PROVE  TypeOK'
<1>0. call[w] \in Calls /\ res[w] \in Results
  BY DEF TypeOK
<1>f. FreeInodes \subseteq Inodes
  BY DEF FreeInodes, Inodes
<1>1. ASSUME NEW s \in Paths, NEW d \in Paths, NEW flags \in SUBSET Flags,
             NEW step \in {"copy", "link"},
             Return(w, "denied") \/ Enter(w, step, TwoPathCall(s, d, flags)),
             UNCHANGED <<Disk, handle>>
      PROVE  TypeOK'
  <2>1. "denied" \in Results /\ step \in PCs
    BY DEF Results, PCs
  <2>2. /\ pc' \in [Procs -> PCs]
        /\ call' \in [Procs -> Calls]
        /\ res' \in [Procs -> Results]
    BY <1>1, <2>1, ReturnType, EnterType, TwoPathCallType
  <2> QED
    BY <1>1, <2>2 DEF Disk, TypeOK
<1>2. ASSUME NEW s \in Paths, NEW d \in Paths,
             NEW flags \in SUBSET {"FAIL_IF_EXISTS"}, CopyFileEx(w, s, d, flags)
      PROVE  TypeOK'
  <2>1. flags \in SUBSET Flags
    BY DEF Flags
  <2> QED
    BY <1>1, <1>2, <2>1 DEF CopyFileEx
<1>3. ASSUME NEW s \in Paths, NEW d \in Paths, CreateHardLinkW(w, s, d)
      PROVE  TypeOK'
  BY <1>1, <1>3 DEF CreateHardLinkW
<1>4. ASSUME NEW code \in {"ok", "exists", "notfound"}, ToSourceCheck(w, code)
      PROVE  /\ pc' \in [Procs -> PCs]
             /\ call' \in [Procs -> Calls]
             /\ res' \in [Procs -> Results]
  BY <1>4 DEF ToSourceCheck, TypeOK, PCs, Results
<1>5. CASE RealCopyOrLinkFails(w)
  BY <1>4, <1>5 DEF RealCopyOrLinkFails, Disk, TypeOK
<1>6. CASE RealCopyFileEx(w)
  <2>0. /\ call[w].src \in Paths /\ call[w].dst \in Paths
        /\ call[w].effSrc \in Layers /\ call[w].effDst \in Layers
    BY CallFields
  <2>1. data[fs[call[w].effSrc][call[w].src]] \in Contents
    BY <1>6, <2>0, EntryType DEF RealCopyFileEx
  <2>2. /\ fs' \in [Layers -> [Paths -> Inodes \cup {NoInode}]]
        /\ data' \in [Inodes -> Contents]
    <3>1. CASE Exists(call[w].effDst, call[w].dst)
      BY <1>6, <2>0, <2>1, <3>1, EntryType DEF RealCopyFileEx, TypeOK
    <3>2. CASE ~Exists(call[w].effDst, call[w].dst)
      <4>1. PICK i \in FreeInodes :
              /\ fs' = [fs EXCEPT ![call[w].effDst][call[w].dst] = i]
              /\ data' = [data EXCEPT ![i] = data[fs[call[w].effSrc][call[w].src]]]
        BY <1>6, <3>2 DEF RealCopyFileEx
      <4> QED
        BY <1>f, <2>0, <2>1, <4>1, LinkType DEF TypeOK
    <3> QED
      BY <3>1, <3>2
  <2> QED
    BY <1>4, <1>6, <2>2 DEF RealCopyFileEx, TypeOK
<1>7. CASE RealCreateHardLinkW(w)
  <2>1. fs' \in [Layers -> [Paths -> Inodes \cup {NoInode}]]
    BY <1>7, CallFields, EntryType, LinkType DEF RealCreateHardLinkW, TypeOK
  <2> QED
    BY <1>4, <1>7, <2>1 DEF RealCreateHardLinkW, TypeOK
<1>8. CASE SourceReadCheck(w)
  <2>1. \E code \in Results : Return(w, code)
    BY <1>8, <1>0, DenialErrorType DEF SourceReadCheck
  <2> QED
    BY <1>8, <2>1, ReturnType DEF SourceReadCheck, Disk, TypeOK
<1> QED
  BY <1>2, <1>3, <1>5, <1>6, <1>7, <1>8

LEMMA RemovalType ==
    ASSUME TypeOK, NEW w \in Procs,
           \/ \E p \in Paths : DeleteFileW(w, p)
           \/ \E s, d \in Paths, flags \in SUBSET MoveFlags :
                MoveFileWithProgress(w, s, d, flags)
           \/ ResolveOverlayDelete(w)
           \/ RealRemovalFails(w)
           \/ RealDeleteFileW(w)
           \/ RealMoveFile(w)
    PROVE  TypeOK'
<1>0. call[w] \in Calls
  BY DEF TypeOK
<1>c. {"ok", "denied", "notfound", "exists"} \subseteq Results
  BY DEF Results
<1>1. ASSUME NEW p \in Paths, NEW c \in Calls, NEW r \in PCs, NEW q \in PCs,
             Return(w, "denied") \/ StartRemoval(w, p, c, r, q)
      PROVE  /\ pc' \in [Procs -> PCs]
             /\ call' \in [Procs -> Calls]
             /\ res' \in [Procs -> Results]
  <2>1. [c EXCEPT !.backed = Exists("back", p)] \in Calls
    BY DEF Exists, Calls
  <2> QED
    BY <1>1, <1>c, <2>1, ReturnType, EnterType DEF StartRemoval
<1>2. ASSUME NEW p \in Paths, DeleteFileW(w, p)
      PROVE  TypeOK'
  <2>1. [NoCall EXCEPT !.src = p, !.dst = p] \in Calls
    BY NoCallType DEF Calls
  <2>2. "delresolve" \in PCs /\ "delete" \in PCs
    BY DEF PCs
  <2> QED
    BY <1>1, <1>2, <2>1, <2>2 DEF DeleteFileW, Disk, TypeOK
<1>3. ASSUME NEW s \in Paths, NEW d \in Paths, NEW flags \in SUBSET MoveFlags,
             MoveFileWithProgress(w, s, d, flags)
      PROVE  TypeOK'
  <2>1. ResolveOverlayRenameDest(d) \in Layers /\ flags \in SUBSET Flags
    BY DEF ResolveOverlayRenameDest, Layers, Flags
  <2>2. [NoCall EXCEPT !.src = s, !.dst = d, !.flags = flags,
                       !.effDst = ResolveOverlayRenameDest(d)] \in Calls
    BY <2>1, NoCallType DEF Calls
  <2>3. "moveresolve" \in PCs /\ "move" \in PCs
    BY DEF PCs
  <2> QED
    BY <1>1, <1>3, <2>2, <2>3 DEF MoveFileWithProgress, Disk, TypeOK
<1>4. CASE ResolveOverlayDelete(w)
  <2>1. /\ pc' \in [Procs -> PCs]
        /\ call' \in [Procs -> Calls]
        /\ res' \in [Procs -> Results]
    <3>1. CASE \E code \in Results : Return(w, code)
      BY <3>1, ReturnType
    <3>2. CASE /\ pc' = [pc EXCEPT ![w] =
                           IF pc[w] = "delresolve" THEN "delete" ELSE "move"]
               /\ \E l \in Layers : call' = [call EXCEPT ![w].effSrc = l]
               /\ UNCHANGED res
      <4>1. PICK l \in Layers : call' = [call EXCEPT ![w].effSrc = l]
        BY <3>2
      <4>2. call' \in [Procs -> Calls]
        BY <4>1, <1>0 DEF TypeOK, Calls
      <4>3. pc' \in [Procs -> PCs]
        BY <3>2 DEF TypeOK, PCs
      <4> QED
        BY <3>2, <4>2, <4>3 DEF TypeOK
    <3> QED
      BY <1>4, <1>c, <3>1, <3>2 DEF ResolveOverlayDelete, Layers
  <2> QED
    BY <1>4, <2>1 DEF ResolveOverlayDelete, Disk, TypeOK
<1>5. CASE RealRemovalFails(w)
  BY <1>5, <1>c, ReturnType DEF RealRemovalFails, Disk, TypeOK
<1>6. CASE RealDeleteFileW(w)
  <2>1. fs' \in [Layers -> [Paths -> Inodes \cup {NoInode}]]
    BY <1>6, CallFields, LinkType DEF RealDeleteFileW, TypeOK
  <2> QED
    BY <1>6, <1>c, <2>1, ReturnType DEF RealDeleteFileW, TypeOK
<1>7. CASE RealMoveFile(w)
  <2>1. fs' \in [Layers -> [Paths -> Inodes \cup {NoInode}]]
    <3> DEFINE moved == [fs EXCEPT ![call[w].effDst][call[w].dst] =
                                     fs[call[w].effSrc][call[w].src]]
    <3>1. fs' = [moved EXCEPT ![call[w].effSrc][call[w].src] = NoInode]
      BY <1>7 DEF RealMoveFile
    <3>2. moved \in [Layers -> [Paths -> Inodes \cup {NoInode}]]
      BY CallFields, EntryType, LinkType DEF TypeOK
    <3> HIDE DEF moved
    <3> QED
      BY <3>1, <3>2, CallFields, LinkType
  <2> QED
    BY <1>7, <1>c, <2>1, ReturnType DEF RealMoveFile, TypeOK
<1> QED
  BY <1>2, <1>3, <1>4, <1>5, <1>6, <1>7

LEMMA ForeignType ==
    ASSUME TypeOK, NEW p \in Paths, ForeignCreate(p) \/ ForeignDelete(p)
    PROVE  TypeOK'
<1>1. p \in Inodes /\ p \in Contents /\ "real" \in Layers
  BY DEF Inodes, Contents, Layers
<1> QED
  BY <1>1 DEF ForeignCreate, ForeignDelete, TypeOK

LEMMA InitType == Init => TypeOK
<1> SUFFICES ASSUME Init PROVE TypeOK
  OBVIOUS
<1>1. /\ NoHandle \in Handles /\ "idle" \in PCs /\ "none" \in Results
      /\ Paths \subseteq Inodes /\ Paths \subseteq Contents /\ Empty \in Contents
  BY DEF Handles, PCs, Results, Inodes, Contents
<1> QED
  BY <1>1, NoCallType DEF Init, TypeOK

LEMMA NextType == TypeOK /\ [Next]_vars => TypeOK'
<1> SUFFICES ASSUME TypeOK, [Next]_vars PROVE TypeOK'
  OBVIOUS
<1>1. CASE UNCHANGED vars
  BY <1>1 DEF vars, TypeOK
<1>2. ASSUME NEW w \in Procs, HookSteps(w)
      PROVE  TypeOK'
  BY <1>2, CreateFileType, CopyLinkType, RemovalType DEF HookSteps
<1>3. ASSUME NEW w \in Procs, ToolCalls(w)
      PROVE  TypeOK'
  BY <1>3, CreateFileType, HandleUseType, CopyLinkType, RemovalType DEF ToolCalls
<1>4. ASSUME NEW p \in Paths, ForeignCreate(p) \/ ForeignDelete(p)
      PROVE  TypeOK'
  BY <1>4, ForeignType
<1> QED
  BY <1>1, <1>2, <1>3, <1>4 DEF Next

\* The state of the overlay stays well typed, for every workload.
THEOREM TypeCorrect == Spec => []TypeOK
<1> QED
  BY InitType, NextType, PTL DEF Spec
-----------------------------------------------------------------------------
(* Files that existed before the action are never touched.                 *)

\* A protected file is reachable under its own name only, ...
Unaliased ==
    \A l \in Layers, p \in Paths :
        fs[l][p] \in Protected => l = "real" /\ p = fs[l][p]

\* ... no process holds a handle through which it could write it, ...
NoWriteHandle ==
    \A w \in Procs : handle[w].ino \in Protected => ~handle[w].write

\* ... and a call whose real step is still to come, decided on what the hook
\* saw some steps ago, cannot harm it either.
PendingHarmless ==
    \A w \in Procs :
        LET c == call[w] IN
        /\ pc[w] # "link"
        /\ pc[w] = "newcheck" => c.disp = "CREATE_NEW"
        /\ pc[w] = "copyup" => c.effDst = "back"
        /\ pc[w] = "open" /\ c.effDst = "real" /\ c.dst \in Protected
             => \/ c.disp = "CREATE_NEW"
                \/ "W" \notin c.acc /\ c.disp = "OPEN_EXISTING"
        /\ pc[w] \in {"copy", "move", "moveresolve"} /\ c.effDst = "real"
             => Kind[c.dst] = "output"
        /\ pc[w] \in {"move", "delete"} /\ c.effSrc = "real"
             => c.src \notin Protected

UntouchedInv ==
    /\ TypeOK
    /\ PreExistingUntouched
    /\ Unaliased
    /\ NoWriteHandle
    /\ PendingHarmless

LEMMA ProtectedFacts ==
    /\ TypeOK => /\ Protected \subseteq Paths
                 /\ Protected \cap FreeInodes = {} /\ NoInode \notin Protected
    /\ \A p \in Protected : Kind[p] # "output"
    /\ pre' = pre => Protected' = Protected
<1>1. \A p \in Protected : p \in pre /\ Kind[p] # "output"
  BY DEF Protected
<1>2. Protected \subseteq pre /\ (pre' = pre => Protected' = Protected)
  BY DEF Protected
<1>3. pre \subseteq Paths
         => Protected \cap FreeInodes = {} /\ NoInode \notin Protected
  BY <1>2, DistinctAssumption DEF FreeInodes
<1> QED
  BY <1>1, <1>2, <1>3 DEF TypeOK

\* What the parts of the invariant say while the disk stays as it is.
LEMMA DiskUnchanged ==
    ASSUME UntouchedInv, UNCHANGED Disk
    PROVE  PreExistingUntouched' /\ Unaliased'
BY ProtectedFacts DEF UntouchedInv, PreExistingUntouched, Unaliased, Disk

\* Entries outside Protected may be pointed to files outside Protected.
LEMMA EntriesChange ==
    ASSUME UntouchedInv, pre' = pre,
           \A k \in Layers, q \in Paths :
             \/ fs'[k][q] = fs[k][q]
             \/ fs'[k][q] \notin Protected /\ (k = "real" => q \notin Protected),
           \A q \in Protected : data'[q] = data[q]
    PROVE  PreExistingUntouched' /\ Unaliased'
<1>1. Protected' = Protected /\ Protected \subseteq Paths /\ "real" \in Layers
  BY ProtectedFacts DEF UntouchedInv, Layers
<1> QED
  BY <1>1 DEF UntouchedInv, PreExistingUntouched, Unaliased

\* The same for a single entry.
LEMMA EntryChange ==
    ASSUME UntouchedInv, NEW l \in Layers, NEW p \in Paths,
           NEW i \in (Inodes \cup {NoInode}) \ Protected,
           fs' = [fs EXCEPT ![l][p] = i], pre' = pre,
           l = "real" => p \notin Protected,
           \A q \in Protected : data'[q] = data[q]
    PROVE  PreExistingUntouched' /\ Unaliased'
<1>1. \A k \in Layers, q \in Paths :
        fs'[k][q] = IF k = l /\ q = p THEN i ELSE fs[k][q]
  BY DEF UntouchedInv, TypeOK
<1>2. \A k \in Layers, q \in Paths :
        \/ fs'[k][q] = fs[k][q]
        \/ fs'[k][q] \notin Protected /\ (k = "real" => q \notin Protected)
  BY <1>1
<1> QED
  BY <1>2, EntriesChange

\* A write to a file outside Protected.
LEMMA BytesChange ==
    ASSUME UntouchedInv, UNCHANGED <<fs, pre>>,
           \A q \in Protected : data'[q] = data[q]
    PROVE  PreExistingUntouched' /\ Unaliased'
BY ProtectedFacts DEF UntouchedInv, PreExistingUntouched, Unaliased

\* A handler that only moves its own process on keeps what holds of the others.
LEMMA PendingStep ==
    ASSUME UntouchedInv, NEW w \in Procs, NEW step, NEW c, pre' = pre,
           pc' = [pc EXCEPT ![w] = step], call' = [call EXCEPT ![w] = c],
           step # "link",
           step = "newcheck" => c.disp = "CREATE_NEW",
           step = "copyup" => c.effDst = "back",
           step = "open" /\ c.effDst = "real" /\ c.dst \in Protected
             => \/ c.disp = "CREATE_NEW"
                \/ "W" \notin c.acc /\ c.disp = "OPEN_EXISTING",
           step \in {"copy", "move", "moveresolve"} /\ c.effDst = "real"
             => Kind[c.dst] = "output",
           step \in {"move", "delete"} /\ c.effSrc = "real"
             => c.src \notin Protected
    PROVE  PendingHarmless'
<1>1. Protected' = Protected
  BY ProtectedFacts
<1>2. \A v \in Procs : /\ pc'[v] = IF v = w THEN step ELSE pc[v]
                       /\ call'[v] = IF v = w THEN c ELSE call[v]
  BY DEF UntouchedInv, TypeOK
<1> QED
  BY <1>1, <1>2 DEF UntouchedInv, PendingHarmless

LEMMA PendingReturn ==
    ASSUME UntouchedInv, NEW w \in Procs, NEW code, Return(w, code), pre' = pre
    PROVE  PendingHarmless'
BY PendingStep DEF Return

LEMMA HandlesUnchanged ==
    ASSUME UntouchedInv, UNCHANGED <<handle, pre>>
    PROVE  NoWriteHandle'
BY ProtectedFacts DEF UntouchedInv, NoWriteHandle

LEMMA HandleChange ==
    ASSUME UntouchedInv, NEW w \in Procs, NEW h, pre' = pre,
           handle' = [handle EXCEPT ![w] = h],
           h.ino \in Protected => ~h.write
    PROVE  NoWriteHandle'
<1>1. \A v \in Procs : handle'[v] = IF v = w THEN h ELSE handle[v]
  BY DEF UntouchedInv, TypeOK
<1> QED
  BY <1>1, ProtectedFacts DEF UntouchedInv, NoWriteHandle

\* The end of the real open: the handle, and the step that follows.
LEMMA OpenedUntouched ==
    ASSUME UntouchedInv, NEW w \in Procs, NEW h, NEW code, Opened(w, h, code),
           pre' = pre, h.ino \in Protected => ~h.write
    PROVE  NoWriteHandle' /\ PendingHarmless'
<1>1. NoWriteHandle'
  BY HandleChange DEF Opened
<1>2. CASE "R" \in call[w].acc
  <2>1. call' = [call EXCEPT ![w] = call[w]]
    BY <1>2 DEF Opened, UntouchedInv, TypeOK
  <2> QED
    BY <1>1, <1>2, <2>1, PendingStep DEF Opened
<1>3. CASE "R" \notin call[w].acc
  BY <1>1, <1>3, PendingStep DEF Opened
<1> QED
  BY <1>2, <1>3
-----------------------------------------------------------------------------
(* One lemma per group of handlers.  The two workloads excluded here are    *)
(* the ones for which the property fails: TLC shows how.                    *)

SafeWorkload == Workload \cap {"rocreate", "link"} = {}

LEMMA KindCases == \A p \in Paths : Kind[p] \in {"scratch", "input", "output"}
BY PathsAssumption DEF Kinds

LEMMA CreateFileUntouched ==
    ASSUME SafeWorkload, UntouchedInv, NEW w \in Procs, NEW p \in Paths,
           NEW acc \in Accesses, NEW disp \in Dispositions,
           CreateFileW(w, p, acc, disp)
    PROVE  PreExistingUntouched' /\ Unaliased' /\ NoWriteHandle' /\ PendingHarmless'
<1>1. PreExistingUntouched' /\ Unaliased'
  BY DiskUnchanged DEF CreateFileW
<1>2. pre' = pre /\ NoWriteHandle'
  BY HandlesUnchanged DEF CreateFileW, Disk
<1>3. CASE "W" \in acc /\ ~AllowWrite(p)
  BY <1>1, <1>2, <1>3, PendingReturn DEF CreateFileW
<1>4. CASE ~("W" \in acc /\ ~AllowWrite(p))
  <2> DEFINE step == OpenStep(p, acc, disp)
             c == [NoCall EXCEPT !.src = p, !.dst = p, !.acc = acc,
                                 !.disp = disp, !.effDst = OpenLayer(p, acc)]
  <2>1. Enter(w, step, c)
    BY <1>4 DEF CreateFileW
  <2>2. c.dst = p /\ c.acc = acc /\ c.disp = disp /\ c.effDst = OpenLayer(p, acc)
    BY DEF NoCall
  <2>3. /\ step \in {"newcheck", "copyup", "open"}
        /\ step = "newcheck" => disp = "CREATE_NEW"
        /\ step = "copyup" => ShouldRedirectToOverlay(p) /\ "W" \in acc
    BY DEF OpenStep
  <2>4. step = "copyup" => c.effDst = "back"
    BY <2>2, <2>3 DEF OpenLayer
  <2>5. ASSUME c.effDst = "real", p \in Protected
        PROVE  "W" \notin acc /\ disp = "OPEN_EXISTING"
    <3>1. "W" \notin acc
      BY <1>4, <2>2, <2>5, KindCases, ProtectedFacts
         DEF OpenLayer, AllowWrite, ShouldRedirectToOverlay
    <3>2. OpenClass(acc, disp) # "rocreate"
      BY DEF CreateFileW, SafeWorkload
    <3> QED
      BY <3>1, <3>2 DEF OpenClass
  <2> HIDE DEF step, c
  <2> QED
    BY <1>1, <1>2, <2>1, <2>2, <2>3, <2>4, <2>5, PendingStep DEF Enter
<1> QED
  BY <1>3, <1>4

\* The steps of an open after the policy check.
LEMMA OpenUntouched ==
    ASSUME UntouchedInv, NEW w \in Procs,
           \/ ResolveCreateNew(w) \/ CopyUp(w)
           \/ RealOpenFails(w) \/ RealOpenExisting(w) \/ RealOpenCreates(w)
           \/ CreateFileReadCheck(w)
    PROVE  PreExistingUntouched' /\ Unaliased' /\ NoWriteHandle' /\ PendingHarmless'
<1> DEFINE c == call[w]
<1>0. TypeOK /\ c \in Calls /\ c.dst \in Paths /\ c.effDst \in Layers
  BY CallFields DEF UntouchedInv, TypeOK
<1>f. /\ FreeInodes \subseteq (Inodes \cup {NoInode}) \ Protected
      /\ "back" \in Layers
  BY <1>0, ProtectedFacts DEF FreeInodes, Inodes, Layers
<1>h. ~NoHandle.write
  BY DEF NoHandle
<1>p. /\ pc[w] = "newcheck" => c.disp = "CREATE_NEW"
      /\ pc[w] = "copyup" => c.effDst = "back"
      /\ pc[w] = "open" /\ c.effDst = "real" /\ c.dst \in Protected
           => \/ c.disp = "CREATE_NEW"
              \/ "W" \notin c.acc /\ c.disp = "OPEN_EXISTING"
  BY DEF UntouchedInv, PendingHarmless
<1>1. CASE ResolveCreateNew(w)
  <2>1. PICK l \in Layers : call' = [call EXCEPT ![w].effDst = l]
    BY <1>1 DEF ResolveCreateNew, Layers
  <2>2. call' = [call EXCEPT ![w] = [c EXCEPT !.effDst = l]]
    BY <2>1 DEF UntouchedInv, TypeOK
  <2>3. [c EXCEPT !.effDst = l].disp = "CREATE_NEW"
    BY <1>0, <1>1, <1>p DEF ResolveCreateNew, Calls
  <2>4. pre' = pre /\ pc' = [pc EXCEPT ![w] = "open"]
    BY <1>1 DEF ResolveCreateNew, Disk
  <2>5. PendingHarmless'
    BY <2>2, <2>3, <2>4, PendingStep
  <2> QED
    BY <1>1, <2>4, <2>5, DiskUnchanged, HandlesUnchanged DEF ResolveCreateNew
<1>2. CASE CopyUp(w)
  <2>1. pre' = pre /\ handle' = handle /\ pc' = [pc EXCEPT ![w] = "open"]
    BY <1>2 DEF CopyUp
  <2>2. call' = [call EXCEPT ![w] = c] /\ c.effDst = "back"
    BY <1>2, <1>p DEF CopyUp, UntouchedInv, TypeOK
  <2>3. PendingHarmless' /\ NoWriteHandle'
    BY <2>1, <2>2, PendingStep, HandlesUnchanged
  <2>4. PreExistingUntouched' /\ Unaliased'
    <3>1. CASE UNCHANGED <<fs, data>>
      BY <2>1, <3>1, DiskUnchanged DEF Disk
    <3>2. ASSUME NEW i \in FreeInodes,
                 fs' = [fs EXCEPT !["back"][c.dst] = i],
                 data' = [data EXCEPT ![i] = data[fs["real"][c.dst]]]
          PROVE  PreExistingUntouched' /\ Unaliased'
      <4>1. \A q \in Protected : data'[q] = data[q]
        BY <1>f, <3>2, ProtectedFacts DEF UntouchedInv, TypeOK, Inodes
      <4> QED
        BY <1>0, <1>f, <2>1, <3>2, <4>1, EntryChange
    <3> QED
      BY <1>2, <3>1, <3>2 DEF CopyUp
  <2> QED
    BY <2>3, <2>4
<1>3. CASE RealOpenFails(w)
  <2>1. \E code : Opened(w, NoHandle, code)
    BY <1>3 DEF RealOpenFails
  <2>2. pre' = pre
    BY <1>3 DEF RealOpenFails, Disk
  <2> QED
    BY <1>3, <1>h, <2>1, <2>2, OpenedUntouched, DiskUnchanged DEF RealOpenFails
<1>4. CASE RealOpenExisting(w)
  <2> DEFINE i == fs[c.effDst][c.dst]
  <2>1. /\ pre' = pre /\ fs' = fs
        /\ Opened(w, HandleOn(w, i), "ok")
        /\ data' = IF KeepsContent(c.disp) THEN data ELSE [data EXCEPT ![i] = Empty]
        /\ pc[w] = "open" /\ c.disp # "CREATE_NEW"
    BY <1>4 DEF RealOpenExisting
  <2>2. i \in Protected => "W" \notin c.acc /\ KeepsContent(c.disp)
    BY <1>0, <1>p, <2>1 DEF UntouchedInv, Unaliased, KeepsContent
  <2>3. \A q \in Protected : data'[q] = data[q]
    BY <2>1, <2>2 DEF UntouchedInv, TypeOK
  <2>4. HandleOn(w, i).ino \in Protected => ~HandleOn(w, i).write
    BY <2>2 DEF HandleOn
  <2> HIDE DEF i
  <2> QED
    BY <2>1, <2>3, <2>4, BytesChange, OpenedUntouched
<1>5. CASE RealOpenCreates(w)
  <2>1. PICK i \in FreeInodes :
          /\ fs' = [fs EXCEPT ![c.effDst][c.dst] = i]
          /\ data' = [data EXCEPT ![i] = Empty]
          /\ Opened(w, HandleOn(w, i), "ok")
    BY <1>5 DEF RealOpenCreates
  <2>2. pre' = pre /\ ~Exists(c.effDst, c.dst)
    BY <1>5 DEF RealOpenCreates
  <2>3. c.effDst = "real" => c.dst \notin Protected
    BY <1>0, <2>2, ProtectedFacts DEF UntouchedInv, PreExistingUntouched, Exists
  <2>4. \A q \in Protected : data'[q] = data[q]
    BY <1>f, <2>1 DEF UntouchedInv, TypeOK
  <2>5. HandleOn(w, i).ino \notin Protected
    BY <1>f DEF HandleOn
  <2>6. PreExistingUntouched' /\ Unaliased'
    BY <1>0, <1>f, <2>1, <2>2, <2>3, <2>4, EntryChange
  <2> QED
    BY <2>1, <2>2, <2>5, <2>6, OpenedUntouched
<1>6. CASE CreateFileReadCheck(w)
  <2>1. pre' = pre /\ \E code : Return(w, code)
    BY <1>6 DEF CreateFileReadCheck, Disk
  <2>2. NoWriteHandle'
    BY <1>6, <1>h, <2>1, HandlesUnchanged, HandleChange DEF CreateFileReadCheck
  <2> QED
    BY <1>6, <2>1, <2>2, PendingReturn, DiskUnchanged DEF CreateFileReadCheck
<1> QED
  BY <1>1, <1>2, <1>3, <1>4, <1>5, <1>6

LEMMA HandleUseUntouched ==
    ASSUME UntouchedInv, NEW w \in Procs, WriteFile(w) \/ CloseHandle(w)
    PROVE  PreExistingUntouched' /\ Unaliased' /\ NoWriteHandle' /\ PendingHarmless'
<1>1. pre' = pre /\ pc' = pc /\ call' = call
  BY DEF WriteFile, CloseHandle, Disk
<1>2. PendingHarmless'
  BY <1>1, ProtectedFacts DEF UntouchedInv, PendingHarmless
<1>3. CASE WriteFile(w)
  <2>1. handle[w].ino \notin Protected
    BY <1>3 DEF WriteFile, UntouchedInv, NoWriteHandle
  <2>2. \A q \in Protected : data'[q] = data[q]
    BY <1>3, <2>1 DEF WriteFile, UntouchedInv, TypeOK
  <2> QED
    BY <1>2, <1>3, <2>2, BytesChange, HandlesUnchanged DEF WriteFile
<1>4. CASE CloseHandle(w)
  BY <1>1, <1>2, <1>4, DiskUnchanged, HandleChange DEF CloseHandle, NoHandle
<1> QED
  BY <1>3, <1>4

LEMMA CopyUntouched ==
    ASSUME SafeWorkload, UntouchedInv, NEW w \in Procs,
           \/ \E s, d \in Paths, flags \in SUBSET {"FAIL_IF_EXISTS"} :
                CopyFileEx(w, s, d, flags)
           \/ \E s, d \in Paths : CreateHardLinkW(w, s, d)
           \/ RealCopyOrLinkFails(w)
           \/ RealCopyFileEx(w)
           \/ RealCreateHardLinkW(w)
           \/ SourceReadCheck(w)
    PROVE  PreExistingUntouched' /\ Unaliased' /\ NoWriteHandle' /\ PendingHarmless'
<1> DEFINE c == call[w]
<1>0. TypeOK /\ c.dst \in Paths /\ c.effDst \in Layers
  BY CallFields DEF UntouchedInv
<1>f. FreeInodes \subseteq (Inodes \cup {NoInode}) \ Protected
  BY <1>0, ProtectedFacts DEF FreeInodes, Inodes
<1>p. /\ pc[w] # "link"
      /\ pc[w] = "copy" /\ c.effDst = "real" => c.dst \notin Protected
  BY ProtectedFacts DEF UntouchedInv, PendingHarmless
<1>s. ASSUME pre' = pre, NEW code, ToSourceCheck(w, code)
      PROVE  PendingHarmless'
  <2>1. call' = [call EXCEPT ![w] = c]
    BY <1>s DEF ToSourceCheck, UntouchedInv, TypeOK
  <2> QED
    BY <1>s, <2>1, PendingStep DEF ToSourceCheck
<1>1. ASSUME NEW s \in Paths, NEW d \in Paths,
             NEW flags \in SUBSET {"FAIL_IF_EXISTS"}, CopyFileEx(w, s, d, flags)
      PROVE  PreExistingUntouched' /\ Unaliased' /\ NoWriteHandle' /\ PendingHarmless'
  <2>1. pre' = pre
    BY <1>1 DEF CopyFileEx, Disk
  <2>2. CASE ~AllowWrite(d)
    BY <1>1, <2>1, <2>2, PendingReturn, DiskUnchanged, HandlesUnchanged DEF CopyFileEx
  <2>3. CASE AllowWrite(d)
    <3> DEFINE t == TwoPathCall(s, d, flags)
    <3>1. t.dst = d /\ t.effDst = ResolveOverlayRenameDest(d)
      BY DEF TwoPathCall, NoCall
    <3>2. t.effDst = "real" => Kind[t.dst] = "output"
      BY <2>3, <3>1, KindCases
         DEF ResolveOverlayRenameDest, ShouldRedirectToOverlay, AllowWrite
    <3>3. Enter(w, "copy", t)
      BY <1>1, <2>3 DEF CopyFileEx
    <3> HIDE DEF t
    <3>4. PendingHarmless'
      BY <2>1, <3>2, <3>3, PendingStep DEF Enter
    <3> QED
      BY <1>1, <2>1, <3>4, DiskUnchanged, HandlesUnchanged DEF CopyFileEx
  <2> QED
    BY <2>2, <2>3
<1>2. ASSUME NEW s \in Paths, NEW d \in Paths, CreateHardLinkW(w, s, d)
      PROVE  FALSE
  BY <1>2 DEF CreateHardLinkW, SafeWorkload
<1>3. CASE RealCopyOrLinkFails(w)
  <2>1. pre' = pre /\ \E code : ToSourceCheck(w, code)
    BY <1>3 DEF RealCopyOrLinkFails, Disk
  <2> QED
    BY <1>3, <1>s, <2>1, DiskUnchanged, HandlesUnchanged DEF RealCopyOrLinkFails
<1>4. CASE RealCopyFileEx(w)
  <2>1. /\ pre' = pre /\ handle' = handle /\ pc[w] = "copy"
        /\ ToSourceCheck(w, "ok")
    BY <1>4 DEF RealCopyFileEx
  <2>2. PreExistingUntouched' /\ Unaliased'
    <3>1. CASE Exists(c.effDst, c.dst)
      <4>1. fs' = fs /\ \E bytes : data' = [data EXCEPT ![fs[c.effDst][c.dst]] = bytes]
        BY <1>4, <3>1 DEF RealCopyFileEx
      <4>2. fs[c.effDst][c.dst] \notin Protected
        BY <1>0, <1>p, <2>1 DEF UntouchedInv, Unaliased
      <4>3. \A q \in Protected : data'[q] = data[q]
        BY <1>0, <4>1, <4>2 DEF TypeOK
      <4> QED
        BY <2>1, <4>1, <4>3, BytesChange
    <3>2. CASE ~Exists(c.effDst, c.dst)
      <4>1. PICK i \in FreeInodes :
              /\ fs' = [fs EXCEPT ![c.effDst][c.dst] = i]
              /\ \E bytes : data' = [data EXCEPT ![i] = bytes]
        BY <1>4, <3>2 DEF RealCopyFileEx
      <4>2. \A q \in Protected : data'[q] = data[q]
        BY <1>0, <1>f, <4>1 DEF TypeOK
      <4> QED
        BY <1>0, <1>f, <1>p, <2>1, <4>1, <4>2, EntryChange
    <3> QED
      BY <3>1, <3>2
  <2> QED
    BY <1>s, <2>1, <2>2, HandlesUnchanged
<1>5. CASE RealCreateHardLinkW(w)
  BY <1>5, <1>p DEF RealCreateHardLinkW
<1>6. CASE SourceReadCheck(w)
  <2>1. pre' = pre /\ \E code : Return(w, code)
    BY <1>6 DEF SourceReadCheck, Disk
  <2> QED
    BY <1>6, <2>1, PendingReturn, DiskUnchanged, HandlesUnchanged DEF SourceReadCheck
<1> QED
  BY <1>1, <1>2, <1>3, <1>4, <1>5, <1>6

\* A removal that goes to the real path is of a declared output.
LEMMA RemovalStarts ==
    ASSUME UntouchedInv, NEW w \in Procs, NEW p \in Paths, NEW c,
           NEW resolveStep, NEW realStep,
           AllowWrite(p), c.src = p, c \in Calls,
           <<resolveStep, realStep>> \in {<<"delresolve", "delete">>,
                                        <<"moveresolve", "move">>},
           realStep = "move" /\ c.effDst = "real" => Kind[c.dst] = "output",
           StartRemoval(w, p, c, resolveStep, realStep), pre' = pre
    PROVE  PendingHarmless'
<1>1. CASE ShouldRedirectToOverlay(p)
  <2> DEFINE cc == [c EXCEPT !.backed = Exists("back", p)]
  <2>1. Enter(w, resolveStep, cc)
    BY <1>1 DEF StartRemoval
  <2>2. cc.dst = c.dst /\ cc.effDst = c.effDst
    BY DEF Calls
  <2> HIDE DEF cc
  <2> QED
    BY <2>1, <2>2, PendingStep DEF Enter
<1>2. CASE ~ShouldRedirectToOverlay(p)
  <2>1. Enter(w, realStep, c)
    BY <1>2 DEF StartRemoval
  <2>2. c.src \notin Protected
    BY <1>2, KindCases, ProtectedFacts DEF ShouldRedirectToOverlay, AllowWrite
  <2> QED
    BY <2>1, <2>2, PendingStep DEF Enter
<1> QED
  BY <1>1, <1>2

LEMMA RemovalUntouched ==
    ASSUME UntouchedInv, NEW w \in Procs,
           \/ \E p \in Paths : DeleteFileW(w, p)
           \/ \E s, d \in Paths, flags \in SUBSET MoveFlags :
                MoveFileWithProgress(w, s, d, flags)
           \/ ResolveOverlayDelete(w)
           \/ RealRemovalFails(w)
           \/ RealDeleteFileW(w)
           \/ RealMoveFile(w)
    PROVE  PreExistingUntouched' /\ Unaliased' /\ NoWriteHandle' /\ PendingHarmless'
<1> DEFINE c == call[w]
<1>0. /\ TypeOK /\ c \in Calls
      /\ c.src \in Paths /\ c.dst \in Paths
      /\ c.effSrc \in Layers /\ c.effDst \in Layers
  BY CallFields DEF UntouchedInv, TypeOK
<1>p. /\ pc[w] \in {"move", "moveresolve"} /\ c.effDst = "real"
           => Kind[c.dst] = "output"
      /\ pc[w] \in {"move", "delete"} /\ c.effSrc = "real"
           => c.src \notin Protected
  BY DEF UntouchedInv, PendingHarmless
<1>1. ASSUME NEW p \in Paths, DeleteFileW(w, p)
      PROVE  PreExistingUntouched' /\ Unaliased' /\ NoWriteHandle' /\ PendingHarmless'
  <2>1. pre' = pre
    BY <1>1 DEF DeleteFileW, Disk
  <2>2. CASE ~AllowWrite(p)
    BY <1>1, <2>1, <2>2, PendingReturn, DiskUnchanged, HandlesUnchanged DEF DeleteFileW
  <2>3. CASE AllowWrite(p)
    <3> DEFINE cc == [NoCall EXCEPT !.src = p, !.dst = p]
    <3>1. cc.src = p /\ cc \in Calls
      BY NoCallType DEF Calls
    <3>2. StartRemoval(w, p, cc, "delresolve", "delete")
      BY <1>1, <2>3 DEF DeleteFileW
    <3> HIDE DEF cc
    <3>3. PendingHarmless'
      BY <2>1, <2>3, <3>1, <3>2, RemovalStarts
    <3> QED
      BY <1>1, <2>1, <3>3, DiskUnchanged, HandlesUnchanged DEF DeleteFileW
  <2> QED
    BY <2>2, <2>3
<1>2. ASSUME NEW s \in Paths, NEW d \in Paths, NEW flags \in SUBSET MoveFlags,
             MoveFileWithProgress(w, s, d, flags)
      PROVE  PreExistingUntouched' /\ Unaliased' /\ NoWriteHandle' /\ PendingHarmless'
  <2> DEFINE denied == \/ ~AllowWrite(s)
                       \/ ~AllowWrite(d)
                       \/ "COPY_ALLOWED" \in flags /\ ~CheckReadAccess(s, TRUE)
  <2>1. pre' = pre /\ UNCHANGED Disk /\ UNCHANGED handle
    BY <1>2 DEF MoveFileWithProgress, Disk
  <2>2. CASE denied
    BY <1>2, <2>1, <2>2, PendingReturn, DiskUnchanged, HandlesUnchanged
       DEF MoveFileWithProgress
  <2>3. CASE ~denied
    <3> DEFINE cc == [NoCall EXCEPT !.src = s, !.dst = d, !.flags = flags,
                                    !.effDst = ResolveOverlayRenameDest(d)]
    <3>1. cc.src = s /\ cc.dst = d /\ cc.effDst = ResolveOverlayRenameDest(d)
      BY DEF NoCall
    <3>2. cc \in Calls
      BY NoCallType DEF Calls, MoveFlags, Flags, ResolveOverlayRenameDest, Layers
    <3>3. StartRemoval(w, s, cc, "moveresolve", "move")
      BY <1>2, <2>3 DEF MoveFileWithProgress
    <3>4. AllowWrite(s) /\ AllowWrite(d)
      BY <2>3
    <3>5. cc.effDst = "real" => Kind[cc.dst] = "output"
      <4>1. ResolveOverlayRenameDest(d) = "real" => Kind[d] = "output"
        BY <3>4, KindCases
           DEF ResolveOverlayRenameDest, ShouldRedirectToOverlay, AllowWrite
      <4> QED
        BY <3>1, <4>1
    <3> HIDE DEF cc, denied
    <3>6. PendingHarmless'
      BY <2>1, <3>1, <3>2, <3>3, <3>4, <3>5, RemovalStarts
    <3> QED
      BY <2>1, <3>6, DiskUnchanged, HandlesUnchanged
  <2> QED
    BY <2>2, <2>3
<1>3. CASE ResolveOverlayDelete(w)
  <2>1. pre' = pre /\ UNCHANGED Disk /\ UNCHANGED handle
    BY <1>3 DEF ResolveOverlayDelete, Disk
  <2>2. CASE \E code : Return(w, code)
    BY <2>1, <2>2, PendingReturn, DiskUnchanged, HandlesUnchanged
  <2>3. CASE ~\E code : Return(w, code)
    <3> DEFINE action == DeleteAction(c.src, c.backed)
               step == IF pc[w] = "delresolve" THEN "delete" ELSE "move"
               l == IF action = "RedirectToBacking" THEN "back" ELSE "real"
               cc == [c EXCEPT !.effSrc = l]
    <3>1. /\ pc' = [pc EXCEPT ![w] = step]
          /\ call' = [call EXCEPT ![w].effSrc = l]
          /\ action \notin {"DenyAccess", "NotFound"}
          /\ pc[w] \in {"delresolve", "moveresolve"}
      BY <1>3, <2>3 DEF ResolveOverlayDelete
    <3>2. call' = [call EXCEPT ![w] = cc]
      BY <3>1 DEF UntouchedInv, TypeOK
    <3>3. cc.dst = c.dst /\ cc.src = c.src /\ cc.effDst = c.effDst /\ cc.effSrc = l
      BY <1>0 DEF Calls
    <3>4. l = "real" => c.src \notin Protected
      <4>1. l = "real" => ~Exists("real", c.src)
        BY <1>0, <3>1 DEF DeleteAction, Calls
      <4> QED
        BY <1>0, <4>1, ProtectedFacts
           DEF UntouchedInv, PreExistingUntouched, Exists
    <3>5. step = "move" /\ c.effDst = "real" => Kind[c.dst] = "output"
      BY <1>p, <3>1
    <3>6. step \in {"move", "delete"}
      OBVIOUS
    <3> HIDE DEF cc, l, step, action
    <3>7. PendingHarmless'
      <4>1. cc.src \notin Protected \/ cc.effSrc # "real"
        BY <3>3, <3>4
      <4>2. step = "move" /\ cc.effDst = "real" => Kind[cc.dst] = "output"
        BY <3>3, <3>5
      <4> HIDE DEF c
      <4>3. CASE step = "move"
        BY <2>1, <3>1, <3>2, <4>1, <4>2, <4>3, PendingStep
      <4>4. CASE step = "delete"
        BY <2>1, <3>1, <3>2, <4>1, <4>4, PendingStep
      <4> QED
        BY <3>6, <4>3, <4>4
    <3> QED
      BY <2>1, <3>7, DiskUnchanged, HandlesUnchanged
  <2> QED
    BY <2>2, <2>3
<1>4. CASE RealRemovalFails(w)
  <2>1. pre' = pre /\ \E code : Return(w, code)
    BY <1>4 DEF RealRemovalFails, Disk
  <2> QED
    BY <1>4, <2>1, PendingReturn, DiskUnchanged, HandlesUnchanged DEF RealRemovalFails
<1>5. CASE RealDeleteFileW(w)
  <2>1. /\ pre' = pre /\ data' = data /\ handle' = handle /\ Return(w, "ok")
        /\ fs' = [fs EXCEPT ![c.effSrc][c.src] = NoInode] /\ pc[w] = "delete"
    BY <1>5 DEF RealDeleteFileW
  <2>2. NoInode \in (Inodes \cup {NoInode}) \ Protected
    BY <1>0, ProtectedFacts
  <2> QED
    BY <1>0, <1>p, <2>1, <2>2, EntryChange, PendingReturn, HandlesUnchanged
<1>6. CASE RealMoveFile(w)
  <2> DEFINE i == fs[c.effSrc][c.src]
  <2>1. /\ pre' = pre /\ data' = data /\ handle' = handle /\ Return(w, "ok")
        /\ fs' = [fs EXCEPT ![c.effDst][c.dst] = i, ![c.effSrc][c.src] = NoInode]
        /\ pc[w] = "move"
    BY <1>6 DEF RealMoveFile
  <2>2. /\ i \notin Protected /\ NoInode \notin Protected
        /\ c.effDst = "real" => c.dst \notin Protected
    BY <1>0, <1>p, <2>1, ProtectedFacts DEF UntouchedInv, Unaliased
  <2>3. \A k \in Layers, q \in Paths :
          \/ fs'[k][q] = fs[k][q]
          \/ fs'[k][q] \notin Protected /\ (k = "real" => q \notin Protected)
    <3>1. \A k \in Layers, q \in Paths :
            fs'[k][q] = IF k = c.effSrc /\ q = c.src THEN NoInode
                        ELSE IF k = c.effDst /\ q = c.dst THEN i ELSE fs[k][q]
      BY <1>0, <2>1 DEF TypeOK
    <3>2. c.effSrc = "real" => c.src \notin Protected
      BY <1>p, <2>1
    <3> HIDE DEF i, c
    <3> QED
      BY <2>2, <3>1, <3>2
  <2>4. PreExistingUntouched' /\ Unaliased'
    BY <2>1, <2>3, EntriesChange
  <2> QED
    BY <2>1, <2>4, PendingReturn, HandlesUnchanged
<1> QED
  BY <1>1, <1>2, <1>3, <1>4, <1>5, <1>6

LEMMA ForeignUntouched ==
    ASSUME UntouchedInv, NEW p \in Paths, ForeignCreate(p) \/ ForeignDelete(p)
    PROVE  PreExistingUntouched' /\ Unaliased' /\ NoWriteHandle' /\ PendingHarmless'
<1>1. pre' = pre /\ handle' = handle /\ pc' = pc /\ call' = call
  BY DEF ForeignCreate, ForeignDelete
<1>2. PendingHarmless'
  BY <1>1, ProtectedFacts DEF UntouchedInv, PendingHarmless
<1>3. p \notin Protected /\ NoInode \notin Protected
  BY ProtectedFacts DEF ForeignCreate, ForeignDelete, Protected, UntouchedInv
<1>4. p \in Inodes \cup {NoInode} /\ "real" \in Layers
  BY DEF Inodes, Layers
<1>5. \A q \in Protected : data'[q] = data[q]
  <2>1. CASE ForeignCreate(p)
    BY <1>3, <2>1 DEF ForeignCreate, UntouchedInv, TypeOK
  <2>2. CASE ForeignDelete(p)
    BY <2>2 DEF ForeignDelete
  <2> QED
    BY <2>1, <2>2
<1>6. \E i \in {p, NoInode} : fs' = [fs EXCEPT !["real"][p] = i]
  BY DEF ForeignCreate, ForeignDelete
<1> QED
  BY <1>1, <1>2, <1>3, <1>4, <1>5, <1>6, EntryChange, HandlesUnchanged

LEMMA InitUntouched == Init => UntouchedInv
<1> SUFFICES ASSUME Init PROVE UntouchedInv
  OBVIOUS
<1>1. TypeOK
  BY InitType
<1>2. Protected \subseteq pre /\ Protected \subseteq Paths /\ NoInode \notin Protected
  BY <1>1, ProtectedFacts DEF Protected
<1>3. PreExistingUntouched
  BY <1>1, <1>2 DEF Init, PreExistingUntouched, Layers, Inodes
<1>4. Unaliased
  BY <1>2 DEF Init, Unaliased
<1>5. NoWriteHandle /\ PendingHarmless
  BY DEF Init, NoWriteHandle, PendingHarmless, NoHandle
<1> QED
  BY <1>1, <1>3, <1>4, <1>5 DEF UntouchedInv

LEMMA NextUntouched ==
    ASSUME SafeWorkload, UntouchedInv, [Next]_vars
    PROVE  UntouchedInv'
<1>1. TypeOK'
  BY NextType DEF UntouchedInv
<1> SUFFICES PreExistingUntouched' /\ Unaliased' /\ NoWriteHandle' /\ PendingHarmless'
  BY <1>1 DEF UntouchedInv
<1>2. CASE UNCHANGED vars
  BY <1>2 DEF vars, UntouchedInv, PreExistingUntouched, Unaliased, NoWriteHandle,
              PendingHarmless, Protected
<1>3. ASSUME NEW w \in Procs, HookSteps(w)
      PROVE  PreExistingUntouched' /\ Unaliased' /\ NoWriteHandle' /\ PendingHarmless'
  BY <1>3, OpenUntouched, CopyUntouched, RemovalUntouched DEF HookSteps
<1>4. ASSUME NEW w \in Procs, ToolCalls(w)
      PROVE  PreExistingUntouched' /\ Unaliased' /\ NoWriteHandle' /\ PendingHarmless'
  BY <1>4, CreateFileUntouched, HandleUseUntouched, CopyUntouched, RemovalUntouched
     DEF ToolCalls
<1>5. ASSUME NEW p \in Paths, ForeignCreate(p) \/ ForeignDelete(p)
      PROVE  PreExistingUntouched' /\ Unaliased' /\ NoWriteHandle' /\ PendingHarmless'
  BY <1>5, ForeignUntouched
<1> QED
  BY <1>2, <1>3, <1>4, <1>5 DEF Next

\* For any number of processes, any set of files and any manifest, with other
\* actions at work on the same execroot and with copy-ups that fail: no file
\* that existed before the action, and is not one of its outputs, is mutated,
\* as long as no call creates through a read-only open or makes a hard link.
THEOREM ExecrootSafe ==
    ASSUME SafeWorkload
    PROVE  Spec => []PreExistingUntouched
<1>1. Init => UntouchedInv
  BY InitUntouched
<1>2. UntouchedInv /\ [Next]_vars => UntouchedInv'
  BY NextUntouched
<1>3. UntouchedInv => PreExistingUntouched
  BY DEF UntouchedInv
<1> QED
  BY <1>1, <1>2, <1>3, PTL DEF Spec
=============================================================================

# TLA+ models of bazel-sandbox-windows

`BazelSandbox.exe` runs one build action in place in the real execroot and makes
it look as if it ran in linux-sandbox's throwaway execroot. It starts the tool
with `DetoursServices.dll` injected; the DLL hooks the file calls of every process
of the action, denies what the manifest does not grant, hides undeclared inputs
(`--filter-inputs`) and redirects undeclared writes to a backing store private to
the action (`--write-overlay`, "Model W"). This directory models the parts of that
program whose correctness depends on order: of hooks in several processes, of the
steps inside one hook, of buffers in a scan, of the launcher and the tree it runs.

Paths below are relative to the repository root; `DetouredFunctions.cpp` and the
other vendored sources are in `vendor/detours-services/`.

## Inventory

| Component | State | Operations | Talks to | Correct when |
| --- | --- | --- | --- | --- |
| Write overlay: Win32 file calls (`DetouredFunctions.cpp`, `src/overlay_engine.cpp`, `PolicyResult*.cpp`, `FileAccessHelpers.h`) | none in memory: the backing store on disk is the record of what was redirected; the caller's handles | open, close, copy, move, delete, hard link; not modelled: replace, symlink | policy (read only), the OS, the same hooks in other processes, through the disk | pre-existing files never change; the tool sees a private execroot; hidden files stay hidden; CREATE_NEW is exclusive |
| Directories, reverse mapping, working directories | the backing directories; each process's current directory | create, remove, move, probe, enter, start a child in | overlay, PEB, handles | a relative name means what the absolute one means; stat agrees with open; nothing real moves |
| Handle-based rename and delete (`SetFileInformationByHandle`, `ZwSetInformationFile`) | the file of the handle | delete, rename | overlay | as for the path calls |
| Directory enumeration (`NtQueryDirectoryFile`, `GetFileInformationByHandleEx`) and Win32 find family | per handle: snapshot, cursor, started, reported (`HandleOverlay.h`); the OS scan position | query with buffer, single entry, restart; FindFirst, FindNext, FindClose | the OS listing, the backing directory, other writers | the listing is the merged view, each name once; a query always returns |
| Handle table (`HandleOverlay.cpp`) | map from handle to record | register, look up, erase | open, close, enumeration | a reused handle value never finds an old record |
| Launcher: process and store (`src/main.cpp`) | job, process handle, backing store, exit code | set up, create job and process, payload, assign, resume, wait, terminate, clean up, close | the tree (job, exit codes), the backing store | always exits; nothing outlives it; success is real; the store is discarded, and not under the running tool |
| Launcher: command line (`src/main.cpp`) | `Options`, the words | expand response files, parse, check the machine, quote | the tool's `argv`, manifest, network | the command arrives word by word; exclusive options exclude each other; no limit appears or vanishes |
| Network policy (`src/network_detours.cpp`) | `g_policy`, `g_attached` per process; the environment variable; sockets | attach, socket, connect, send, bind, resolve | launcher, process creation, file hooks (AFD device) | the policy reaches the tree; `-n` leaves no socket, `-N` none to the outside; loopback works |
| Manifest builder (`src/manifest_builder.cpp`) | tree of scopes with masks | AddScope, AddNodeScope, Build | launcher, policy search | the policy found for a path is the one the options give it |
| Policy search (`PolicySearch.cpp`) | cursor into the serialised tree | find, continue | every hook | finds what the builder stored |
| Nt file calls | - | open, close | as `CreateFileW` | as `CreateFileW` |
| Process creation and injection | suspended children | create with retries, inject | launcher's job | no child runs unsandboxed |
| Reporting, string and path utilities, hook installation | - | - | - | pure output, character-level work, start-up code |

Where the behaviour is hard:

* **Interleaving.** No lock spans a hook. `CreateFileW` probes the backing store,
  may probe the real file, may copy up, opens, and probes the backing store again
  for the read check. Copy and link resolve both operands before one kernel call and
  check the source after it. Delete and move probe twice before the call. Any number
  of processes of the action, and other actions of the build, run in between. A
  handle value is free for the next handle before the call that closes it returns.
* **Protocol sequences.** A legal sequence (link, then write; write, then delete;
  open a directory for DELETE, then rename the handle) must not break a promise that
  every single call keeps. Restrictions travel through environments, handles and
  current directories that a tool may change, pass on or drop.
* **Partial failure.** A copy-up, a job assignment, the hooking of Winsock or the
  process start fails and the code goes on or leaves early.
* **Stale state.** The enumeration snapshot, the reported flag, the layer chosen
  before the call, a relative name the system resolved before any hook saw it.
* **Numeric and layout edges.** Time limits in a DWORD, paths at MAX_PATH, full hash
  tables, flags in the low bits of offsets, runs of backslashes.
* **Termination.** The filter's retry loop; the launcher against a hung tool.

`PROJECT.json` lists each hazard at its line with the properties that cover it.

## Modules

| Module | What it is |
| --- | --- |
| `WriteOverlay` | the file calls of the hooks, step by step, policy decisions and overlay resolution included; the mapping to `ThrowawayExecroot` |
| `ThrowawayExecroot` | abstract specification: the private execroot a tool is promised |
| `MCWriteOverlay` | instances of `WriteOverlay` |
| `OverlayTree`, `MCOverlayTree` | directories, names relative to the backing store, handle-based calls, working directories of children; its instance |
| `OverlayEnum` | one directory scan through each of the three families of calls, and the handle table |
| `Launcher`, `MCLauncher` | the launcher, the job and the tree; its instance |
| `CommandLine` | response files, options, time limits, quoting and unquoting |
| `Network` | the network policy in a tree of processes |
| `Startup`, `MCStartup` | `CommandLine` and `Network` composed, from a command line to the running tree; its instance |
| `Manifest`, `MCManifest` | from options to the policy of a path: scopes, serialized tree, search; its instance |
| `WriteOverlayProofs`, `ThrowawayProofs`, `OverlayTreeProofs`, `OverlayEnumProofs`, `LauncherProofs`, `StartupProofs`, `ManifestProofs` | theorems about the modules |
| `FoldProofs` | theorems about folds, instantiated by `StartupProofs` and `ManifestProofs` |

How they meet: `Startup` extends `CommandLine` and `Network` and runs them in
`main`'s order; what it parses (`-T`, `-t`) are the constants of `Launcher`, what it
parses of `-r`, `-w`, `-b` the options of `Manifest`, whose policies are the `Kind` of
`WriteOverlay` and `OverlayTree` and the `Declared` of `OverlayEnum`. `WriteOverlay`
has the steps inside a hook on plain files; `OverlayTree` takes each hook as one step
and has the directories, the names and the processes instead.

### WriteOverlay

`fs[layer][path]` is the directory entry at the real path or its backing path (an
inode or `NoInode`), `data` the bytes of each inode. Inodes are kept apart from
paths because hard links and open handles alias them. Bytes are tokens: the name of
the pre-existing file they came from, the process that wrote them, or `Empty`.
`Kind` is what the manifest says of a path: `scratch` (the execroot cone:
undeclared), `input` (`-r`), `output` (`-w`). `Foreign` lists paths at which other
actions create or delete their own files.

A call starts with an action named after the hook (`CreateFileW`, `CopyFileEx`,
`CreateHardLinkW`, `DeleteFileW`, `MoveFileWithProgress`), which makes the policy
check and the first probe. `pc` then walks through the steps that touch the disk,
one action each:

    CreateFileW -> [ResolveCreateNew | CopyUp] -> Real open -> [CreateFileReadCheck]
    CopyFileEx, CreateHardLinkW -> Real copy / link -> SourceReadCheck
    DeleteFileW, MoveFileWithProgress -> [ResolveOverlayDelete] -> Real delete / move

`call` holds what the hook carries from step to step: the layers it chose and the
probe it made. The kernel calls are atomic; what they do is stated as far as the
hooks rely on it (disposition table of `CreateFileW`, copy over an existing file
in place, hard link as a second name of one inode). `OverlayRealFileHiddenByFilter`,
`CheckReadAccess`, `AllowWrite`, `DenialError`, `DeleteAction` and the resolution
operators have the names of the functions they translate.

Left out: directories and parent-directory creation (in `OverlayTree`), `-b` scopes, hermetic mode
without the filter, sharing violations and delete-pending, the read-policy fallback
for opens that resolve to another path, attributes.

### OverlayTree

`tree[layer][path]` is what is on disk: nothing, a directory or a file, in the
execroot (`real`) and in the backing store (`back`). `cwd` is each process's current
directory as its PEB has it: layer, path, and plain or `\\?\` form. A *place* is
what a hook is given; a process in a backing directory can name backing places, since
the system resolves its relative names before any hook runs. `ReverseMap` is
`ReverseMapWin32Path`: applied by opens, probes, deletes and moves, not by
`CreateDirectoryW`, `RemoveDirectoryW`, `CreateProcessW` and the new name of a rename
through a handle. `OpenForRead` and `Probe` are what a tool gets to see.
`SetFileInformationByHandle` is an open for DELETE and the handler in one step; inside
a hook a handle's final path is the physical one (`GetFinalPathNameByHandleW` maps it
only at top level), hence `Held`.

### OverlayEnum

Names are numbers in collation order. One call is `NtQueryDirectoryFile`,
`GetFileInformationByHandleEx` or a find call, then `RealQuery` (the OS fills the
buffer from its own position), then `ApplyEnumerationFilter` (drops hidden entries,
and asks the OS again while nothing is left), then `InsertOverlayEntries` (snapshot,
cursor, tail at exhaustion; a buffer and a snapshot are sets, in
collation order, and the cursor is the last name passed), or for a search `TrySynthesizeOverlayFindFirstW` and
`TryAppendOverlayFindDataW`, then the return. A directory may exist in the backing
store only (`onlyOverlay`); then the OS lists that. `overlay` is the record the table
has under the handle value; `handle` and `closing` take the close apart into the
removal of the record and the real close. Between the steps processes of the action
create and delete redirected files and other actions create files in the real
directory. `seen` counts what the caller got, `steady` the names nobody touched since
the scan began.

### Launcher

`at` is the launcher's program counter, one action per system call whose outcome or
order matters. `RemoveTreeRecursive` is a listing and one deletion per step, because
the tree may still write meanwhile. `TreeStep` lets processes spawn, write
redirected files and exit. Options are constants; failures that the code checks for
(`SetupMayFail`) or ignores (`JobMayFail`) are choices.

### CommandLine, Network, Startup

`CommandLine` is pure: `ParseOptions` folds the loop of the code over the words,
`BuildChildCommandLine` works on sequences of marks, `CommandLineToArgvW` is the
tool's end (external). `Network` has one action per hook: `g_policy` and `g_attached`
are the hook DLL's globals of each process, `launcherEnv` and `env` the environment
variable, `socket` how far a process's socket got. `carried` is the set of processes
the variable came down to unchanged; a process that starts a child with an
environment of its own making frees it (see below). `Startup` is `main` from the
words to the start of the tool, then the tree.

### Manifest

`opts` are the options, `tree` the nodes of `ManifestBuilder` with their masks and
values, `todo` the output directories still to be created, `out` the number of bytes
written, `payload` the serialized records, `cursor` what a `PolicyResult` keeps of its
search. The launcher's part is a line of actions in `main`'s order (root, working
directory, tool, `-r`, `-w`, `-b`, output directories, backing store). The output
directories are made one `CreateDirectoryW` a step, by length of their text, as `main`
sorts them; which of two of one length comes first is left open. `Build` writes the
blocks before the tree, then `SerializeNode` one node a step, parents first, each with
the turn of the parent's loop that places it in the parent's hash table. Then a hook
searches for a path (`Initialize`), resumes the search for a child
(`GetPolicyForSubpath`) and lets go of it (`Release`). Paths are sequences of
fragments; hashes are drawn from a few values so that every pattern of collisions
occurs. Of the byte layout the model keeps positions: the two low bits of a child's
offset are the chain flags, so a block of the wrong length before the tree matters.
Policies are sets of bits. Left out: the character work of canonicalization (a call
may refuse its path, which ends the launcher) and the special-case rules for devices,
named streams and coverage files. `PolicyAsDeclared` compares with `Expected`, which
is stated over the options and knows no tree. `WriteOverlay` starts where this ends:
its `Kind` of a path is a policy found here.

## Runs

Deadlock is checked in every run; `Launcher` has an explicit `Finished` step,
`Startup` an `Ended` and `Manifest` a `Dead` one.

| Run | Instance | Properties |
| --- | --- | --- |
| `overlay_open` | 2 processes, 1 scratch path, every disposition, writes, deletes | `TypeOK`, `CreateNewIsExclusive`, `OpenKeepsContent` |
| `overlay_view` | 1 process, a scratch path and an output, all calls but links and read-only creates | `ImplementsThrowaway` |
| `overlay_move` | 2 processes, a scratch path and an output, copy, move, delete, link | `ExecrootUntouched`, `RemovalHides` |
| `overlay_hermetic` | `--filter-inputs`, 1 process, 2 scratch paths, read, create, move, delete | `HiddenStaysHidden`, `ImplementsThrowaway` |
| `overlay_shared` | 2 processes, a scratch path and an input, another action at the scratch path, copy-ups that fail | `PreExistingUntouched` |
| `overlay_tree` | parent and child, `d`, `d\tmp`, `d\in` (input), `out` (output); an empty execroot, all of it there, a file where a directory may be wanted; with and without the filter; every call | `TypeOK`, `NamesAgree`, `StatAgreesWithOpen`, `MissingLeaf`, `ChildStartsWhereAsked`, `ReportedCwdLeadsBack`, `RealTreeUntouched` |
| `enum_filter` | 3 names: declared, created by another action, undeclared with a wide record; wildcard, buffers of 2 and 3 units, single entries, restarts; all three families of calls; a directory in one layer or both; closes and a reused handle value | `TypeOK`, `ListingExact`, `ListedAtMostOnce`, `RecordFollowsHandle`, `EveryQueryReturns` |
| `launcher` | root and child, 2 files, timeout and grace period, every failure, a tool that may hang | `TypeOK`, `TreeContained`, `SuccessIsReal`, `OverlayDiscarded`, `TimeoutIsFailure`, `StoreOutlivesTool`, `LauncherExits` |
| `startup` | every two of 16 options (two response files, one missing) before each of 5 commands; 5 spellings of the tool, an argument of up to 4 marks; 2 processes, every address, inherited sockets, environments kept, changed or dropped, hooking that fails | `CommandAsWritten`, `OnePolicyAsked`, `ArgumentsArriveIntact`, `LimitOnlyIfGiven`, `PolicyPropagates`, `BlockedHasNoSocket`, `ContainedToLoopback`, `LoopbackStaysUsable` |
| `manifest` | working directory and root with up to 3 children each, 5 paths options may name, at most 2 options, `-H`, `--write-overlay`, 27 hash functions | `TypeOK`, `PolicyAsDeclared`, `OffsetsLeaveFlagsFree`, `OutputDirsReady` |
| `overlay_hardlink` | violation of `PreExistingUntouched` | see below |
| `tree_listing` | violation of `ListingByRelativeName` | see below |

**Bounds.** `NewInodes` bounds the files that exist at once beyond the initial ones.
It is never what stops a call: the number given is the largest number of live new
files of the instance (one per path that can be created plus one per handle on a
deleted file, less one for the process that creates), and TLC finds no deadlock.
Two processes suffice for the races of one path, since each hook depends on others
only through the entries of that path, and a third would do to them what the second
can do in two calls; two paths are what a two-operand call has. A process holds one
handle at a time: handles interact only through the inode they name. In
`overlay_hermetic` the second path is what a hidden file could leak into.

`overlay_tree` has the least paths in which each of these exists: a scratch directory
inside a directory that must be visible for a declared input, a name that is a file in
one layer and may become a directory in the other, a declared output, a path too long
for the plain form. What a moved directory would put below its new place at a path
outside the bound is cut off. Names on which the layers disagree about file or
directory (`Clash`) are excepted from the agreement properties.

Three names are the least that put a name the wildcard rejects between two it accepts,
and a record larger than the other makes the tail split over calls. `seen` saturates at
2, which is all that the properties tell apart. In `startup` a DWORD has 256 values and
a second 10 milliseconds, so that a limit wraps to a small number and to 0 (128
seconds); both stay even, as 2^32 and 1000 are. Four marks hold a run of backslashes
before a quote, at the end and between letters. In `manifest` three children and hash
values 0, 1, 3 in tables of 1, 2 and 4 slots give full tables, chains that wrap
around, chains of two home slots that interleave, and lookups of an absent name in
each; two options are what can disagree about one path; the path of `--trace` has a
length whose text needs padding, and one declared output lies two directories deep.

**Symmetry and view.** New inodes, and processes where no property names one, are
interchangeable. `LiveView` drops the bytes of inodes nothing refers to and the error
code of calls that have returned: no action and no property reads them.

**Fairness.** Safety runs need none. `OverlayEnum` has weak fairness of `HookStep`:
the hook runs on the caller's thread, so a query in progress goes on. `Launcher` has
weak fairness of the launcher's steps, because it is one thread whose only blocking
waits are timed ones (which expire) or waits for the tool; and of the exit of the
tool unless `ToolMayHang`. Descendants get no fairness.

## Divergences

Two runs show the code doing what a document says it does not; the findings in
`PROJECT.json` quote both sides:

* `overlay_hardlink`: a hard link to an undeclared file makes the real file itself
  the backing copy; a redirected write changes it (`DetouredFunctions.cpp:3577`).
* `tree_listing`: a relative name of a directory that has a backing copy is not mapped
  back, so listing it shows the backing entries alone, where its absolute name shows
  the merged directory (`overlay_engine.cpp:172`).

Modelling showed others. They bound what the passing runs claim, and each of these
appears when the named constant of a passing run is changed:

| Change | What happens | Source |
| --- | --- | --- |
| `overlay_shared`, `Workload` with `"rocreate"` | an open for reading with `CREATE_ALWAYS` is neither denied nor redirected, and empties a pre-existing undeclared file | `DetouredFunctions.cpp:1734` |
| `overlay_hermetic`, `Workload` with `"modify"` | opening a hidden file for writing copies it up; the copy is readable | `overlay_engine.cpp:479` |
| `overlay_hermetic`, `Workload` with `"copy"` | a copy from a hidden file fails after its bytes reached the destination | `DetouredFunctions.cpp:2503` |
| `overlay_hermetic`, two processes | a read races a peer's create: the handle is on the hidden real file, the later shadow test passes | `DetouredFunctions.cpp:1803` |
| `overlay_move`, `Foreign = {a}` | a delete that saw no file passes through and removes a file another action created meanwhile | `overlay_engine.cpp:685` |
| `overlay_open`, `CopyMayFail = TRUE` | after a failed copy-up an empty backing file shadows the original | `overlay_engine.cpp:479` |
| `enum_filter`, `Trace = TRUE` | with `--trace` the filter and the splice stop after the first reported query of a handle | `DetouredFunctions.cpp:5411` |
| `enum_filter`, `Lengths = {1}` | a redirected name that does not fit ends the listing and is lost | `overlay_engine.cpp:1475` |
| `manifest`, `Servers = {3}` | the DLL keeps the leading separators of a network path in the first fragment, the builder strips them: scopes below a server are never found (a comment at `src/manifest_builder.cpp:135` says the two match) | `PolicySearch.cpp:33` |

The others show in a property's premise or exception, or in a guard:

* **Launcher.** A failed start leaves the backing store (`src/main.cpp:961`):
  `OverlayDiscarded` speaks of a tool that ran. A tool whose assignment to the job
  failed survives the timeout, the launcher and its store (`src/main.cpp:984`):
  `TreeContained` and `Terminable`. When the tool exits and leaves a descendant
  running, the store is deleted under it before the job is closed (a comment at
  `src/main.cpp:408` says "on tree exit"): `StoreOutlivesTool` protects descendants
  only after a timeout, and `OverlayDiscarded` excepts them.
* **Directories.** A move of a directory is made on the real disk, past the overlay
  (`DetouredFunctions.cpp:2900`). Under the filter a real directory that is hidden can
  be opened for DELETE and then deleted or renamed through its handle: the handlers
  refuse a denial but not `NotFound`, while the comment at `DetouredFunctions.cpp:964`
  says that path "never mutates the real execroot". `PassesOverlayBy` names these two.
  The move onto an output is checked for the output alone: a declared input below it
  (`-w out -r out\in`) is created on the real disk by moving a scratch directory that
  holds a name `in` onto `out`: `OutputsAreCones`.
  A handle on a visible undeclared file is on its copy: deleting it reports success and
  the file is still there, where `DeleteFileW` is refused. The same holds for a
  relative delete of a written-over file, whose original shows again (the design
  document, lines 1067-1069, says such a delete is denied).
* **Directory names.** `CreateDirectoryW` over an existing real directory or file
  succeeds, in the backing store; a file moved onto a real directory's name lands there
  and cannot be reached: `Clash`. A failed open for writing leaves backing parents. A
  missing leaf of an overlay-only directory is a missing name for an open and a missing
  path for a probe: `NamesAgree` and `StatAgreesWithOpen` compare what is found.
  Removing a visible real directory under the filter reports not-found if no manifest
  path leads to it.
* **Enumeration.** A search reopened for `*` may start from hidden matches (the
  comment at `overlay_engine.cpp:1593` says by precondition there is none) and then
  returns one of them and names the wildcard rejects: `ReopenedClean`. A name another
  action creates may be listed by the OS and again from the older snapshot:
  `ListedAtMostOnce` speaks of the others. A handle without a record is listed
  unfiltered. The wildcard of `FindFirstFile` is not translated to DOS wildcards, though
  a comment at `overlay_engine.cpp:1077` says the matching is identical.
* **Command line.** A `--` from a response file ends the options but not the expansion
  of later words (`src/main.cpp:155`): `CommandAsWritten` excepts such files. An option
  with a value swallows a `--`. `-T 4294968` waits 704 milliseconds; the product never
  becomes INFINITE. The machine type is read from the file `argv[0]` names in the
  launcher's directory, not along `PATH`.
* **Network.** Without `-N` and `-n` an inherited `BAZEL_SANDBOX_NETWORK` stays in
  force, and a nested `-N` replaces an inherited block: `Wanted`. A child started with
  an environment of its own is free: `carried`. Hooking that fails leaves the network
  open under `-N`, silently. Names that begin with `127.` count as local.

A move or copy that must not replace its destination looks at the backing store only
(`overlay_engine.cpp:693`), so it succeeds over a visible real file and shadows it.
`TRUNCATE_EXISTING` of a visible undeclared file is redirected without a copy-up and
reports not-found (`overlay_engine.cpp:471`). A read-write open of an absent path is
denied under the filter instead of reported as not-found (`FileAccessHelpers.h:226`).
And `-b p` changes nothing if `-r p` or `-w p` names the same path: the values of one
node accumulate, and `Policy_Deny` is no bit (`src/manifest_builder.cpp:177`), while
the repository's `README.md:246` says `-b` "overrides read access too" and
`README.md:258` that later scopes override. `PolicyAsDeclared` states the accumulation.

## Proofs

TLAPS proves these for every value of the constants that the named assumptions of the
modules allow; TLC evaluates the assumptions in every run.

| Module | Theorems | Inductive invariant |
| --- | --- | --- |
| `WriteOverlayProofs` | `TypeCorrect`, `ExecrootSafe` | `UntouchedInv` |
| `ThrowawayProofs` | `LayersStayRight`, `OnlyOthersChangeTheExecroot`, `RemovalStaysHidden`, `CreateNewExcludes`, `OpenKeeps` | `RoutedInv` |
| | `OverlayIsThrowaway` | `ViewInv` |
| | `HiddenFilesStayHidden` | `HiddenInv` |
| `OverlayTreeProofs` | `TreeInvariant`, `TreesStayTrees`, `RelativeNamesAgree`, `StatAgrees`, `LeavesGoMissing`, `CwdLeadsBack`, `ChildrenStart`, `RealTreeKept` | `TreeInv` |
| `OverlayEnumProofs` | `RecordsFollowHandles` | `TableInv` |
| | `ScanTypes`, `NoNameTwice`, `ListingsAreExact` | `ScanInv`, `OnceInv`, `ExactInv` |
| `LauncherProofs` | `LauncherTypes`, `NothingSurvives`, `SuccessMeansSuccess`, `StoreDiscarded`, `StoreGoesLast`, `TimeoutFails` | `Inv` |
| `StartupProofs` | `NetworkPolicyHolds`, `PolicyReachesTree`, `NoSocketBehindBlock`, `LoopbackContains`, `LoopbackUsable` | `NetInv` |
| | `CommandStands`, `PolicyAsked`, `NoLimitUnlessAsked`, `LimitStaysLimit` | `ParsedInv` |
| | `ArgumentsArrive` | `BuildInv` |
| `ManifestProofs` | `ManifestTypes`, `OffsetsAreAligned`, `OutputDirsAreReady`, `SearchesFindThePolicy`, `PoliciesAreAsDeclared`, `ServersGetTheRootPolicy` | `ManifestInv` |
| `FoldProofs` | `FoldInduction` | - |

**WriteOverlay.** `ExecrootSafe` is `Spec => []PreExistingUntouched`, assuming
`SafeWorkload`: no call of the classes `rocreate` and `link`; the first row above and
`overlay_hardlink` show that both exclusions are necessary. `PreExistingUntouched` is
not inductive: it says nothing of who could write to a protected file. `UntouchedInv`
adds `Unaliased` (a protected inode has no other name, in either layer),
`NoWriteHandle` (no process holds a write handle on one) and `PendingHarmless` (a call
in progress that could change an entry or bytes on the real disk is aimed at no
protected path). The last is the part about the code's order: what the policy check
and the probes of the earlier steps decided still protects the file when the real call
is made.

**The private execroot.** `RoutedInv` says of a call in progress that the layers it
chose from its probes are still right, whatever other processes of the action have
done since. It is kept if the scratch paths are the action's own (`ScratchIsOurs`: no
`rocreate`, other actions keep to other paths), links and failing copy-ups included;
the four action properties follow from it, `OpenKeeps` also from `~CopyMayFail`. The
rows above for `overlay_shared`, `overlay_move` and `overlay_open` show that none of
the three can be dropped. `OverlayIsThrowaway` is the refinement: `ViewInv` joins
`UntouchedInv`, `RoutedInv` and that outside the outputs the real disk is as it was,
that no file has two names, and whose bytes a tool can see; then each step of a hook
is one step of `ThrowawayExecroot` or a stutter. `PrivateWorkload` adds what the
refinement needs: nobody else at any path, no links, and under the filter neither
`modify` nor `copy` (the two rows of `overlay_hermetic`). `HiddenFilesStayHidden` is
about one process under the filter and lets other actions do what they like: the bytes
of a hidden file are nowhere else, an open goes to the real file only while no backing
file shadows it, and a handle that the system opened on a hidden file is on its way
through the check. Its hypotheses are the rows of `overlay_hermetic`.

**OverlayTree.** `TreeInv` is `TypeOK` (both layers are trees, every process is in a
directory that is there) and that only a current directory in the backing store is in
the extended form. That every hook keeps it rests on lemmas about trees: what creating
a directory with its parents, removing a leaf and moving a subtree make of a
well-formed tree. The properties of names, probes and children follow from the
invariant without a further assumption. `RealTreeKept` assumes `OutputsAreCones`:
nothing but outputs is declared below an output. Without it the property is false (see
the divergence about directories).

**OverlayEnum.** That a record follows its handle is a matter of the close's order:
while the record is being removed the value is not free, so the next handle cannot
have it. `TableInv` follows the record through the two steps of the close and through
a search, whose handle is open before its record exists. `ScanInv` adds the types and
what is true of buffer, status and snapshot at each place of a call. `OnceInv` says
where each name stands: passed by the OS, passed by the tail, in the buffer or still
to come, and in no two of these. `ExactInv` is its counterpart for completeness: a
steady name that is due and has not been handed out is still before the OS position,
in the buffer or behind the cursor. `ListingsAreExact` assumes that every buffer holds
any one record (`AllFit`) and no `--trace`: the two `enum_filter` rows above.

**Launcher.** `Inv` adds to the types what is true at each place of the program:
`Progress` (what has been made by then), `Membership` (who is in the job, for any
tree: a child of a member is one), `Results` (where an exit code can come from),
`ExitedContained` and `Removal` (who may still write while the store is removed, and
that what is not listed is not there).

**Network, Startup.** `NetInv` adds that a carried process's variable is the one the
launcher left or set, and that its policy was read from it; `AttachReads` says once
what the hook DLL does at attach. `StartupFollowsNetwork` shows that every step of
`Startup` is a step of `Network` or leaves it alone, so the theorems about the
component hold of the composition. `LimitStaysLimit` is arithmetic: an even product
modulo an even range is never the odd INFINITE.

**Folds and the command line.** The parser, the expansion of response files, the
quoting and its reading are folds over sequences, and what they compute for every
input is an induction. `FoldProofs` makes it once: `FoldInduction` is proved from the
least length at which it would fail, and its step, base and invariant are constants of
the module. Each use is an instance of it (`Escapes == INSTANCE FoldProofs WITH ...`).
For the options the invariant says of the words read so far which of them are values,
which policy they ask for, and whether the command has begun (`ParseInv`); for the
response files from which piece each word comes (`JoinInv`). `EscapeInv` says what
`CommandLineToArgvW` makes of the half-written word: the word so far, but for the
backslashes at its end, which are still to be written. So `ReadWord`: whatever was
read before, an escaped word is read as itself; `WholeLine` puts words together and
`LiteralLine` does the same for cmd.exe. The tool's own spelling is read by the rule
for the first word, which knows no escapes: `ToolsArePaths` says that it holds no
quote, which no Windows path does, and does not end with a separator if it holds a
space. Without it `ArgumentsArriveIntact` is false (`x y\` arrives as `x y\\`).

**Manifest.** `PolicyAsDeclared` relates options that are read once to a search that
runs in another process, and says nothing of what lies between. `ManifestInv` does, in
six parts. `Inputs`: the options name declarable paths. `Building`: at each call of
`main` the tree holds exactly the scopes, grants and node policies of the calls so far
(`Holds`), ancestors included. `MakingDirs`: an output directory is made or still to be
made. `Serialized`: a record is there only after its parent's, its block is aligned,
and its hash table is sound (`RecordIs`): it has the slots `BucketCount` gives it, and
holds the children written so far and no other, each found from its home slot.
`Granting`: what a record has is what the options give its node. `Searching`: a cursor
is on the deepest node of its path, or was cut off where the next node is not there.

* `OutputDirsAreReady`. A parent's text is shorter than a child's (`ParentIsShorter`),
  so the sort by length makes parents first, and `CreateDirectoryW` never meets a
  missing one, whatever the order of equal lengths.
* `OffsetsAreAligned`. The tree begins at a multiple of four (`TreeStartAligned`), and
  each node ends at one (`OutStaysAligned`), so no offset has a flag bit.
* The hash tables. Probing from any home slot reaches all slots (`ProbesReachAll`); a
  table never has fewer slots than its node has children, so there is a free one for
  the next (`FreeSlot`, a pigeonhole); the chain from the home slot to the slot taken is
  marked without a gap, and no mark made for another child is lost (`ChildPlaced`). This
  is why the flags suffice for any pattern of collisions.
* The search is a fold, and `FoldProofs` gives its induction: once from the root and
  once resumed from a cursor. `RootSearched` and `DescendMeans` say that it stops at the
  deepest node; `DeepestOfTruncated` that the deepest scope of the path lies at or above
  that node, so its policy is the path's.

`SearchesFindThePolicy` has no hypothesis, and says it of paths that are not on a
server; `PoliciesAreAsDeclared` is the checked property and assumes that no path looked
up is on one, which the row `manifest`, `Servers = {3}` shows to be necessary.
`ServersGetTheRootPolicy` says what holds instead: such a path always gets the root's
grant.

Only model-checked is liveness (`EveryQueryReturns`, `LauncherExits`), since the
provers handle neither fairness nor ENABLED. The two properties of the violated runs
are false.

## Not modelled

* `ReplaceFileW` (three names), symbolic links and reparse points (the resolution of
  every path component), sharing violations and delete-pending.
* `HandleFileLinkInformation`, `HandleFileNameInformation`, `HandleFileModeInformation`:
  the first links as `CreateHardLinkW` does; the other two do not ask the overlay.
* A relative name that leaves the backing store (`..\` beyond its root), finding files
  by a relative name.
* The injector with its payload copy and roll-back, and `CreateProcess`'s retries.
* `ConnectEx`, `WSAConnectByName` and the Winsock calls the code does not hook.
* The lock order between the handle table and the heap (`HandleOverlay.cpp:99`): the
  heap's lock is the allocator's.
* Reports, statistics, `-h`, character-level path work, hook installation: pure output,
  data or start-up code without later state.

## Plan

1. `ReplaceFileW` as a call of three paths in `WriteOverlay`; delete-on-close.
2. Injection and the retries of process creation, composed with `Launcher`.
3. What happens to a scan whose buffers do not fit every record, as a theorem: the
   listing then lacks just the names after which it ended.

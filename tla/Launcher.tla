------------------------------ MODULE Launcher ------------------------------
(***************************************************************************)
(* The life of one BazelSandbox.exe run: create the backing store and a    *)
(* job, start the tool suspended with the DLL and the manifest, put it in  *)
(* the job, let it run, wait for it with a timeout, remove the backing     *)
(* store and close the job.  The tool and its descendants run, spawn,      *)
(* write redirected files and exit on their own meanwhile.                 *)
(***************************************************************************)
EXTENDS FiniteSets

CONSTANTS
    Tree, Root,       \* the sandboxed processes, and the one launched
    Files,            \* files the tree may have redirected
    HasTimeout,       \* -T was given
    HasKillDelay,     \* -t was given
    Debug,            \* -D was given: the backing store is kept
    SetupMayFail,     \* creating the store, opening the output files, starting the
                      \* process or copying the payload may fail
    JobMayFail,       \* CreateJobObject or AssignProcessToJobObject may fail
    ToolMayHang       \* a process of the tree may never exit

ASSUME LauncherParameters ==
    /\ Root \in Tree
    /\ {HasTimeout, HasKillDelay, Debug, SetupMayFail, JobMayFail, ToolMayHang}
         \subseteq BOOLEAN

VARIABLES
    at,        \* what the launcher does next
    job,       \* the job object: "none", "open" or "closed"
    proc,      \* the state of each process of the tree
    inJob,     \* the processes assigned to the job, or born in it
    rootCode,  \* the exit code of the launched process
    code,      \* the exit code of the launcher
    storeDir,  \* the backing store exists on disk
    store,     \* the redirected files in it
    walk       \* what the removal of the store has listed and not yet deleted

vars == <<at, job, proc, inJob, rootCode, code, storeDir, store, walk>>
processes == <<proc, inJob, rootCode>>
disk == <<storeDir, store, walk>>

Phases == {"start", "createjob", "spawn", "payload", "assign", "resume", "wait",
           "grace", "terminate", "finalwait", "list", "delete", "rmdir", "close",
           "exited"}
\* two: the sandbox itself failed; killed: TerminateProcess(.., 1) ended the tool
Codes == {"none", "zero", "one", "two", "killed"}

TypeOK ==
    /\ at \in Phases
    /\ job \in {"none", "open", "closed"}
    /\ proc \in [Tree -> {"unborn", "suspended", "running", "dead"}]
    /\ inJob \subseteq {p \in Tree : proc[p] # "unborn"}
    /\ rootCode \in Codes /\ code \in Codes
    /\ storeDir \in BOOLEAN
    /\ store \subseteq Files /\ walk \subseteq Files
    /\ store # {} => storeDir

Alive(p) == proc[p] \in {"suspended", "running"}

Init ==
    /\ at = "start" /\ job = "none"
    /\ proc = [p \in Tree |-> "unborn"]
    /\ inJob = {}
    /\ rootCode = "none" /\ code = "none"
    /\ storeDir = FALSE /\ store = {} /\ walk = {}

-----------------------------------------------------------------------------
(* The launcher                                                            *)

\* Mutant: the early return leaves the exit code at its initial zero.
ExitEarlySilent(failure) ==
    /\ at' = "exited" /\ code' = "zero"
    /\ job' = IF job = "open" THEN "closed" ELSE job
    /\ UNCHANGED <<inJob, rootCode, disk>>

\* A failed start ends the launcher at once: its handles close with it.
ExitEarly(failure) ==
    /\ at' = "exited" /\ code' = failure
    /\ job' = IF job = "open" THEN "closed" ELSE job
    /\ UNCHANGED <<inJob, rootCode, disk>>

SetupWriteOverlayRoot ==
    /\ at = "start"
    /\ \/ /\ at' = "createjob" /\ storeDir' = TRUE
          /\ UNCHANGED <<job, processes, code, store, walk>>
       \/ SetupMayFail /\ ExitEarly("one") /\ UNCHANGED proc

\* Between the backing store and the job, a file for -l or -L may not open.
OpenOutputFileFails ==
    /\ at = "createjob" /\ SetupMayFail
    /\ ExitEarly("one") /\ UNCHANGED proc

CreateJobObject ==
    /\ at = "createjob" /\ at' = "spawn"
    /\ job' \in {"open"} \cup (IF JobMayFail THEN {"none"} ELSE {})
    /\ UNCHANGED <<processes, code, disk>>

CreateProcessWithDll ==
    /\ at = "spawn"
    /\ \/ /\ at' = "payload"
          /\ proc' = [proc EXCEPT ![Root] = "suspended"]
          /\ UNCHANGED <<job, inJob, rootCode, code, disk>>
       \/ SetupMayFail /\ ExitEarly("two") /\ UNCHANGED proc

CopyPayload ==
    /\ at = "payload"
    /\ \/ at' = "assign" /\ UNCHANGED <<job, processes, code, disk>>
       \/ SetupMayFail /\ ExitEarly("two") /\ proc' = [proc EXCEPT ![Root] = "dead"]

\* Mutant: the tool is resumed before it is put in the job.
AssignLate ==
    /\ at = "assign"
    /\ IF proc[Root] = "suspended"
       THEN /\ proc' = [proc EXCEPT ![Root] = "running"]
            /\ UNCHANGED <<at, inJob>>
       ELSE /\ at' = "wait" /\ inJob' = inJob \cup {Root}
            /\ UNCHANGED proc
    /\ UNCHANGED <<job, rootCode, code, disk>>

\* The result of AssignProcessToJobObject is not looked at.
AssignProcessToJob ==
    /\ at = "assign" /\ at' = "resume"
    /\ \/ job = "open" /\ inJob' = inJob \cup {Root}
       \/ (job = "none" \/ JobMayFail) /\ UNCHANGED inJob
    /\ UNCHANGED <<job, proc, rootCode, code, disk>>

ResumeThread ==
    /\ at = "resume" /\ at' = "wait"
    /\ proc' = [proc EXCEPT ![Root] = "running"]
    /\ UNCHANGED <<job, inJob, rootCode, code, disk>>

AfterWait == IF Debug THEN "close" ELSE "list"

\* Mutant: a timeout is reported without terminating the tree.
WaitReturnsUnterminated ==
    /\ at = "wait" /\ at' = AfterWait
    /\ \/ proc[Root] = "dead" /\ code' = rootCode
       \/ HasTimeout /\ proc[Root] # "dead" /\ code' = "one"
    /\ UNCHANGED <<job, processes, disk>>

WaitReturns ==
    /\ at = "wait"
    /\ \/ /\ proc[Root] = "dead"
          /\ at' = AfterWait /\ code' = rootCode
       \/ /\ HasTimeout /\ proc[Root] # "dead"
          /\ at' = IF HasKillDelay THEN "grace" ELSE "terminate"
          /\ UNCHANGED code
    /\ UNCHANGED <<job, processes, disk>>

\* The grace period ends when the tool exits or the delay is over.
GraceEnds ==
    /\ at = "grace" /\ at' = "terminate"
    /\ UNCHANGED <<job, processes, code, disk>>

Kill(victims) ==
    /\ proc' = [p \in Tree |-> IF p \in victims /\ Alive(p) THEN "dead" ELSE proc[p]]
    /\ rootCode' = IF Root \in victims /\ Alive(Root) THEN "killed" ELSE rootCode

TerminateTree ==
    /\ at = "terminate" /\ at' = "finalwait"
    /\ Kill(IF job = "open" THEN inJob ELSE {Root})
    /\ UNCHANGED <<job, inJob, code, disk>>

\* Mutant: the exit code the tool had is reported.
FinalWaitReportsRoot ==
    /\ at = "finalwait" /\ at' = AfterWait
    /\ code' = rootCode
    /\ UNCHANGED <<job, processes, disk>>

\* Mutant: the last wait has no timeout.
FinalWaitForever ==
    /\ at = "finalwait" /\ proc[Root] = "dead" /\ at' = AfterWait
    /\ code' = "one"
    /\ UNCHANGED <<job, processes, disk>>

\* At most five seconds: it returns whether or not the tool is gone.
FinalWait ==
    /\ at = "finalwait" /\ at' = AfterWait
    /\ code' = "one"
    /\ UNCHANGED <<job, processes, disk>>

\* RemoveTreeRecursive: list the directory, delete what was listed, remove it.
CleanupLists ==
    /\ at = "list" /\ at' = "delete"
    /\ walk' = store
    /\ UNCHANGED <<job, processes, code, storeDir, store>>

\* Mutant: the walk stops at the first file.
CleanupDeletesOne ==
    /\ at = "delete" /\ at' = "rmdir"
    /\ store' = IF walk = {} THEN store ELSE store \ {CHOOSE f \in walk : TRUE}
    /\ walk' = {}
    /\ UNCHANGED <<job, processes, code, storeDir>>

CleanupDeletes ==
    /\ at = "delete"
    /\ IF walk = {} THEN at' = "rmdir" /\ UNCHANGED <<store, walk>>
       ELSE \E f \in walk :
              /\ store' = store \ {f} /\ walk' = walk \ {f}
              /\ UNCHANGED at
    /\ UNCHANGED <<job, processes, code, storeDir>>

\* Mutant: the root is unlinked without looking whether it is empty.
CleanupUnlinksDir ==
    /\ at = "rmdir" /\ at' = "close"
    /\ storeDir' = FALSE
    /\ UNCHANGED <<job, processes, code, store, walk>>

\* RemoveDirectory does nothing to a directory that is not empty.
CleanupRemovesDir ==
    /\ at = "rmdir" /\ at' = "close"
    /\ storeDir' = (store # {})
    /\ UNCHANGED <<job, processes, code, store, walk>>

\* JOB_OBJECT_LIMIT_KILL_ON_JOB_CLOSE
CloseJob ==
    /\ at = "close" /\ at' = "exited"
    /\ job' = IF job = "open" THEN "closed" ELSE job
    /\ Kill(IF job = "open" THEN inJob ELSE {})
    /\ UNCHANGED <<inJob, code, disk>>

LauncherStep ==
    \/ SetupWriteOverlayRoot \/ OpenOutputFileFails \/ CreateJobObject
    \/ CreateProcessWithDll \/ CopyPayload \/ AssignProcessToJob \/ ResumeThread
    \/ WaitReturns \/ GraceEnds \/ TerminateTree \/ FinalWait
    \/ CleanupLists \/ CleanupDeletes \/ CleanupRemovesDir \/ CloseJob

-----------------------------------------------------------------------------
(* The sandboxed tree                                                      *)

\* A child of a process in a job is born in the job.
Spawn(p, q) ==
    /\ proc[p] = "running" /\ proc[q] = "unborn" /\ q # Root
    /\ proc' = [proc EXCEPT ![q] = "running"]
    /\ inJob' = IF p \in inJob THEN inJob \cup {q} ELSE inJob
    /\ UNCHANGED <<at, job, rootCode, code, disk>>

\* EnsureBackingParentDirs creates the directories that are missing.
WriteRedirected(p, f) ==
    /\ proc[p] = "running" /\ f \notin store
    /\ store' = store \cup {f} /\ storeDir' = TRUE
    /\ UNCHANGED <<at, job, processes, code, walk>>

Exit(p) ==
    /\ proc[p] = "running"
    /\ proc' = [proc EXCEPT ![p] = "dead"]
    /\ rootCode' \in IF p = Root THEN {"zero", "one"} ELSE {rootCode}
    /\ UNCHANGED <<at, job, inJob, code, disk>>

TreeStep ==
    \E p \in Tree : \/ \E q \in Tree : Spawn(p, q)
                    \/ \E f \in Files : WriteRedirected(p, f)
                    \/ Exit(p)

Finished == at = "exited" /\ UNCHANGED vars

Next == LauncherStep \/ TreeStep \/ Finished

\* The launcher is one thread that always runs, and its timed waits expire; a
\* tool exits in the end unless it hangs.
Fairness ==
    /\ WF_vars(LauncherStep)
    /\ ~ToolMayHang => WF_vars(Exit(Root))

Spec == Init /\ [][Next]_vars /\ Fairness

-----------------------------------------------------------------------------
\* When the launcher has exited, no process of a tool it put in the job is left:
\* neither after a timeout, nor when the tool exits and leaves descendants
\* behind, nor when a start that failed left it suspended.
TreeContained ==
    at = "exited" /\ (\E p \in Tree : Alive(p)) => Root \notin inJob /\ code # "two"

\* The launcher reports success only for a tool that exited with success on
\* its own and within its time.
SuccessIsReal ==
    code = "zero" => rootCode = "zero" /\ proc[Root] = "dead"

TimeoutIsFailure == [][at = "finalwait" => code' # "zero"]_vars

\* The launcher can end its tool: by the job, or as a single process.
Terminable == Root \in inJob \/ job = "none"

\* Without -D nothing of the backing store is left when the launcher of a tool
\* that ran and could be terminated has exited, unless the tool had descendants
\* that may still write.
OverlayDiscarded ==
    /\ at = "exited" /\ ~Debug
    /\ proc[Root] # "unborn" /\ code # "two"
    /\ Terminable
    /\ \A p \in Tree \ {Root} : proc[p] = "unborn"
    => ~storeDir

\* The backing store is taken away only when the tool that uses it is gone, also
\* when its time is over, and then the descendants in its job as well.
StoreOutlivesTool ==
    [][store \ store' # {} /\ Terminable =>
         /\ ~Alive(Root)
         /\ rootCode = "killed" => \A p \in inJob : ~Alive(p)]_vars

\* The launcher always exits: by itself when the tool does, by the timeout
\* when the tool hangs, even when the tool is not in the job.
LauncherExits == <>(at = "exited")
=============================================================================

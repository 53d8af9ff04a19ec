--------------------------- MODULE LauncherProofs ---------------------------
(***************************************************************************)
(* What one launcher run guarantees, for every tree of processes and every *)
(* set of files: nothing of a contained tool survives, success is real, a  *)
(* timeout is a failure, and the backing store goes after the tool.        *)
(***************************************************************************)
EXTENDS Launcher, TLAPS

Unstarted == {"start", "createjob", "spawn"}
Suspended == {"payload", "assign", "resume"}
Cleaning == {"list", "delete", "rmdir", "close"}

\* Where the launched process stands, seen from the launcher.
Progress ==
    /\ at \in Unstarted => \A p \in Tree : proc[p] = "unborn"
    /\ at \in Suspended => /\ proc[Root] = "suspended"
                           /\ \A p \in Tree \ {Root} : proc[p] = "unborn"
    /\ at \notin Unstarted \cup {"exited"} => proc[Root] # "unborn"
    /\ at \in Cleaning \cup {"finalwait"} /\ Terminable => proc[Root] = "dead"

\* The job holds the whole tree or nothing of it.
Membership ==
    /\ at \in Unstarted \cup {"payload", "assign"} => inJob = {}
    /\ job = "closed" => at = "exited"
    /\ inJob # {} => Root \in inJob /\ job # "none"
    /\ Root \in inJob => \A p \in Tree : proc[p] # "unborn" => p \in inJob

Results ==
    /\ rootCode # "two"
    /\ proc[Root] # "dead" => rootCode = "none"
    /\ rootCode = "killed" => \A p \in inJob : ~Alive(p)
    /\ at \notin Cleaning \cup {"exited"} => code = "none"
    /\ at \in Cleaning => code # "two"
    /\ SuccessIsReal

\* TreeContained, in the form that the steps of the tree preserve.
ExitedContained ==
    at = "exited" => \/ \A p \in Tree : ~Alive(p)
                     \/ Root \notin inJob /\ code # "two"

\* Nobody is left who could write into the backing store.
Quiet == Terminable /\ \A p \in Tree \ {Root} : proc[p] = "unborn"

Removal ==
    Quiet =>
        /\ at = "delete" => store = walk
        /\ at = "rmdir" => store = {}
        /\ at = "close" /\ ~Debug => ~storeDir
        /\ at = "exited" /\ ~Debug /\ proc[Root] # "unborn" /\ code # "two" =>
             ~storeDir /\ proc[Root] = "dead"

Inv == TypeOK /\ Progress /\ Membership /\ Results /\ ExitedContained /\ Removal

USE DEF Phases, Codes, Alive, Terminable, Quiet, Unstarted, Suspended, Cleaning,
        processes, disk, SuccessIsReal

\* Every step of the launcher and of the tree keeps the invariant.
LEMMA InvInductive == Inv /\ [Next]_vars => Inv'
<1>. SUFFICES ASSUME Inv, [Next]_vars PROVE Inv'
  OBVIOUS
<1>. USE LauncherParameters
         DEF Inv, TypeOK, Progress, Membership, Results, ExitedContained, Removal
<1>1. CASE SetupWriteOverlayRoot
  BY <1>1 DEF SetupWriteOverlayRoot, ExitEarly
<1>2. CASE OpenOutputFileFails
  BY <1>2 DEF OpenOutputFileFails, ExitEarly
<1>3. CASE CreateJobObject
  BY <1>3 DEF CreateJobObject
<1>4. CASE CreateProcessWithDll
  BY <1>4 DEF CreateProcessWithDll, ExitEarly
<1>5. CASE CopyPayload
  BY <1>5 DEF CopyPayload, ExitEarly
<1>6. CASE AssignProcessToJob
  BY <1>6 DEF AssignProcessToJob
<1>7. CASE ResumeThread
  BY <1>7 DEF ResumeThread
<1>8. CASE WaitReturns
  BY <1>8 DEF WaitReturns, AfterWait
<1>9. CASE GraceEnds
  BY <1>9 DEF GraceEnds
<1>10. CASE TerminateTree
  BY <1>10 DEF TerminateTree, Kill
<1>11. CASE FinalWait
  BY <1>11 DEF FinalWait, AfterWait
<1>12. CASE CleanupLists
  BY <1>12 DEF CleanupLists
<1>13. CASE CleanupDeletes
  BY <1>13 DEF CleanupDeletes
<1>14. CASE CleanupRemovesDir
  BY <1>14 DEF CleanupRemovesDir
<1>15. CASE CloseJob
  BY <1>15 DEF CloseJob, Kill
<1>16. ASSUME NEW p \in Tree, NEW q \in Tree, Spawn(p, q)
      PROVE  Inv'
  BY <1>16 DEF Spawn
<1>17. ASSUME NEW p \in Tree, NEW f \in Files, WriteRedirected(p, f)
      PROVE  Inv'
  BY <1>17 DEF WriteRedirected
<1>18. ASSUME NEW p \in Tree, Exit(p)
      PROVE  Inv'
  BY <1>18 DEF Exit
<1>19. CASE Finished \/ UNCHANGED vars
  BY <1>19 DEF Finished, vars
<1>20. QED
  BY <1>1, <1>2, <1>3, <1>4, <1>5, <1>6, <1>7, <1>8, <1>9, <1>10, <1>11, <1>12,
     <1>13, <1>14, <1>15, <1>16, <1>17, <1>18, <1>19 DEF Next, LauncherStep, TreeStep

\* What is true at each place of main.cpp:858-1033, whatever the tree does.
THEOREM LauncherInvariant == Spec => []Inv
<1>1. Init => Inv
  BY LauncherParameters DEF Init, Inv, TypeOK, Progress, Membership, Results,
     ExitedContained, Removal
<1>2. QED
  BY <1>1, InvInductive, PTL DEF Spec

\* Every process, the job, the store and the two exit codes stay in the states
\* that the calls of main.cpp:858-1033 can leave them in.
THEOREM LauncherTypes == Spec => []TypeOK
<1>1. Inv => TypeOK
  BY DEF Inv
<1>2. QED
  BY <1>1, LauncherInvariant, PTL

\* Nothing of a tool that was put in the job is left when the launcher has
\* exited (main.cpp:1023-1033).
THEOREM NothingSurvives == Spec => []TreeContained
<1>1. Inv => TreeContained
  BY DEF Inv, ExitedContained, TreeContained
<1>2. QED
  BY <1>1, LauncherInvariant, PTL

\* The launcher reports success only for a tool that succeeded (main.cpp:1009-1012).
THEOREM SuccessMeansSuccess == Spec => []SuccessIsReal
<1>1. Inv => SuccessIsReal
  BY DEF Inv, Results
<1>2. QED
  BY <1>1, LauncherInvariant, PTL

\* Without -D the backing store of a tool that ran alone is gone in the end
\* (main.cpp:1014-1021).
THEOREM StoreDiscarded == Spec => []OverlayDiscarded
<1>1. Inv => OverlayDiscarded
  BY DEF Inv, Removal, OverlayDiscarded
<1>2. QED
  BY <1>1, LauncherInvariant, PTL

\* The backing store is removed only behind the tool and, after a timeout,
\* behind its whole job (main.cpp:1002-1021).
THEOREM StoreGoesLast == Spec => StoreOutlivesTool
<1>1. Inv /\ [Next]_vars =>
        [store \ store' # {} /\ Terminable =>
           /\ ~Alive(Root)
           /\ rootCode = "killed" => \A p \in inJob : ~Alive(p)]_vars
  <2>. SUFFICES ASSUME Inv, [Next]_vars, store \ store' # {}, Terminable
               PROVE  /\ ~Alive(Root)
                      /\ rootCode = "killed" => \A p \in inJob : ~Alive(p)
    OBVIOUS
  <2>1. CleanupDeletes
    BY DEF Next, LauncherStep, TreeStep, SetupWriteOverlayRoot, OpenOutputFileFails,
       CreateJobObject, CreateProcessWithDll, CopyPayload, AssignProcessToJob,
       ResumeThread, WaitReturns, GraceEnds, TerminateTree, FinalWait, CleanupLists,
       CleanupRemovesDir, CloseJob, Spawn, WriteRedirected, Exit, Finished, vars,
       ExitEarly
  <2>2. QED
    BY <2>1 DEF Inv, Progress, Results, CleanupDeletes
<1>2. QED
  BY <1>1, LauncherInvariant, PTL DEF Spec, StoreOutlivesTool

\* After a timeout the launcher never reports success (main.cpp:997-1008).
THEOREM TimeoutFails == Spec => TimeoutIsFailure
<1>1. Inv /\ [Next]_vars => [at = "finalwait" => code' # "zero"]_vars
  BY DEF Inv, Results, Next, LauncherStep, TreeStep, SetupWriteOverlayRoot,
     OpenOutputFileFails, CreateJobObject, CreateProcessWithDll, CopyPayload,
     AssignProcessToJob, ResumeThread, WaitReturns, GraceEnds, TerminateTree,
     FinalWait, CleanupLists, CleanupDeletes, CleanupRemovesDir, CloseJob, Spawn,
     WriteRedirected, Exit, Finished, vars
<1>2. QED
  BY <1>1, LauncherInvariant, PTL DEF Spec, TimeoutIsFailure
=============================================================================

----------------------------- MODULE OverlayEnum -----------------------------
(***************************************************************************)
(* One directory scan, through a directory handle (NtQueryDirectoryFile,   *)
(* GetFileInformationByHandleEx) or a search handle (FindFirstFileEx,      *)
(* FindNextFile).  The OS lists the directory; the hook removes the        *)
(* entries the input filter hides and, once the OS reports exhaustion,     *)
(* appends the files that exist only in the backing store, from a snapshot *)
(* and a cursor in the record that the handle table keeps for the handle.  *)
(* A directory that exists in the backing store only is listed there by    *)
(* the OS.  The tool and its peers create and delete redirected files      *)
(* meanwhile, and a thread may close the handle of a finished scan while   *)
(* the next one already gets the same handle value.                        *)
(***************************************************************************)
EXTENDS Naturals, Sequences, FiniteSets, FiniteSetsExt

CONSTANTS
    MaxName,        \* bound: the names of the directory, in collation order
    Declared,       \* names whose policy allows read
    Pattern,        \* names the wildcard of the scan matches
    Wide,           \* names whose record takes two units of the buffer
    Lengths,        \* sizes of the buffers the caller passes
    FilterInputs,   \* --filter-inputs
    Trace,          \* --trace: every access is reported
    Foreign         \* names other actions create in the real directory

Names == 1 .. MaxName
Apis == {"nt", "handle", "find"}

ASSUME EnumParameters ==
    /\ MaxName \in Nat
    /\ Declared \subseteq Names /\ Pattern \subseteq Names
    /\ Wide \subseteq Names /\ Foreign \subseteq Names
    /\ Lengths \subseteq Nat \ {0}
    /\ \E l \in Lengths : \A k \in Lengths : k <= l
    /\ FilterInputs \in BOOLEAN /\ Trace \in BOOLEAN

VARIABLES
    real,    \* the entries of the real directory
    back,    \* the entries of its backing directory
    api,     \* the calls this tool lists directories with
    onlyOverlay, \* the directory exists in the backing store only
    handle,  \* the handle value of the scan: "free", "open" or being "closed"
    closing, \* what is left of the call that closes the handle
    overlay, \* the HandleOverlay record the table has for the handle value
    osPos,   \* the scan position the OS keeps: the last name it returned
    osAll,   \* the OS lists "*" instead of the caller's wildcard
    pc, query, batch, status,  \* the call in progress and the buffer it fills
    seen,    \* how often the caller got each name in this scan
    steady,  \* names nobody touched since this scan began
    done     \* the caller got STATUS_NO_MORE_FILES

disk == <<real, back, api, onlyOverlay>>
table == <<handle, closing, overlay>>
os == <<osPos, osAll>>
call == <<pc, query, batch, status>>
caller == <<seen, steady, done>>
vars == <<disk, table, os, call, caller>>

\* The snapshot is sorted and a name is a place in the order: a set of names and,
\* as the cursor, the last of them that was passed.
NewOverlay == [EnumerationHasBeenReported |-> FALSE, Started |-> FALSE,
               Snapshot |-> {}, Cursor |-> 0]
NoOverlay == [EnumerationHasBeenReported |-> FALSE, Started |-> FALSE,
              Snapshot |-> {}, Cursor |-> MaxName + 1]
NoQuery == [length |-> 0, single |-> FALSE, restart |-> FALSE, first |-> FALSE,
            raw |-> FALSE]

TypeOK ==
    /\ real \subseteq Names /\ back \subseteq Names /\ steady \subseteq Names
    /\ api \in Apis /\ onlyOverlay \in BOOLEAN
    /\ onlyOverlay => real = {}
    /\ handle \in {"free", "open", "closed"}
    /\ closing \in Seq({"erase", "close"})
    /\ osPos \in Names \cup {0} /\ osAll \in BOOLEAN
    /\ \/ overlay = NoOverlay
       \/ /\ overlay.EnumerationHasBeenReported \in BOOLEAN
          /\ overlay.Started \in BOOLEAN
          /\ overlay.Snapshot \subseteq Names
          /\ overlay.Cursor \in overlay.Snapshot \cup {0}
    /\ pc \in {"idle", "os", "filter", "insert", "synth", "append", "return"}
    /\ query \in [length : Lengths \cup {0}, single : BOOLEAN, restart : BOOLEAN,
                  first : BOOLEAN, raw : BOOLEAN]
    /\ batch \subseteq Names
    /\ status \in {"success", "nomore", "overflow"}
    /\ seen \in [Names -> 0 .. 2]
    /\ done \in BOOLEAN

Hidden(n) == FilterInputs /\ n \notin Declared

IsEnumChildVisible(n) == n \in Declared \/ n \in back

\* GetFileInformationByHandleEx takes no wildcard.
Wildcard == IF api = "handle" THEN Names ELSE Pattern

\* The directory as the tool should see it.
InMergedView(n) == n \in back \/ (n \in real /\ ~Hidden(n))

Init ==
    /\ api \in Apis
    /\ onlyOverlay \in BOOLEAN
    /\ real \in IF onlyOverlay THEN {{}} ELSE SUBSET Names
    /\ back \in SUBSET Names
    /\ handle = "free" /\ closing = <<>> /\ overlay = NoOverlay
    /\ osPos = 0 /\ osAll = FALSE
    /\ pc = "idle" /\ query = NoQuery
    /\ batch = {} /\ status = "success"
    /\ seen = [n \in Names |-> 0]
    /\ steady = Names
    /\ done = FALSE

-----------------------------------------------------------------------------
(* The handle table                                                        *)

ScanStarts == seen' = [n \in Names |-> 0] /\ steady' = Names /\ done' = FALSE

\* A directory handle: CreateFileW, NtCreateFile or NtOpenFile registers a new
\* record under the handle value, over one that may still be there.
RegisterHandleOverlay ==
    /\ api # "find" /\ handle = "free"
    /\ handle' = "open" /\ overlay' = NewOverlay
    /\ osPos' = 0 /\ osAll' = FALSE
    /\ ScanStarts
    /\ UNCHANGED <<disk, closing, call>>

\* Mutant: the handle is closed first and its record erased afterwards.
CloseOrderReversed == <<"close", "erase">>

CloseOrder == <<"erase", "close">>

\* CloseHandle, NtClose and FindClose: the caller is done with the scan.
CloseHandle ==
    /\ pc = "idle" /\ handle = "open" /\ closing = <<>>
    /\ handle' = "closed" /\ closing' = CloseOrder
    /\ osPos' = 0 /\ osAll' = FALSE
    /\ ScanStarts
    /\ UNCHANGED <<disk, overlay, call>>

CloseHandleOverlay ==
    /\ closing # <<>> /\ Head(closing) = "erase"
    /\ overlay' = NoOverlay /\ closing' = Tail(closing)
    /\ UNCHANGED <<disk, handle, os, call, caller>>

\* From here on the OS may give the same value to the next handle.
RealClose ==
    /\ closing # <<>> /\ Head(closing) = "close"
    /\ handle' = "free" /\ closing' = Tail(closing)
    /\ UNCHANGED <<disk, overlay, os, call, caller>>

-----------------------------------------------------------------------------
(* The calls                                                               *)

\* The first records of a listing, as many as fit in a buffer.
SizeOf(names) == Cardinality(names) + Cardinality(names \cap Wide)
Fits(names, query_) ==
    /\ SizeOf(names) <= query_.length
    /\ query_.single => Cardinality(names) <= 1
UpTo(names, last) == {n \in names : n <= last}
Fitting(names, query_) == {n \in names : Fits(UpTo(names, n), query_)}

Query(length, single, restart) ==
    /\ pc = "idle" /\ handle = "open"
    /\ done => restart
    /\ pc' = "os"
    /\ query' = [length |-> length, single |-> single, restart |-> restart,
                 first |-> FALSE,
                 raw |-> \/ overlay = NoOverlay
                         \/ (api = "nt" /\ overlay.EnumerationHasBeenReported)]
    /\ IF restart THEN osPos' = 0 /\ ScanStarts ELSE UNCHANGED <<osPos, caller>>
    /\ UNCHANGED <<disk, table, osAll, batch, status>>

\* The caller asks for the next entries, or starts over.
NtQueryDirectoryFile(length, single, restart) ==
    api = "nt" /\ Query(length, single, restart)

GetFileInformationByHandleEx(length, restart) ==
    api = "handle" /\ Query(length, FALSE, restart)

\* One entry fills the record of a search handle, whatever its name.
FindQuery == [NoQuery EXCEPT !.length = CHOOSE l \in Lengths : \A k \in Lengths : k <= l,
                             !.single = TRUE]

\* The search handle gets its record when the first entry is known.
FindFirstFileExW ==
    /\ api = "find" /\ pc = "idle" /\ handle = "free"
    /\ handle' = "open" /\ pc' = "os"
    /\ query' = [FindQuery EXCEPT !.first = TRUE]
    /\ osPos' = 0 /\ osAll' = FALSE
    /\ ScanStarts
    /\ UNCHANGED <<disk, closing, overlay, batch, status>>

FindNextFileW ==
    /\ api = "find" /\ pc = "idle" /\ handle = "open" /\ ~done
    /\ pc' = "os"
    /\ query' = [FindQuery EXCEPT !.raw = overlay = NoOverlay]
    /\ UNCHANGED <<disk, table, os, batch, status, caller>>

\* What the hook does with a buffer the filter has passed: the search handles
\* get one entry a call, and their overlay tail only at the end.
AfterFilter(result) ==
    CASE api # "find" -> "insert"
      [] api = "find" /\ result = "success" -> "return"
      [] api = "find" /\ result # "success" -> IF query.first THEN "synth" ELSE "append"

\* The OS continues from where the scan stands.
RealQuery ==
    LET listed == IF onlyOverlay THEN back ELSE real
        rest == {n \in listed : n > osPos /\ (osAll \/ n \in Wildcard)}
        next == Fitting(rest, query)
        result == CASE rest = {} -> "nomore"
                    [] rest # {} /\ next = {} -> "overflow"
                    [] OTHER -> "success"
    IN
    /\ pc = "os"
    /\ batch' = next
    /\ status' = result
    /\ osPos' = IF next = {} THEN osPos ELSE Max(next)
    /\ pc' = CASE query.raw -> "return"
               [] ~query.raw /\ FilterInputs -> "filter"
               [] OTHER -> AfterFilter(result)
    /\ UNCHANGED <<disk, table, osAll, query, caller>>

\* The records of a buffer that stay in it.
FilterDirectoryInformation(names) == {n \in names : IsEnumChildVisible(n)}

\* Mutant: the loop asks for the last hidden entry again.
ApplyEnumerationFilterRepeats ==
    LET kept == FilterDirectoryInformation(batch) IN
    /\ pc = "filter"
    /\ batch' = kept
    /\ IF status = "success" /\ kept = {}
       THEN pc' = "os" /\ osPos' = osPos - 1
       ELSE pc' = AfterFilter(status) /\ UNCHANGED osPos
    /\ UNCHANGED <<disk, table, osAll, query, status, caller>>

\* Never hand back a batch of hidden entries only: query again until an entry
\* is visible or the scan ends.
ApplyEnumerationFilter ==
    LET kept == FilterDirectoryInformation(batch) IN
    /\ pc = "filter"
    /\ batch' = kept
    /\ pc' = IF status = "success" /\ kept = {} THEN "os" ELSE AfterFilter(status)
    /\ UNCHANGED <<disk, table, os, query, status, caller>>

\* Mutant: a restart that forgets the cursor.
ResetOverlayKeepsCursor(o, restart) ==
    IF restart THEN [o EXCEPT !.Started = FALSE, !.Snapshot = {}] ELSE o

ResetOverlay(o, restart) ==
    IF restart THEN [o EXCEPT !.Started = FALSE, !.Snapshot = {}, !.Cursor = 0]
               ELSE o

\* Mutant: every backing child is spliced, also those the OS lists itself.
EnsureOverlayEnumSnapshotAll(o) ==
    IF o.Started THEN o
    ELSE [o EXCEPT !.Started = TRUE, !.Snapshot = back]

\* Captured once per scan: the backing children the OS does not list itself, and
\* none where the OS lists the backing directory.
EnsureOverlayEnumSnapshot(o) ==
    IF o.Started THEN o
    ELSE [o EXCEPT !.Started = TRUE,
                   !.Snapshot = IF onlyOverlay THEN {} ELSE back \ real]

\* What the cursor has not passed, of that what the wildcard matches, and where
\* the cursor stands when everything is passed.
Remaining(o) == {n \in o.Snapshot : n > o.Cursor}
Pending(o) == Remaining(o) \cap Wildcard
Passed(o, names) == Max({o.Cursor} \cup names)

\* Mutant: the snapshot is taken again by every call.
InsertOverlayEntriesResnapshots ==
    LET o == EnsureOverlayEnumSnapshot([overlay EXCEPT !.Started = FALSE])
        emitted == Fitting(Pending(o), query)
    IN
    /\ pc = "insert" /\ pc' = "return"
    /\ IF status = "nomore" /\ emitted # {}
       THEN /\ batch' = emitted /\ status' = "success"
            /\ overlay' = [o EXCEPT !.Cursor = Passed(o, Remaining(o))]
       ELSE overlay' = o /\ UNCHANGED <<batch, status>>
    /\ UNCHANGED <<disk, handle, closing, os, query, caller>>

\* The overlay tail is written only into a call that reports exhaustion.  The
\* cursor passes the names the wildcard rejects and stops at the first record
\* that does not fit; when none was written the status stays as it was.
InsertOverlayEntries ==
    LET o == EnsureOverlayEnumSnapshot(ResetOverlay(overlay, query.restart))
        emitted == Fitting(Pending(o), query)
        before == {n \in Remaining(o) : \A m \in Pending(o) \ emitted : n < m}
    IN
    /\ pc = "insert" /\ pc' = "return"
    /\ IF onlyOverlay THEN UNCHANGED <<overlay, batch, status>>
       ELSE IF status = "nomore"
       THEN /\ overlay' = [o EXCEPT !.Cursor =
                             Passed(o, IF query.single /\ emitted # {} THEN emitted
                                                                      ELSE before)]
            /\ batch' = emitted
            /\ status' = IF emitted # {} THEN "success" ELSE "nomore"
       ELSE overlay' = o /\ UNCHANGED <<batch, status>>
    /\ UNCHANGED <<disk, handle, closing, os, query, caller>>

\* FindFirstFile found nothing real, but the backing store has a match: reopen the
\* search for "*", which always finds an entry, and pass the names the wildcard
\* rejects.
TrySynthesizeOverlayFindFirstW ==
    LET matches == Wildcard \cap real IN
    /\ pc = "synth"
    /\ IF onlyOverlay \/ Wildcard \cap (back \ real) = {}
       THEN pc' = "return" /\ UNCHANGED <<overlay, os, batch, status>>
       ELSE /\ overlay' = NewOverlay
            /\ osAll' = TRUE
            /\ IF matches = {}
               THEN /\ pc' = "append" /\ osPos' = MaxName
                    /\ UNCHANGED <<batch, status>>
               ELSE /\ pc' = "return" /\ status' = "success"
                    /\ osPos' = Min(matches) /\ batch' = {Min(matches)}
    /\ UNCHANGED <<disk, handle, closing, query, caller>>

\* The next entry of the overlay tail that the wildcard matches, or none at the
\* end; the cursor passes what was looked at.
NextOverlayFindDataW(o) ==
    LET found == {n \in Pending(o) : \A m \in Pending(o) : n <= m}
    IN [found |-> found, cursor |-> Passed(o, IF found = {} THEN Remaining(o) ELSE found)]

\* Without an entry the call ends as the OS ended it.
TryAppendOverlayFindDataW ==
    LET o == EnsureOverlayEnumSnapshot(overlay)
        next == NextOverlayFindDataW(o)
    IN
    /\ pc = "append" /\ pc' = "return"
    /\ overlay' = [o EXCEPT !.Cursor = next.cursor]
    /\ IF next.found = {}
       THEN UNCHANGED <<batch, status>>
       ELSE batch' = next.found /\ status' = "success"
    /\ UNCHANGED <<disk, handle, closing, os, query, caller>>

Delivered ==
    /\ pc = "return" /\ pc' = "idle"
    /\ seen' = [n \in Names |->
                  IF n \in batch /\ seen[n] < 2 THEN seen[n] + 1 ELSE seen[n]]
    /\ done' = (status = "nomore")
    /\ query' = NoQuery /\ batch' = {} /\ status' = "success"
    /\ UNCHANGED <<disk, os, closing, steady>>

\* The caller gets the buffer; a successful enumeration that --trace reported
\* is remembered on the handle.
QueryReturns ==
    /\ Delivered
    /\ ~query.first
    /\ overlay' = IF query.raw \/ api # "nt" THEN overlay
                  ELSE [overlay EXCEPT !.EnumerationHasBeenReported =
                                         status = "success" /\ Trace]
    /\ UNCHANGED handle

\* The caller gets the first entry and a registered handle, or neither.
FindFirstReturns ==
    /\ Delivered
    /\ query.first
    /\ IF status = "success"
       THEN /\ overlay' = IF osAll THEN overlay ELSE NewOverlay
            /\ UNCHANGED handle
       ELSE overlay' = NoOverlay /\ handle' = "free"

-----------------------------------------------------------------------------
(* Meanwhile                                                               *)

scan == <<api, onlyOverlay, table, os, call, seen, done>>

\* A process of the action creates or removes a redirected file.
OverlayWrite(n) ==
    /\ back' = back \cup {n} /\ n \notin back
    /\ steady' = steady \ {n}
    /\ UNCHANGED <<real, scan>>

OverlayDelete(n) ==
    /\ back' = back \ {n} /\ n \in back
    /\ steady' = steady \ {n}
    /\ UNCHANGED <<real, scan>>

ForeignCreate(n) ==
    /\ n \in Foreign \ real /\ ~onlyOverlay
    /\ real' = real \cup {n}
    /\ steady' = steady \ {n}
    /\ UNCHANGED <<back, scan>>

HookStep ==
    \/ RealQuery \/ ApplyEnumerationFilter \/ InsertOverlayEntries
    \/ TrySynthesizeOverlayFindFirstW \/ TryAppendOverlayFindDataW
    \/ QueryReturns \/ FindFirstReturns

Next ==
    \/ RegisterHandleOverlay \/ CloseHandle \/ CloseHandleOverlay \/ RealClose
    \/ \E length \in Lengths, restart \in BOOLEAN :
         \/ \E single \in BOOLEAN : NtQueryDirectoryFile(length, single, restart)
         \/ GetFileInformationByHandleEx(length, restart)
    \/ FindFirstFileExW \/ FindNextFileW
    \/ HookStep
    \/ \E n \in Names : OverlayWrite(n) \/ OverlayDelete(n) \/ ForeignCreate(n)

\* The hook runs on the caller's thread: a step it can take, it takes.
Spec == Init /\ [][Next]_vars /\ WF_vars(HookStep)

-----------------------------------------------------------------------------
\* A search reopened for "*" starts from a directory without a match of its own.
\* Under the filter it may have hidden ones, which come back with it.
ReopenedClean == osAll => Wildcard \cap real = {}

\* A finished scan listed every file of the merged view exactly once, and none
\* that the filter hides or the wildcard rejects: whatever the calls, the sizes of
\* the buffers, the layer the directory is in, and whatever happened to other
\* names meanwhile.
ListingExact ==
    pc = "idle" /\ done /\ ReopenedClean =>
        \A n \in steady :
            seen[n] = IF n \in Wildcard /\ InMergedView(n) THEN 1 ELSE 0

\* An open handle has its own record and a closed one has none, however soon the
\* OS gives the value of a handle that is being closed to the next one.
RecordFollowsHandle ==
    /\ handle = "open" /\ pc = "idle" => overlay # NoOverlay
    /\ handle = "free" /\ pc = "idle" => overlay = NoOverlay

\* No name is returned twice in a scan, also when the processes of the action
\* create and delete redirected files meanwhile.
ListedAtMostOnce == \A n \in Names \ Foreign : seen[n] <= 1

\* A query always returns: the loop over hidden batches ends.
EveryQueryReturns == []<>(pc = "idle")
=============================================================================

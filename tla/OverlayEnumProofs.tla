------------------------- MODULE OverlayEnumProofs -------------------------
(***************************************************************************)
(* A scan, whatever the directory holds and whoever changes it.  It finds  *)
(* its own record under its handle value and nobody else's (TableInv); its *)
(* cursor stands on a name of its own snapshot (ScanInv); it hands out no  *)
(* name twice (OnceInv); and a scan that ends has listed the merged view   *)
(* (ExactInv).                                                             *)
(***************************************************************************)
EXTENDS OverlayEnum, FiniteSetTheorems, WellFoundedInduction, TLAPS

\* A record that RegisterHandleOverlay made, and the calls have worked on since.
Registered == overlay.Started \/ overlay.Cursor = 0

\* The fields of HandleOverlay that a scan uses, whatever is in them.
IsRecord(o) ==
    /\ o.Started \in BOOLEAN
    /\ o = [EnumerationHasBeenReported |-> o.EnumerationHasBeenReported,
            Started |-> o.Started, Snapshot |-> o.Snapshot, Cursor |-> o.Cursor]

TableInv ==
    /\ handle \in {"free", "open", "closed"}
    /\ IsRecord(overlay)
    /\ handle # "closed" => closing = <<>>
    /\ handle = "closed" =>
         \/ closing = <<"erase", "close">> /\ Registered
         \/ closing = <<"close">> /\ overlay = NoOverlay
    /\ handle = "free" => overlay = NoOverlay
    /\ pc # "idle" => handle = "open"
    /\ handle = "open" => \/ Registered
                          \/ pc # "idle" /\ query.first
    /\ handle = "open" /\ osAll /\ query.first => Registered

USE DEF disk, table, os, call, caller, scan, IsRecord, Registered

LEMMA Bound == MaxName \in Nat
  BY EnumParameters

\* Every step of the scan, of the closing thread and of the peers keeps it.
LEMMA TableInductive == TableInv /\ [Next]_vars => TableInv'
<1>. SUFFICES ASSUME TableInv, [Next]_vars PROVE TableInv'
  OBVIOUS
<1>. USE Bound DEF TableInv
<1>1. CASE RegisterHandleOverlay
  BY <1>1 DEF RegisterHandleOverlay, NewOverlay, ScanStarts
<1>2. CASE CloseHandle
  BY <1>2 DEF CloseHandle, CloseOrder
<1>3. CASE CloseHandleOverlay
  <2>1. closing = <<"erase", "close">>
    BY <1>3 DEF CloseHandleOverlay
  <2>2. closing' = <<"close">> /\ handle = "closed" /\ handle' = "closed"
    BY <1>3, <2>1 DEF CloseHandleOverlay
  <2>3. overlay' = NoOverlay /\ UNCHANGED <<pc, query, osAll>>
    BY <1>3 DEF CloseHandleOverlay
  <2>4. IsRecord(NoOverlay)
    BY DEF NoOverlay
  <2>5. QED
    BY <2>2, <2>3, <2>4
<1>4. CASE RealClose
  <2>1. handle = "closed" /\ closing = <<"close">> /\ overlay = NoOverlay
    BY <1>4 DEF RealClose
  <2>2. closing' = <<>> /\ handle' = "free"
    BY <1>4, <2>1 DEF RealClose
  <2>3. UNCHANGED <<overlay, pc, query, osAll>>
    BY <1>4 DEF RealClose
  <2>4. QED
    BY <2>1, <2>2, <2>3
<1>5. CASE FindFirstFileExW
  BY <1>5 DEF FindFirstFileExW, NoOverlay, NewOverlay, FindQuery, NoQuery
<1>6. CASE FindNextFileW
  BY <1>6 DEF FindNextFileW, FindQuery, NoQuery
<1>7. CASE RealQuery
  BY <1>7 DEF RealQuery, AfterFilter
<1>8. CASE ApplyEnumerationFilter
  BY <1>8 DEF ApplyEnumerationFilter, AfterFilter
<1>9. CASE InsertOverlayEntries
  BY <1>9 DEF InsertOverlayEntries, ResetOverlay, EnsureOverlayEnumSnapshot
<1>10. CASE TrySynthesizeOverlayFindFirstW
  <2>1. handle = "open" /\ handle' = "open" /\ closing' = closing /\ query' = query
    BY <1>10 DEF TrySynthesizeOverlayFindFirstW
  <2>2. pc' \in {"return", "append"}
    BY <1>10 DEF TrySynthesizeOverlayFindFirstW
  <2>3. CASE UNCHANGED <<overlay, os>>
    BY <2>1, <2>2, <2>3, <1>10 DEF TrySynthesizeOverlayFindFirstW
  <2>4. CASE overlay' = NewOverlay
    BY <2>1, <2>2, <2>4 DEF NewOverlay
  <2>5. QED
    BY <1>10, <2>3, <2>4 DEF TrySynthesizeOverlayFindFirstW
<1>11. CASE TryAppendOverlayFindDataW
  BY <1>11 DEF TryAppendOverlayFindDataW, EnsureOverlayEnumSnapshot
<1>12. CASE QueryReturns
  BY <1>12 DEF QueryReturns, Delivered, NoQuery
<1>13. CASE FindFirstReturns
  <2>1. handle = "open" /\ closing' = closing /\ closing = <<>> /\ osAll' = osAll
    BY <1>13 DEF FindFirstReturns, Delivered
  <2>2. query.first /\ ~query'.first /\ pc' = "idle"
    BY <1>13 DEF FindFirstReturns, Delivered, NoQuery
  <2>3. CASE status = "success"
    <3>1. /\ handle' = "open"
          /\ (osAll /\ overlay' = overlay) \/ overlay' = NewOverlay
      BY <1>13, <2>1, <2>3 DEF FindFirstReturns
    <3>2. CASE osAll /\ overlay' = overlay
      BY <2>1, <2>2, <3>1, <3>2
    <3>3. CASE overlay' = NewOverlay
      BY <2>1, <2>2, <3>1, <3>3 DEF NewOverlay
    <3>4. QED
      BY <3>1, <3>2, <3>3
  <2>4. CASE status # "success"
    <3>1. handle' = "free" /\ overlay' = NoOverlay
      BY <1>13, <2>4 DEF FindFirstReturns
    <3>2. QED
      BY <2>1, <2>2, <3>1 DEF NoOverlay
  <2>5. QED
    BY <2>3, <2>4
<1>14. ASSUME NEW length \in Lengths, NEW single \in BOOLEAN, NEW restart \in BOOLEAN,
             Query(length, single, restart)
      PROVE  TableInv'
  BY <1>14 DEF Query
<1>15. ASSUME NEW n \in Names, OverlayWrite(n) \/ OverlayDelete(n) \/ ForeignCreate(n)
      PROVE  TableInv'
  BY <1>15 DEF OverlayWrite, OverlayDelete, ForeignCreate
<1>16. CASE UNCHANGED vars
  BY <1>16 DEF vars
<1>17. QED
  BY <1>1, <1>2, <1>3, <1>4, <1>5, <1>6, <1>7, <1>8, <1>9, <1>10, <1>11, <1>12,
     <1>13, <1>14, <1>15, <1>16
     DEF Next, HookStep, NtQueryDirectoryFile, GetFileInformationByHandleEx

\* A handle value that is closed and given out again never finds the record of
\* the scan before, and the new scan never loses its own
\* (DetouredFunctions.cpp:1898-1913, 6777-6800).
THEOREM RecordsFollowHandles == Spec => []RecordFollowsHandle
<1>1. Init => TableInv
  BY Bound DEF Init, TableInv, NoOverlay, NewOverlay, NoQuery
<1>2. TableInv => RecordFollowsHandle
  BY Bound DEF TableInv, RecordFollowsHandle, NoOverlay, NewOverlay
<1>3. QED
  BY <1>1, <1>2, TableInductive, PTL DEF Spec
-----------------------------------------------------------------------------
(* Sets of names                                                           *)

\* A set of numbers that has a member has a least one.
LEMMA LeastOf ==
  ASSUME NEW T \in SUBSET Nat, T # {}
  PROVE  \E n \in T : \A m \in T : n <= m
<1>1. PICK n \in T : \A m \in T : ~(<<m, n>> \in OpToRel(<, Nat))
  BY WFMin, NatLessThanWellFounded
<1>2. \A m \in T : ~(m < n)
  BY <1>1 DEF OpToRel
<1>3. QED
  BY <1>2

\* A set of numbers up to a bound has a greatest one.
LEMMA MaxMeans ==
  ASSUME NEW k \in Nat, NEW S \in SUBSET (0 .. k), S # {}
  PROVE  Max(S) \in S /\ \A m \in S : m <= Max(S)
<1>. DEFINE T == {k - m : m \in S}
<1>1. T \in SUBSET Nat /\ T # {}
  <2>1. \A m \in S : m \in 0 .. k
    OBVIOUS
  <2>2. \A m \in S : k - m \in Nat /\ k - m \in T
    BY <2>1
  <2>3. QED
    BY <2>2
<1>2. PICK t \in T : \A u \in T : t <= u
  BY <1>1, LeastOf
<1>3. PICK n \in S : t = k - n
  BY <1>2
<1>4. \A m \in S : m \in 0 .. k
  OBVIOUS
<1>5. ASSUME NEW m \in S PROVE n >= m
  <2>1. k - n <= k - m
    BY <1>2, <1>3
  <2>2. m \in 0 .. k /\ n \in 0 .. k
    BY <1>4
  <2>3. QED
    BY <2>1, <2>2
<1>6. Max(S) \in S /\ \A m \in S : Max(S) >= m
  BY <1>5 DEF Max
<1>7. QED
  BY <1>6

LEMMA MinMeans ==
  ASSUME NEW S \in SUBSET Nat, S # {}
  PROVE  Min(S) \in S /\ \A m \in S : Min(S) <= m
<1>1. \E n \in S : \A m \in S : n <= m
  BY LeastOf
<1>2. QED
  BY <1>1 DEF Min

LEMMA NamesAreNumbers == Names \in SUBSET Nat /\ Names \in SUBSET (0 .. MaxName)
  BY Bound DEF Names

\* A listing is finite, and the units it takes are a number.
LEMMA Sized ==
  ASSUME NEW S \in SUBSET Names
  PROVE  /\ IsFiniteSet(S) /\ Cardinality(S) \in Nat
         /\ Cardinality(S \cap Wide) \in Nat
<1>1. IsFiniteSet(Names)
  BY FS_Interval, Bound DEF Names
<1>2. IsFiniteSet(S) /\ IsFiniteSet(S \cap Wide)
  BY <1>1, FS_Subset
<1>3. QED
  BY <1>2, FS_CardinalityType

\* A piece of what fits, fits.
LEMMA FitsLess ==
  ASSUME NEW S \in SUBSET Names, NEW T \in SUBSET S, NEW q, q.length \in Nat,
         Fits(S, q)
  PROVE  Fits(T, q)
<1>1. /\ Cardinality(S) \in Nat /\ Cardinality(S \cap Wide) \in Nat
      /\ Cardinality(T) \in Nat /\ Cardinality(T \cap Wide) \in Nat
  BY Sized
<1>2. Cardinality(T) <= Cardinality(S)
  BY Sized, FS_Subset
<1>3. Cardinality(T \cap Wide) <= Cardinality(S \cap Wide)
  <2>1. T \cap Wide \in SUBSET (S \cap Wide) /\ S \cap Wide \in SUBSET Names
    OBVIOUS
  <2>2. QED
    BY <2>1, Sized, FS_Subset
<1>4. SizeOf(T) <= SizeOf(S)
  BY <1>1, <1>2, <1>3 DEF SizeOf
<1>5. SizeOf(T) \in Nat /\ SizeOf(S) \in Nat
  BY <1>1 DEF SizeOf
<1>6. QED
  BY <1>1, <1>2, <1>4, <1>5 DEF Fits

\* A buffer gets the first entries of what is left to list.
LEMMA FittingIsFirst ==
  ASSUME NEW S \in SUBSET Names, NEW q, q.length \in Nat
  PROVE  /\ Fitting(S, q) \in SUBSET S
         /\ \A n \in Fitting(S, q), m \in S \ Fitting(S, q) : n < m
<1>1. Fitting(S, q) \in SUBSET S
  BY DEF Fitting
<1>2. ASSUME NEW n \in Fitting(S, q), NEW m \in S \ Fitting(S, q) PROVE n < m
  <2>1. SUFFICES ASSUME ~(n < m) PROVE FALSE
    OBVIOUS
  <2>2. n \in Nat /\ m \in Nat
    <3>1. n \in S /\ m \in S
      BY <1>1
    <3>2. QED
      BY <3>1, NamesAreNumbers
  <2>3. UpTo(S, m) \in SUBSET UpTo(S, n) /\ UpTo(S, n) \in SUBSET Names
    <3>1. \A i \in S : i \in Nat
      BY NamesAreNumbers
    <3>2. \A i \in S : i <= m => i <= n
      BY <2>1, <2>2, <3>1
    <3>3. QED
      BY <3>2 DEF UpTo
  <2>4. Fits(UpTo(S, n), q)
    BY DEF Fitting
  <2>5. Fits(UpTo(S, m), q)
    BY <2>3, <2>4, FitsLess
  <2>6. QED
    BY <2>5 DEF Fitting
<1>3. QED
  BY <1>1, <1>2

\* With room for every record, a buffer is never empty while an entry is left.
AllFit == \A l \in Lengths : l >= 2 \/ Wide = {}

LEMMA FirstFits ==
  ASSUME AllFit, NEW S \in SUBSET Names, S # {}, NEW q, q.length \in Lengths
  PROVE  Fitting(S, q) # {}
<1>1. PICK n \in S : \A m \in S : n <= m
  BY LeastOf, NamesAreNumbers
<1>2. UpTo(S, n) = {n}
  <2>1. \A i \in S : i \in Nat
    BY NamesAreNumbers
  <2>2. \A i \in S : i <= n <=> i = n
    BY <1>1, <2>1
  <2>3. QED
    BY <2>2 DEF UpTo
<1>3. Cardinality({n}) = 1
  BY FS_Singleton
<1>4. q.length \in Nat /\ q.length >= 1
  <2>1. Lengths \subseteq Nat \ {0}
    BY EnumParameters
  <2>2. q.length \in Nat /\ q.length # 0
    BY <2>1
  <2>3. QED
    BY <2>2
<1>5. SizeOf({n}) <= q.length
  <2>1. CASE {n} \cap Wide = {}
    <3>1. Cardinality({n} \cap Wide) = 0
      BY <2>1, FS_EmptySet
    <3>2. QED
      BY <1>3, <1>4, <3>1 DEF SizeOf
  <2>2. CASE {n} \cap Wide # {}
    <3>1. {n} \cap Wide = {n}
      BY <2>2
    <3>2. q.length >= 2
      BY <2>2 DEF AllFit
    <3>3. SizeOf({n}) = 2
      BY <1>3, <3>1 DEF SizeOf
    <3>4. QED
      BY <3>2, <3>3
  <2>3. QED
    BY <2>1, <2>2
<1>6. Fits(UpTo(S, n), q)
  BY <1>2, <1>3, <1>5 DEF Fits
<1>7. QED
  BY <1>6 DEF Fitting

-----------------------------------------------------------------------------
(* Records and buffers keep their types                                    *)

\* A record that belongs to an open handle: its cursor stands at the start or on
\* a name of the snapshot it was taken with.
Kept(o) ==
    /\ IsRecord(o) /\ o.EnumerationHasBeenReported \in BOOLEAN
    /\ o.Snapshot \subseteq Names
    /\ o.Cursor \in o.Snapshot \cup {0}
    /\ o.Started \/ o.Cursor = 0

NothingSeen == \A n \in Names : seen[n] = 0

\* What is left over from earlier calls, and which calls take which way through
\* the hook: the search handles fill their record before it is registered, and the
\* overlay tail is reached with an empty buffer or a buffer of real entries.
CallInv ==
    /\ pc = "idle" => query = NoQuery /\ batch = {} /\ status = "success"
    /\ pc = "os" => batch = {} /\ status = "success"
    /\ pc # "idle" => query.length \in Lengths
    /\ status # "success" => batch = {}
    /\ query.first => api = "find"
    /\ query.restart => api # "find"
    /\ osAll => api = "find"
    /\ query.restart \/ query.first \/ handle # "open" => NothingSeen
    /\ query.first /\ ~osAll => overlay = NoOverlay
    /\ query.first /\ osAll => pc \in {"append", "return"}
    /\ pc = "insert" => api # "find"
    /\ pc = "synth" => query.first /\ ~osAll
    /\ pc = "append" => (query.first => osAll)
    /\ pc \in {"synth", "append"} => api = "find" /\ status # "success"
    /\ pc \in {"filter", "insert", "synth", "append"} /\ ~onlyOverlay => batch \subseteq real

ScanInv == TableInv /\ TypeOK /\ CallInv

LEMMA RegisteredKept ==
  ASSUME ScanInv, Registered
  PROVE  Kept(overlay)
BY Bound DEF ScanInv, TypeOK, TableInv, Kept, NoOverlay

LEMMA KeptIsTyped ==
  ASSUME NEW o, Kept(o)
  PROVE  /\ o.EnumerationHasBeenReported \in BOOLEAN /\ o.Started \in BOOLEAN
         /\ o.Snapshot \subseteq Names /\ o.Cursor \in o.Snapshot \cup {0}
         /\ o.Cursor \in 0 .. MaxName
BY NamesAreNumbers, Bound DEF Kept

LEMMA NewKept == Kept(NewOverlay)
BY DEF Kept, NewOverlay

\* A restart and the snapshot: what is in the record afterwards.
LEMMA SnapshotKept ==
  ASSUME TypeOK, NEW o, Kept(o), NEW restart \in BOOLEAN,
         NEW u, u = EnsureOverlayEnumSnapshot(ResetOverlay(o, restart))
  PROVE  /\ Kept(u) /\ u.Started
         /\ u.EnumerationHasBeenReported = o.EnumerationHasBeenReported
         /\ ~restart /\ o.Started => u = o
         /\ restart \/ ~o.Started =>
              u.Cursor = 0 /\ u.Snapshot = IF onlyOverlay THEN {} ELSE back \ real
<1>1. CASE restart
  BY <1>1 DEF Kept, ResetOverlay, EnsureOverlayEnumSnapshot, TypeOK
<1>2. CASE ~restart /\ o.Started
  BY <1>2 DEF Kept, ResetOverlay, EnsureOverlayEnumSnapshot, TypeOK
<1>3. CASE ~restart /\ ~o.Started
  BY <1>3 DEF Kept, ResetOverlay, EnsureOverlayEnumSnapshot, TypeOK
<1>4. QED
  BY <1>1, <1>2, <1>3

\* The cursor moves over names that were left, and forwards only.
LEMMA CursorPasses ==
  ASSUME NEW o, Kept(o), o.Started, NEW names \in SUBSET Remaining(o),
         NEW u, u = [o EXCEPT !.Cursor = Passed(o, names)]
  PROVE  /\ Kept(u) /\ u.Started /\ u.Snapshot = o.Snapshot
         /\ u.EnumerationHasBeenReported = o.EnumerationHasBeenReported
         /\ u.Cursor \in {o.Cursor} \cup names
         /\ o.Cursor <= u.Cursor
         /\ \A n \in names : n <= u.Cursor
<1>. DEFINE S == {o.Cursor} \cup names
<1>1. o.Cursor \in 0 .. MaxName
  BY KeptIsTyped
<1>2. Remaining(o) \subseteq o.Snapshot /\ o.Snapshot \subseteq Names
  BY KeptIsTyped DEF Remaining
<1>3. S \in SUBSET (0 .. MaxName) /\ S # {}
  BY <1>1, <1>2, NamesAreNumbers
<1>4. Max(S) \in S /\ \A n \in S : n <= Max(S)
  BY <1>3, MaxMeans, Bound
<1>5. u = [o EXCEPT !.Cursor = Max(S)]
  BY DEF Passed
<1>6. u.Cursor = Max(S) /\ u.Started /\ u.Snapshot = o.Snapshot
  BY <1>5 DEF Kept
<1>7. IsRecord(u) /\ u.EnumerationHasBeenReported = o.EnumerationHasBeenReported
  BY <1>5 DEF Kept
<1>8. u.Cursor \in u.Snapshot \cup {0}
  BY <1>2, <1>4, <1>6 DEF Kept
<1>9. Kept(u)
  BY <1>2, <1>6, <1>7, <1>8 DEF Kept
<1>10. QED
  BY <1>4, <1>6, <1>7, <1>9

LEMMA QueryTypes ==
  /\ NoQuery \in [length : {0}, single : BOOLEAN, restart : BOOLEAN,
                  first : BOOLEAN, raw : BOOLEAN]
  /\ ~NoQuery.first /\ ~NoQuery.restart
  /\ FindQuery \in [length : Lengths, single : BOOLEAN, restart : BOOLEAN,
                    first : BOOLEAN, raw : BOOLEAN]
  /\ ~FindQuery.first /\ ~FindQuery.restart /\ FindQuery.single /\ ~FindQuery.raw
<1>1. PICK k \in Lengths : \A l \in Lengths : l <= k
  BY EnumParameters
<1>2. (CHOOSE l \in Lengths : \A m \in Lengths : m <= l) \in Lengths
  BY <1>1
<1>3. QED
  BY <1>2 DEF NoQuery, FindQuery

LEMMA ScanStartsClean ==
  ASSUME ScanStarts
  PROVE  /\ seen' \in [Names -> 0 .. 2] /\ steady' = Names /\ done' = FALSE
         /\ NothingSeen'
<1>1. seen' = [n \in Names |-> 0] /\ 0 \in 0 .. 2
  BY DEF ScanStarts
<1>2. seen' \in [Names -> 0 .. 2]
  BY <1>1
<1>3. QED
  BY <1>1, <1>2 DEF ScanStarts, NothingSeen

LEMMA TypesHandles ==
  ASSUME ScanInv, TableInv',
         RegisterHandleOverlay \/ CloseHandle \/ CloseHandleOverlay \/ RealClose
  PROVE  TypeOK' /\ CallInv'
<1>. USE Bound DEF ScanInv
<1>1. closing' \in Seq({"erase", "close"})
  <2>1. closing' \in {<<>>, <<"close">>, <<"erase", "close">>}
    BY DEF TableInv
  <2>2. {<<>>, <<"close">>, <<"erase", "close">>} \subseteq Seq({"erase", "close"})
    OBVIOUS
  <2>3. QED
    BY <2>1, <2>2
<1>2. pc = "idle" /\ pc' = "idle" /\ UNCHANGED <<disk, call>>
  BY DEF TableInv, RegisterHandleOverlay, CloseHandle, CloseHandleOverlay, RealClose
<1>3. CASE RegisterHandleOverlay
  <2>1. TypeOK'
    <3>1. /\ seen' \in [Names -> 0 .. 2] /\ steady' \subseteq Names /\ done' \in BOOLEAN
          /\ osPos' = 0 /\ osAll' = FALSE /\ handle' \in {"free", "open", "closed"}
      BY <1>3, ScanStartsClean DEF RegisterHandleOverlay
    <3>2. overlay' = NewOverlay
      BY <1>3 DEF RegisterHandleOverlay
    <3>3. \/ overlay' = NoOverlay
          \/ /\ overlay'.EnumerationHasBeenReported \in BOOLEAN
             /\ overlay'.Started \in BOOLEAN
             /\ overlay'.Snapshot \subseteq Names
             /\ overlay'.Cursor \in overlay'.Snapshot \cup {0}
      BY <3>2, NewKept, KeptIsTyped
    <3>4. QED
      BY <1>1, <1>2, <3>1, <3>3 DEF TypeOK
  <2>2. NothingSeen'
    BY <1>3, ScanStartsClean DEF RegisterHandleOverlay
  <2>3. CallInv'
    BY <1>2, <1>3, <2>2, QueryTypes DEF CallInv, RegisterHandleOverlay
  <2>4. QED
    BY <2>1, <2>3
<1>4. CASE CloseHandle
  <2>1. TypeOK'
    <3>1. /\ seen' \in [Names -> 0 .. 2] /\ steady' \subseteq Names /\ done' \in BOOLEAN
          /\ osPos' = 0 /\ osAll' = FALSE /\ handle' \in {"free", "open", "closed"}
      BY <1>4, ScanStartsClean DEF CloseHandle
    <3>2. overlay' = overlay
      BY <1>4 DEF CloseHandle
    <3>3. \/ overlay' = NoOverlay
          \/ /\ overlay'.EnumerationHasBeenReported \in BOOLEAN
             /\ overlay'.Started \in BOOLEAN
             /\ overlay'.Snapshot \subseteq Names
             /\ overlay'.Cursor \in overlay'.Snapshot \cup {0}
      BY <3>2 DEF TypeOK
    <3>4. QED
      BY <1>1, <1>2, <3>1, <3>3 DEF TypeOK
  <2>2. NothingSeen'
    BY <1>4, ScanStartsClean DEF CloseHandle
  <2>3. CallInv'
    BY <1>2, <1>4, <2>2, QueryTypes DEF CallInv, CloseHandle
  <2>4. QED
    BY <2>1, <2>3
<1>5. CASE CloseHandleOverlay \/ RealClose
  <2>1. UNCHANGED <<os, caller>> /\ handle' \in {"closed", "free"} /\ handle # "open"
    BY <1>5 DEF TypeOK, TableInv, CloseHandleOverlay, RealClose
  <2>2. overlay' \in {overlay, NoOverlay}
    BY <1>5 DEF CloseHandleOverlay, RealClose
  <2>3. TypeOK'
    BY <1>1, <1>2, <2>1, <2>2 DEF TypeOK
  <2>4. CallInv'
    BY <1>2, <2>1, QueryTypes DEF CallInv, NothingSeen
  <2>5. QED
    BY <2>3, <2>4
<1>6. QED
  BY <1>3, <1>4, <1>5

LEMMA TypesCalls ==
  ASSUME ScanInv,
         \/ FindFirstFileExW
         \/ FindNextFileW
         \/ \E length \in Lengths, single \in BOOLEAN, restart \in BOOLEAN :
              api # "find" /\ Query(length, single, restart)
  PROVE  TypeOK' /\ CallInv'
<1>. USE Bound DEF ScanInv
<1>1. CASE FindFirstFileExW
  <2>1. query' \in [length : Lengths, single : BOOLEAN, restart : BOOLEAN,
                    first : BOOLEAN, raw : BOOLEAN] /\ query'.first /\ ~query'.restart
    BY <1>1, QueryTypes DEF FindFirstFileExW
  <2>2. TypeOK'
    BY <1>1, <2>1, ScanStartsClean DEF TypeOK, FindFirstFileExW
  <2>3. NothingSeen' /\ overlay' = NoOverlay /\ pc = "idle"
    BY <1>1, ScanStartsClean DEF FindFirstFileExW, TableInv
  <2>4. CallInv'
    BY <1>1, <2>1, <2>3 DEF CallInv, FindFirstFileExW
  <2>5. QED
    BY <2>2, <2>4
<1>2. CASE FindNextFileW
  <2>1. query' \in [length : Lengths, single : BOOLEAN, restart : BOOLEAN,
                    first : BOOLEAN, raw : BOOLEAN] /\ ~query'.first /\ ~query'.restart
    BY <1>2, QueryTypes DEF FindNextFileW
  <2>2. TypeOK'
    BY <1>2, <2>1 DEF TypeOK, FindNextFileW
  <2>3. CallInv'
    BY <1>2, <2>1 DEF CallInv, FindNextFileW, NothingSeen
  <2>4. QED
    BY <2>2, <2>3
<1>3. ASSUME NEW length \in Lengths, NEW single \in BOOLEAN, NEW restart \in BOOLEAN,
             api # "find", Query(length, single, restart)
      PROVE  TypeOK' /\ CallInv'
  <2>1. /\ query' \in [length : Lengths, single : BOOLEAN, restart : BOOLEAN,
                       first : BOOLEAN, raw : BOOLEAN]
        /\ ~query'.first /\ query'.restart = restart
    BY <1>3 DEF Query
  <2>2. restart => ScanStarts /\ osPos' = 0
    BY <1>3 DEF Query
  <2>3. ~restart => UNCHANGED <<osPos, caller>>
    BY <1>3 DEF Query
  <2>4. UNCHANGED <<disk, table, osAll, batch, status>> /\ pc' = "os" /\ pc = "idle" /\ handle = "open"
    BY <1>3 DEF Query
  <2>5. osPos' \in Names \cup {0} /\ seen' \in [Names -> 0 .. 2] /\ done' \in BOOLEAN
        /\ steady' \subseteq Names
    BY <2>2, <2>3, ScanStartsClean DEF TypeOK
  <2>6. TypeOK'
    BY <2>1, <2>4, <2>5 DEF TypeOK
  <2>7. restart => NothingSeen'
    BY <2>2, ScanStartsClean
  <2>8. CallInv'
    BY <1>3, <2>1, <2>4, <2>7 DEF CallInv
  <2>9. QED
    BY <2>6, <2>8
<1>4. QED
  BY <1>1, <1>2, <1>3

LEMMA TypesMeanwhile ==
  ASSUME ScanInv,
         \/ UNCHANGED vars
         \/ \E n \in Names : OverlayWrite(n) \/ OverlayDelete(n) \/ ForeignCreate(n)
  PROVE  TypeOK' /\ CallInv'
<1>. USE DEF ScanInv
<1>1. CASE UNCHANGED vars
  BY <1>1 DEF vars, TypeOK, CallInv, NothingSeen
<1>2. ASSUME NEW n \in Names, OverlayWrite(n) \/ OverlayDelete(n) \/ ForeignCreate(n)
      PROVE  TypeOK' /\ CallInv'
  <2>1. UNCHANGED scan /\ real \subseteq real' /\ steady' \subseteq Names
    BY <1>2 DEF OverlayWrite, OverlayDelete, ForeignCreate, TypeOK
  <2>2. real' \subseteq Names /\ back' \subseteq Names /\ (onlyOverlay => real' = {})
    BY <1>2 DEF OverlayWrite, OverlayDelete, ForeignCreate, TypeOK
  <2>3. TypeOK'
    BY <2>1, <2>2 DEF TypeOK
  <2>4. CallInv'
    BY <2>1 DEF CallInv, NothingSeen
  <2>5. QED
    BY <2>3, <2>4
<1>3. QED
  BY <1>1, <1>2

-----------------------------------------------------------------------------
(* What one step of the hook does                                          *)

\* What the OS has left to list.
Listing == IF onlyOverlay THEN back ELSE real
Rest == {n \in Listing : n > osPos /\ (osAll \/ n \in Wildcard)}

LEMMA RestIsNames ==
  ASSUME TypeOK
  PROVE  /\ Listing \in SUBSET Names /\ Rest \in SUBSET Listing /\ Rest \in SUBSET Names
         /\ Rest \in SUBSET (0 .. MaxName) /\ osPos \in 0 .. MaxName
<1>1. Listing \in SUBSET Names /\ Rest \in SUBSET Listing
  BY DEF TypeOK, Listing, Rest
<1>2. osPos \in 0 .. MaxName
  BY NamesAreNumbers, Bound DEF TypeOK
<1>3. QED
  BY <1>1, <1>2, NamesAreNumbers

LEMMA QueryLength ==
  ASSUME ScanInv, pc # "idle"
  PROVE  query.length \in Lengths /\ query.length \in Nat
<1>1. Lengths \subseteq Nat
  BY EnumParameters
<1>2. QED
  BY <1>1 DEF ScanInv, CallInv

LEMMA RealQueryMeans ==
  ASSUME ScanInv, RealQuery
  PROVE  /\ batch' = Fitting(Rest, query) /\ batch' \in SUBSET Rest
         /\ \A n \in batch', m \in Rest \ batch' : n < m
         /\ batch' = {} => osPos' = osPos
         /\ batch' # {} => osPos' \in batch' /\ \A n \in batch' : n <= osPos'
         /\ osPos <= osPos'
         /\ status' = "nomore" <=> Rest = {}
         /\ status' = "success" <=> batch' # {}
         /\ status' \in {"success", "nomore", "overflow"}
<1>1. Rest \in SUBSET Names /\ Rest \in SUBSET (0 .. MaxName) /\ osPos \in 0 .. MaxName
  BY RestIsNames DEF ScanInv
<1>2. query.length \in Nat
  BY QueryLength DEF RealQuery
<1>3. batch' = Fitting(Rest, query)
  BY DEF RealQuery, Rest, Listing
<1>4. batch' \in SUBSET Rest /\ \A n \in batch', m \in Rest \ batch' : n < m
  BY <1>1, <1>2, <1>3, FittingIsFirst
<1>5. osPos' = IF batch' = {} THEN osPos ELSE Max(batch')
  BY <1>3 DEF RealQuery, Rest, Listing
<1>6. ASSUME batch' # {} PROVE osPos' \in batch' /\ \A n \in batch' : n <= osPos'
  <2>1. batch' \in SUBSET (0 .. MaxName)
    BY <1>1, <1>4
  <2>2. Max(batch') \in batch' /\ \A n \in batch' : n <= Max(batch')
    BY <1>6, <2>1, MaxMeans, Bound
  <2>3. QED
    BY <1>5, <1>6, <2>2
<1>7. osPos <= osPos'
  <2>1. CASE batch' = {}
    BY <1>1, <1>5, <2>1
  <2>2. CASE batch' # {}
    <3>1. osPos' \in Rest /\ osPos' \in 0 .. MaxName
      BY <1>1, <1>4, <1>6, <2>2
    <3>2. osPos' > osPos
      BY <3>1 DEF Rest
    <3>3. QED
      BY <1>1, <3>1, <3>2
  <2>3. QED
    BY <2>1, <2>2
<1>8. status' = CASE Rest = {} -> "nomore"
                  [] Rest # {} /\ batch' = {} -> "overflow"
                  [] OTHER -> "success"
  BY <1>3 DEF RealQuery, Rest, Listing
<1>9. /\ status' = "nomore" <=> Rest = {}
      /\ status' = "success" <=> batch' # {}
      /\ status' \in {"success", "nomore", "overflow"}
  <2>1. CASE Rest = {}
    BY <1>4, <1>8, <2>1
  <2>2. CASE Rest # {} /\ batch' = {}
    BY <1>8, <2>2
  <2>3. CASE Rest # {} /\ batch' # {}
    BY <1>8, <2>3
  <2>4. QED
    BY <2>1, <2>2, <2>3
<1>10. QED
  BY <1>3, <1>4, <1>5, <1>6, <1>7, <1>9

\* The record the tail of the listing is taken from, before the cursor moves.
Tail0 == EnsureOverlayEnumSnapshot(ResetOverlay(overlay, query.restart))

LEMMA TailRecord ==
  ASSUME ScanInv, pc \in {"insert", "append"}
  PROVE  /\ Kept(overlay) /\ Kept(Tail0) /\ Tail0.Started
         /\ Tail0.EnumerationHasBeenReported = overlay.EnumerationHasBeenReported
         /\ ~query.restart /\ overlay.Started => Tail0 = overlay
         /\ query.restart \/ ~overlay.Started =>
              Tail0.Cursor = 0 /\ Tail0.Snapshot = IF onlyOverlay THEN {} ELSE back \ real
         /\ pc = "append" => Tail0 = EnsureOverlayEnumSnapshot(overlay)
<1>1. pc # "idle" /\ handle = "open" /\ query.restart \in BOOLEAN
  BY DEF ScanInv, TableInv, TypeOK
<1>2. Registered
  BY <1>1 DEF ScanInv, TableInv, CallInv
<1>3. Kept(overlay)
  BY <1>2, RegisteredKept
<1>4. TypeOK
  BY DEF ScanInv
<1>5. /\ Kept(Tail0) /\ Tail0.Started
      /\ Tail0.EnumerationHasBeenReported = overlay.EnumerationHasBeenReported
      /\ ~query.restart /\ overlay.Started => Tail0 = overlay
      /\ query.restart \/ ~overlay.Started =>
           Tail0.Cursor = 0 /\ Tail0.Snapshot = IF onlyOverlay THEN {} ELSE back \ real
  BY <1>1, <1>3, <1>4, SnapshotKept DEF Tail0
<1>6. pc = "append" => ~query.restart
  BY <1>1 DEF ScanInv, CallInv
<1>7. pc = "append" => Tail0 = EnsureOverlayEnumSnapshot(overlay)
  BY <1>6 DEF Tail0, ResetOverlay
<1>8. QED
  BY <1>3, <1>5, <1>7

LEMMA PendingIsLeft ==
  ASSUME NEW o, Kept(o)
  PROVE  /\ Pending(o) \in SUBSET Remaining(o) /\ Remaining(o) \in SUBSET o.Snapshot
         /\ Remaining(o) \in SUBSET Names /\ Pending(o) \in SUBSET Names
         /\ Pending(o) = {n \in o.Snapshot : n > o.Cursor /\ n \in Wildcard}
BY KeptIsTyped DEF Pending, Remaining

\* The end of a call that writes the tail: what was written is what the cursor
\* passed of what was due.
TailWritten(o, u, written) ==
    /\ Kept(u) /\ u.Started /\ u.Snapshot = o.Snapshot
    /\ u.EnumerationHasBeenReported = o.EnumerationHasBeenReported
    /\ o.Cursor <= u.Cursor
    /\ written \in SUBSET Pending(o)
    /\ \A n \in written : n <= u.Cursor
    /\ \A n \in Pending(o) \ written : u.Cursor < n

LEMMA InsertMeans ==
  ASSUME ScanInv, InsertOverlayEntries, ~onlyOverlay, status = "nomore"
  PROVE  /\ TailWritten(Tail0, overlay', batch')
         /\ batch' = Fitting(Pending(Tail0), query)
         /\ status' = IF batch' # {} THEN "success" ELSE "nomore"
<1>. DEFINE o == Tail0
<1>1. Kept(o) /\ o.Started
  BY TailRecord DEF InsertOverlayEntries
<1>2. query.length \in Nat
  BY QueryLength DEF InsertOverlayEntries
<1>3. /\ Pending(o) \in SUBSET Remaining(o) /\ Remaining(o) \in SUBSET Names
      /\ Pending(o) \in SUBSET Names
      /\ \A n \in Remaining(o) : o.Cursor < n
  <2>1. \A n \in Remaining(o) : n > o.Cursor
    BY DEF Remaining
  <2>2. o.Cursor \in 0 .. MaxName
    BY <1>1, KeptIsTyped
  <2>3. QED
    BY <1>1, <2>1, <2>2, PendingIsLeft, NamesAreNumbers
<1>. DEFINE emitted == Fitting(Pending(o), query)
            before == {n \in Remaining(o) : \A m \in Pending(o) \ emitted : n < m}
            names == IF query.single /\ emitted # {} THEN emitted ELSE before
<1>4. emitted \in SUBSET Pending(o) /\ \A n \in emitted, m \in Pending(o) \ emitted : n < m
  BY <1>2, <1>3, FittingIsFirst
<1>5. /\ batch' = emitted /\ overlay' = [o EXCEPT !.Cursor = Passed(o, names)]
      /\ status' = IF emitted # {} THEN "success" ELSE "nomore"
  BY DEF InsertOverlayEntries, Tail0
<1>6. names \in SUBSET Remaining(o)
  BY <1>3, <1>4
<1>7. /\ Kept(overlay') /\ overlay'.Started /\ overlay'.Snapshot = o.Snapshot
      /\ overlay'.EnumerationHasBeenReported = o.EnumerationHasBeenReported
      /\ overlay'.Cursor \in {o.Cursor} \cup names
      /\ o.Cursor <= overlay'.Cursor
      /\ \A n \in names : n <= overlay'.Cursor
  <2>. HIDE DEF names, o
  <2>1. QED
    BY <1>1, <1>5, <1>6, CursorPasses
<1>8. emitted \in SUBSET names
  BY <1>3, <1>4
<1>9. ASSUME NEW n \in Pending(o) \ emitted PROVE overlay'.Cursor < n
  <2>1. CASE overlay'.Cursor = o.Cursor
    BY <1>3, <2>1
  <2>2. CASE overlay'.Cursor \in names
    BY <1>4, <2>2
  <2>3. QED
    BY <1>7, <2>1, <2>2
<1>10. QED
  BY <1>4, <1>5, <1>7, <1>8, <1>9 DEF TailWritten

LEMMA AppendMeans ==
  ASSUME ScanInv, TryAppendOverlayFindDataW
  PROVE  \E found \in SUBSET Pending(Tail0) :
           /\ TailWritten(Tail0, overlay', found)
           /\ found = {} <=> Pending(Tail0) = {}
           /\ found = {} => UNCHANGED <<batch, status>>
           /\ found # {} => batch' = found /\ status' = "success"
<1>. DEFINE o == Tail0
<1>1. Kept(o) /\ o.Started /\ o = EnsureOverlayEnumSnapshot(overlay)
  BY TailRecord DEF TryAppendOverlayFindDataW
<1>2. /\ Pending(o) \in SUBSET Remaining(o) /\ Remaining(o) \in SUBSET Names
      /\ Pending(o) \in SUBSET Names
      /\ \A n \in Remaining(o) : o.Cursor < n
  <2>1. \A n \in Remaining(o) : n > o.Cursor
    BY DEF Remaining
  <2>2. o.Cursor \in 0 .. MaxName
    BY <1>1, KeptIsTyped
  <2>3. QED
    BY <1>1, <2>1, <2>2, PendingIsLeft, NamesAreNumbers
<1>. DEFINE found == {n \in Pending(o) : \A m \in Pending(o) : n <= m}
            names == IF found = {} THEN Remaining(o) ELSE found
<1>3. overlay' = [o EXCEPT !.Cursor = Passed(o, names)]
  BY <1>1 DEF TryAppendOverlayFindDataW, NextOverlayFindDataW
<1>4. /\ found = {} => UNCHANGED <<batch, status>>
      /\ found # {} => batch' = found /\ status' = "success"
  BY <1>1 DEF TryAppendOverlayFindDataW, NextOverlayFindDataW
<1>5. found = {} <=> Pending(o) = {}
  BY <1>2, LeastOf, NamesAreNumbers
<1>6. names \in SUBSET Remaining(o)
  BY <1>2
<1>7. /\ Kept(overlay') /\ overlay'.Started /\ overlay'.Snapshot = o.Snapshot
      /\ overlay'.EnumerationHasBeenReported = o.EnumerationHasBeenReported
      /\ overlay'.Cursor \in {o.Cursor} \cup names
      /\ o.Cursor <= overlay'.Cursor
      /\ \A n \in names : n <= overlay'.Cursor
  <2>1. Kept(o) /\ o.Started
    BY <1>1
  <2>. HIDE DEF names, found, o
  <2>2. QED
    BY <1>3, <1>6, <2>1, CursorPasses
<1>8. ASSUME NEW n \in Pending(o) \ found PROVE overlay'.Cursor < n
  <2>1. CASE overlay'.Cursor = o.Cursor
    BY <1>2, <2>1
  <2>2. CASE overlay'.Cursor \in names
    <3>1. found # {} /\ overlay'.Cursor \in found
      BY <1>5, <1>8, <2>2
    <3>2. overlay'.Cursor \in Pending(o) /\ overlay'.Cursor <= n
      BY <3>1
    <3>3. overlay'.Cursor # n
      BY <3>1
    <3>4. overlay'.Cursor \in Nat /\ n \in Nat
      BY <1>2, <3>2, NamesAreNumbers
    <3>5. QED
      BY <3>2, <3>3, <3>4
  <2>3. QED
    BY <1>7, <2>1, <2>2
<1>9. TailWritten(o, overlay', found)
  BY <1>7, <1>8 DEF TailWritten
<1>10. QED
  BY <1>4, <1>5, <1>9

-----------------------------------------------------------------------------
(* Every step keeps the types                                              *)

LEMMA AfterFilterMeans ==
  ASSUME NEW result
  PROVE  \/ api # "find" /\ AfterFilter(result) = "insert"
         \/ api = "find" /\ result = "success" /\ AfterFilter(result) = "return"
         \/ api = "find" /\ result # "success" /\ query.first /\ AfterFilter(result) = "synth"
         \/ api = "find" /\ result # "success" /\ ~query.first /\ AfterFilter(result) = "append"
<1>1. CASE api # "find"
  BY <1>1 DEF AfterFilter
<1>2. CASE api = "find" /\ result = "success"
  BY <1>2 DEF AfterFilter
<1>3. CASE api = "find" /\ result # "success"
  BY <1>3 DEF AfterFilter
<1>4. QED
  BY <1>1, <1>2, <1>3

LEMMA TypesRealQuery ==
  ASSUME ScanInv, RealQuery
  PROVE  TypeOK' /\ CallInv'
<1>. USE DEF ScanInv
<1>1. pc = "os" /\ handle = "open" /\ UNCHANGED <<disk, table, osAll, query, caller>>
  BY DEF RealQuery, TableInv
<1>2. /\ batch' \in SUBSET Rest /\ (batch' = {} => osPos' = osPos)
      /\ batch' # {} => osPos' \in batch'
      /\ status' = "success" <=> batch' # {}
      /\ status' \in {"success", "nomore", "overflow"}
  BY RealQueryMeans
<1>3. Rest \in SUBSET Names /\ Rest \in SUBSET Listing
  BY RestIsNames
<1>4. \/ pc' = "return"
      \/ pc' = "filter"
      \/ pc' = AfterFilter(status')
  BY DEF RealQuery
<1>5. \/ pc' \in {"return", "filter"}
      \/ pc' = "insert" /\ api # "find"
      \/ pc' = "synth" /\ api = "find" /\ query.first /\ status' # "success"
      \/ pc' = "append" /\ api = "find" /\ ~query.first /\ status' # "success"
  <2>1. CASE pc' = AfterFilter(status')
    BY <2>1, AfterFilterMeans
  <2>2. QED
    BY <1>4, <2>1
<1>6. batch' \in SUBSET Names /\ osPos' \in Names \cup {0}
  BY <1>2, <1>3 DEF TypeOK
<1>7. TypeOK'
  BY <1>1, <1>2, <1>5, <1>6 DEF TypeOK
<1>8. query.first => ~osAll
  BY <1>1 DEF CallInv
<1>9. ~onlyOverlay => batch' \subseteq real
  BY <1>2, <1>3 DEF Listing
<1>10. CallInv'
  BY <1>1, <1>2, <1>5, <1>8, <1>9 DEF CallInv, NothingSeen
<1>11. QED
  BY <1>7, <1>10

LEMMA TypesFilter ==
  ASSUME ScanInv, ApplyEnumerationFilter
  PROVE  TypeOK' /\ CallInv'
<1>. USE DEF ScanInv
<1>1. /\ pc = "filter" /\ handle = "open"
      /\ UNCHANGED <<disk, table, os, query, status, caller>>
  BY DEF ApplyEnumerationFilter, TableInv
<1>2. batch' \in SUBSET batch
  BY DEF ApplyEnumerationFilter, FilterDirectoryInformation
<1>3. \/ pc' = "os" /\ status = "success" /\ batch' = {}
      \/ pc' = AfterFilter(status)
  BY DEF ApplyEnumerationFilter
<1>4. \/ pc' = "os" /\ status = "success" /\ batch' = {}
      \/ pc' = "return"
      \/ pc' = "insert" /\ api # "find"
      \/ pc' = "synth" /\ api = "find" /\ query.first /\ status # "success"
      \/ pc' = "append" /\ api = "find" /\ ~query.first /\ status # "success"
  BY <1>3, AfterFilterMeans
<1>5. TypeOK'
  BY <1>1, <1>2, <1>4 DEF TypeOK
<1>6. query.first => ~osAll
  BY <1>1 DEF CallInv
<1>7. CallInv'
  BY <1>1, <1>2, <1>4, <1>6 DEF CallInv, NothingSeen
<1>8. QED
  BY <1>5, <1>7

LEMMA TypesInsert ==
  ASSUME ScanInv, InsertOverlayEntries
  PROVE  TypeOK' /\ CallInv'
<1>. USE DEF ScanInv
<1>1. /\ pc = "insert" /\ pc' = "return" /\ handle = "open" /\ api # "find"
      /\ UNCHANGED <<disk, handle, closing, os, query, caller>>
  BY DEF InsertOverlayEntries, TableInv, CallInv
<1>2. Kept(overlay) /\ Kept(Tail0)
  BY <1>1, TailRecord
<1>3. /\ Kept(overlay') /\ batch' \in SUBSET Names
      /\ status' \in {"success", "nomore", "overflow"}
      /\ status' # "success" => batch' = {}
  <2>1. CASE onlyOverlay
    BY <1>2, <2>1 DEF InsertOverlayEntries, TypeOK, CallInv
  <2>2. CASE ~onlyOverlay /\ status = "nomore"
    <3>1. /\ TailWritten(Tail0, overlay', batch')
          /\ status' = IF batch' # {} THEN "success" ELSE "nomore"
      BY <2>2, InsertMeans
    <3>2. QED
      BY <1>2, <3>1, PendingIsLeft DEF TailWritten
  <2>3. CASE ~onlyOverlay /\ status # "nomore"
    BY <1>2, <2>3 DEF InsertOverlayEntries, TypeOK, CallInv, Tail0
  <2>4. QED
    BY <2>1, <2>2, <2>3
<1>4. /\ overlay'.EnumerationHasBeenReported \in BOOLEAN /\ overlay'.Started \in BOOLEAN
      /\ overlay'.Snapshot \subseteq Names
      /\ overlay'.Cursor \in overlay'.Snapshot \cup {0}
  BY <1>3, KeptIsTyped
<1>5. TypeOK'
  BY <1>1, <1>3, <1>4 DEF TypeOK
<1>6. CallInv'
  BY <1>1, <1>3 DEF CallInv, NothingSeen
<1>7. QED
  BY <1>5, <1>6

LEMMA TypesAppend ==
  ASSUME ScanInv, TryAppendOverlayFindDataW
  PROVE  TypeOK' /\ CallInv'
<1>. USE DEF ScanInv
<1>1. /\ pc = "append" /\ pc' = "return" /\ handle = "open" /\ api = "find"
      /\ UNCHANGED <<disk, handle, closing, os, query, caller>>
      /\ query.first => osAll
  BY DEF TryAppendOverlayFindDataW, TableInv, CallInv
<1>2. Kept(overlay) /\ Kept(Tail0)
  BY <1>1, TailRecord
<1>3. /\ Kept(overlay') /\ batch' \in SUBSET Names
      /\ status' \in {"success", "nomore", "overflow"}
      /\ status' # "success" => batch' = {}
  <2>1. PICK found \in SUBSET Pending(Tail0) :
          /\ TailWritten(Tail0, overlay', found)
          /\ found = {} <=> Pending(Tail0) = {}
          /\ found = {} => UNCHANGED <<batch, status>>
          /\ found # {} => batch' = found /\ status' = "success"
    BY AppendMeans
  <2>2. Kept(overlay') /\ found \in SUBSET Names
    BY <1>2, <2>1, PendingIsLeft DEF TailWritten
  <2>3. CASE found = {}
    BY <2>1, <2>2, <2>3 DEF TypeOK, CallInv
  <2>4. CASE found # {}
    BY <2>1, <2>2, <2>4
  <2>5. QED
    BY <2>3, <2>4
<1>4. /\ overlay'.EnumerationHasBeenReported \in BOOLEAN /\ overlay'.Started \in BOOLEAN
      /\ overlay'.Snapshot \subseteq Names
      /\ overlay'.Cursor \in overlay'.Snapshot \cup {0}
  BY <1>3, KeptIsTyped
<1>5. TypeOK'
  BY <1>1, <1>3, <1>4 DEF TypeOK
<1>6. CallInv'
  BY <1>1, <1>3 DEF CallInv, NothingSeen
<1>7. QED
  BY <1>5, <1>6

\* A search that is reopened: its first entry is a real match or, when there is
\* none, the scan of the OS is passed altogether.
LEMMA SynthMeans ==
  ASSUME ScanInv, TrySynthesizeOverlayFindFirstW
  PROVE  /\ UNCHANGED <<disk, handle, closing, query, caller>>
         /\ pc = "synth" /\ handle = "open" /\ query.first /\ ~osAll /\ api = "find"
         /\ batch = {} /\ status # "success" /\ NothingSeen /\ overlay = NoOverlay
         /\ \/ /\ pc' = "return" /\ UNCHANGED <<overlay, os, batch, status>>
               /\ onlyOverlay \/ Wildcard \cap (back \ real) = {}
            \/ /\ ~onlyOverlay /\ overlay' = NewOverlay /\ osAll' = TRUE
               /\ Wildcard \cap real = {} /\ pc' = "append" /\ osPos' = MaxName
               /\ UNCHANGED <<batch, status>>
            \/ /\ ~onlyOverlay /\ overlay' = NewOverlay /\ osAll' = TRUE
               /\ pc' = "return" /\ status' = "success"
               /\ osPos' \in Wildcard \cap real /\ batch' = {osPos'}
               /\ \A n \in Wildcard \cap real : osPos' <= n
<1>1. /\ UNCHANGED <<disk, handle, closing, query, caller>>
      /\ pc = "synth" /\ handle = "open" /\ query.first /\ ~osAll /\ api = "find"
      /\ batch = {} /\ status # "success" /\ NothingSeen /\ overlay = NoOverlay
  BY DEF TrySynthesizeOverlayFindFirstW, ScanInv, TableInv, CallInv
<1>2. CASE onlyOverlay \/ Wildcard \cap (back \ real) = {}
  BY <1>1, <1>2 DEF TrySynthesizeOverlayFindFirstW
<1>3. CASE ~(onlyOverlay \/ Wildcard \cap (back \ real) = {}) /\ Wildcard \cap real = {}
  BY <1>1, <1>3 DEF TrySynthesizeOverlayFindFirstW
<1>4. CASE ~(onlyOverlay \/ Wildcard \cap (back \ real) = {}) /\ Wildcard \cap real # {}
  <2>1. Wildcard \cap real \in SUBSET Nat
    BY NamesAreNumbers DEF ScanInv, TypeOK
  <2>2. /\ Min(Wildcard \cap real) \in Wildcard \cap real
        /\ \A n \in Wildcard \cap real : Min(Wildcard \cap real) <= n
    BY <1>4, <2>1, MinMeans
  <2>3. QED
    BY <1>1, <1>4, <2>2 DEF TrySynthesizeOverlayFindFirstW
<1>5. QED
  BY <1>2, <1>3, <1>4

LEMMA TypesSynth ==
  ASSUME ScanInv, TrySynthesizeOverlayFindFirstW
  PROVE  TypeOK' /\ CallInv'
<1>. USE DEF ScanInv
<1>1. /\ UNCHANGED <<disk, handle, closing, query, caller>>
      /\ pc = "synth" /\ handle = "open" /\ query.first /\ ~osAll /\ api = "find"
      /\ batch = {} /\ status # "success" /\ NothingSeen /\ overlay = NoOverlay
  BY SynthMeans
<1>2. real \in SUBSET Names /\ status \in {"success", "nomore", "overflow"}
      /\ MaxName \in Names \cup {0} /\ osPos \in Names \cup {0} /\ osAll \in BOOLEAN
  BY Bound DEF TypeOK, Names
<1>3. /\ osPos' \in Names \cup {0} /\ osAll' \in BOOLEAN
      /\ batch' \in SUBSET Names /\ status' \in {"success", "nomore", "overflow"}
      /\ status' # "success" => batch' = {}
      /\ pc' = "return" \/ (pc' = "append" /\ osAll' /\ batch' = {} /\ status' # "success")
      /\ overlay' = NoOverlay \/ overlay' = NewOverlay
      /\ ~osAll' => overlay' = NoOverlay
  <2>1. CASE pc' = "return" /\ UNCHANGED <<overlay, os, batch, status>>
    BY <1>1, <1>2, <2>1
  <2>2. CASE /\ overlay' = NewOverlay /\ osAll' = TRUE /\ pc' = "append" /\ osPos' = MaxName
             /\ UNCHANGED <<batch, status>>
    BY <1>1, <1>2, <2>2
  <2>3. CASE /\ overlay' = NewOverlay /\ osAll' = TRUE /\ pc' = "return" /\ status' = "success"
             /\ osPos' \in Wildcard \cap real /\ batch' = {osPos'}
    BY <1>1, <1>2, <2>3
  <2>4. QED
    BY <2>1, <2>2, <2>3, SynthMeans
<1>4. TypeOK'
  <2>1. \/ overlay' = NoOverlay
        \/ /\ overlay'.EnumerationHasBeenReported \in BOOLEAN
           /\ overlay'.Started \in BOOLEAN
           /\ overlay'.Snapshot \subseteq Names
           /\ overlay'.Cursor \in overlay'.Snapshot \cup {0}
    BY <1>3, NewKept, KeptIsTyped
  <2>2. QED
    BY <1>1, <1>3, <2>1 DEF TypeOK
<1>5. CallInv'
  BY <1>1, <1>3 DEF CallInv, NothingSeen
<1>6. QED
  BY <1>4, <1>5

\* What the caller got, counted up to two.
LEMMA DeliveredMeans ==
  ASSUME ScanInv, Delivered
  PROVE  /\ pc = "return" /\ pc' = "idle" /\ handle = "open"
         /\ UNCHANGED <<disk, os, closing, steady>>
         /\ query' = NoQuery /\ batch' = {} /\ status' = "success"
         /\ seen' \in [Names -> 0 .. 2] /\ done' = (status = "nomore")
         /\ \A n \in Names :
              /\ n \notin batch => seen'[n] = seen[n]
              /\ n \in batch => seen'[n] # 0
              /\ n \in batch /\ seen[n] = 0 => seen'[n] = 1
<1>1. /\ pc = "return" /\ pc' = "idle" /\ handle = "open"
      /\ UNCHANGED <<disk, os, closing, steady>>
      /\ query' = NoQuery /\ batch' = {} /\ status' = "success"
      /\ done' = (status = "nomore")
  BY DEF Delivered, ScanInv, TableInv
<1>2. seen' = [n \in Names |-> IF n \in batch /\ seen[n] < 2 THEN seen[n] + 1 ELSE seen[n]]
  BY DEF Delivered
<1>3. \A n \in Names : seen[n] \in {0, 1, 2}
  BY DEF ScanInv, TypeOK
<1>4. ASSUME NEW n \in Names
      PROVE  /\ seen'[n] \in 0 .. 2
             /\ n \notin batch => seen'[n] = seen[n]
             /\ n \in batch => seen'[n] # 0
             /\ n \in batch /\ seen[n] = 0 => seen'[n] = 1
  BY <1>2, <1>3
<1>5. seen' \in [Names -> 0 .. 2]
  BY <1>2, <1>4
<1>6. QED
  BY <1>1, <1>4, <1>5

LEMMA TypesReturn ==
  ASSUME ScanInv, QueryReturns
  PROVE  /\ TypeOK' /\ CallInv'
         /\ Kept(overlay)
         /\ Kept(overlay') /\ UNCHANGED handle
         /\ overlay'.Started = overlay.Started /\ overlay'.Snapshot = overlay.Snapshot
         /\ overlay'.Cursor = overlay.Cursor
         /\ overlay'.EnumerationHasBeenReported =>
              Trace \/ overlay.EnumerationHasBeenReported
<1>. USE DEF ScanInv
<1>1. Delivered /\ ~query.first /\ UNCHANGED handle
  BY DEF QueryReturns
<1>2. Registered
  BY <1>1, DeliveredMeans DEF TableInv
<1>3. Kept(overlay)
  BY <1>2, RegisteredKept
<1>4. \/ overlay' = overlay
      \/ overlay' = [overlay EXCEPT !.EnumerationHasBeenReported =
                                      status = "success" /\ Trace]
  BY DEF QueryReturns
<1>5. (status = "success" /\ Trace) \in BOOLEAN
  BY EnumParameters
<1>6. /\ Kept(overlay')
      /\ overlay'.Started = overlay.Started /\ overlay'.Snapshot = overlay.Snapshot
      /\ overlay'.Cursor = overlay.Cursor
      /\ overlay'.EnumerationHasBeenReported =>
           Trace \/ overlay.EnumerationHasBeenReported
  <2>1. CASE overlay' = overlay
    BY <1>3, <2>1
  <2>2. CASE overlay' = [overlay EXCEPT !.EnumerationHasBeenReported =
                                      status = "success" /\ Trace]
    BY <1>3, <1>5, <2>2 DEF Kept
  <2>3. QED
    BY <1>4, <2>1, <2>2
<1>7. /\ overlay'.EnumerationHasBeenReported \in BOOLEAN /\ overlay'.Started \in BOOLEAN
      /\ overlay'.Snapshot \subseteq Names
      /\ overlay'.Cursor \in overlay'.Snapshot \cup {0}
  BY <1>6, KeptIsTyped
<1>8. TypeOK'
  BY <1>1, <1>7, DeliveredMeans, QueryTypes DEF TypeOK
<1>9. CallInv'
  BY <1>1, DeliveredMeans, QueryTypes DEF CallInv
<1>10. QED
  BY <1>1, <1>3, <1>6, <1>8, <1>9

LEMMA FirstReturnMeans ==
  ASSUME ScanInv, FindFirstReturns
  PROVE  /\ Delivered /\ query.first /\ NothingSeen
         /\ \/ /\ status = "success" /\ UNCHANGED handle
               /\ osAll /\ overlay' = overlay /\ Kept(overlay)
            \/ /\ status = "success" /\ UNCHANGED handle
               /\ ~osAll /\ overlay' = NewOverlay /\ overlay = NoOverlay
            \/ status # "success" /\ overlay' = NoOverlay /\ handle' = "free"
<1>1. Delivered /\ query.first /\ NothingSeen
  BY DEF FindFirstReturns, ScanInv, CallInv
<1>2. handle = "open"
  BY <1>1, DeliveredMeans
<1>3. ASSUME osAll PROVE Kept(overlay)
  <2>1. Registered
    BY <1>1, <1>2, <1>3 DEF ScanInv, TableInv
  <2>2. QED
    BY <2>1, RegisteredKept
<1>4. ~osAll => overlay = NoOverlay
  BY <1>1 DEF ScanInv, CallInv
<1>5. QED
  BY <1>1, <1>3, <1>4 DEF FindFirstReturns

LEMMA TypesFirstReturn ==
  ASSUME ScanInv, FindFirstReturns
  PROVE  TypeOK' /\ CallInv'
<1>. USE DEF ScanInv
<1>1. Delivered /\ NothingSeen
  BY FirstReturnMeans
<1>2. handle' \in {"open", "free"} /\ (overlay' = NoOverlay \/ Kept(overlay'))
  BY <1>1, FirstReturnMeans, NewKept, DeliveredMeans
<1>3. \/ overlay' = NoOverlay
      \/ /\ overlay'.EnumerationHasBeenReported \in BOOLEAN
         /\ overlay'.Started \in BOOLEAN
         /\ overlay'.Snapshot \subseteq Names
         /\ overlay'.Cursor \in overlay'.Snapshot \cup {0}
  BY <1>2, KeptIsTyped
<1>4. TypeOK'
  BY <1>1, <1>2, <1>3, DeliveredMeans, QueryTypes DEF TypeOK
<1>5. handle' # "open" => NothingSeen'
  <2>1. ASSUME handle' # "open" PROVE batch = {}
    BY <1>1, <2>1, FirstReturnMeans, DeliveredMeans DEF CallInv
  <2>2. QED
    BY <1>1, <2>1, DeliveredMeans DEF NothingSeen
<1>6. osAll => api = "find"
  BY DEF CallInv
<1>7. CallInv'
  BY <1>1, <1>5, <1>6, DeliveredMeans, QueryTypes DEF CallInv
<1>8. QED
  BY <1>4, <1>7

LEMMA TypesInductive == ScanInv /\ [Next]_vars => ScanInv'
<1>. SUFFICES ASSUME ScanInv, [Next]_vars PROVE ScanInv'
  OBVIOUS
<1>1. TableInv'
  BY TableInductive DEF ScanInv
<1>2. TypeOK' /\ CallInv'
  <2>1. CASE RegisterHandleOverlay \/ CloseHandle \/ CloseHandleOverlay \/ RealClose
    BY <1>1, <2>1, TypesHandles
  <2>2. ASSUME NEW length \in Lengths, NEW restart \in BOOLEAN,
               \/ \E single \in BOOLEAN : NtQueryDirectoryFile(length, single, restart)
               \/ GetFileInformationByHandleEx(length, restart)
        PROVE  TypeOK' /\ CallInv'
    <3>1. \E single \in BOOLEAN : api # "find" /\ Query(length, single, restart)
      BY <2>2 DEF NtQueryDirectoryFile, GetFileInformationByHandleEx
    <3>2. QED
      BY <3>1, TypesCalls
  <2>3. CASE FindFirstFileExW \/ FindNextFileW
    BY <2>3, TypesCalls
  <2>4. CASE HookStep
    BY <2>4, TypesRealQuery, TypesFilter, TypesInsert, TypesSynth, TypesAppend,
       TypesReturn, TypesFirstReturn DEF HookStep
  <2>5. CASE \/ UNCHANGED vars
             \/ \E n \in Names : OverlayWrite(n) \/ OverlayDelete(n) \/ ForeignCreate(n)
    BY <2>5, TypesMeanwhile
  <2>6. QED
    BY <2>1, <2>2, <2>3, <2>4, <2>5 DEF Next
<1>3. QED
  BY <1>1, <1>2 DEF ScanInv

LEMMA ScanStartsTyped == Init => ScanInv
<1>. SUFFICES ASSUME Init PROVE ScanInv
  OBVIOUS
<1>1. TableInv
  BY Bound DEF Init, TableInv, NoOverlay, NewOverlay, NoQuery
<1>2. seen \in [Names -> 0 .. 2] /\ NothingSeen
  <2>1. seen = [n \in Names |-> 0] /\ 0 \in 0 .. 2
    BY DEF Init
  <2>2. QED
    BY <2>1 DEF NothingSeen
<1>3. closing \in Seq({"erase", "close"})
  BY DEF Init
<1>4. TypeOK
  BY <1>2, <1>3, QueryTypes DEF Init, TypeOK
<1>5. CallInv
  BY <1>2, QueryTypes DEF Init, CallInv
<1>6. QED
  BY <1>1, <1>4, <1>5 DEF ScanInv

\* Whatever the caller asks for and the other processes do: the cursor of a record
\* stands on a name of its own snapshot, and what is handed to the caller are names
\* of the directory (overlay_engine.cpp:1455-1506).
THEOREM ScanTypes == Spec => []TypeOK
<1>1. ScanInv => TypeOK
  BY DEF ScanInv
<1>2. QED
  BY <1>1, ScanStartsTyped, TypesInductive, PTL DEF Spec

-----------------------------------------------------------------------------
(* No name comes twice                                                     *)

\* A name nobody creates behind the sandbox's back is the OS's to list or the
\* tail's, never both: what was handed out of it lies before the place where its
\* lister stands.
OnceOf(n) ==
    /\ seen[n] <= 1
    /\ n \in batch => seen[n] = 0
    /\ onlyOverlay \/ n \in real => (n \in batch \/ seen[n] # 0 => n <= osPos)
    /\ ~onlyOverlay /\ n \notin real =>
         (n \in batch \/ seen[n] # 0 =>
            overlay.Started /\ n \in overlay.Snapshot /\ n <= overlay.Cursor)
    /\ overlay.Started /\ n \in overlay.Snapshot => n \notin real

OnceInv ==
    /\ \A n \in Names \ Foreign : OnceOf(n)
    /\ onlyOverlay => overlay.Snapshot = {}

LEMMA OnceHandles ==
  ASSUME ScanInv, OnceInv,
         RegisterHandleOverlay \/ CloseHandle \/ CloseHandleOverlay \/ RealClose
  PROVE  OnceInv'
<1>. USE DEF ScanInv
<1>1. handle # "open" \/ ScanStarts
  BY DEF RegisterHandleOverlay, CloseHandle, CloseHandleOverlay, RealClose, TableInv
<1>2. /\ pc = "idle" /\ UNCHANGED <<disk, call>>
      /\ overlay' = overlay \/ overlay' = NewOverlay \/ overlay' = NoOverlay
      /\ ScanStarts \/ UNCHANGED caller
  BY DEF RegisterHandleOverlay, CloseHandle, CloseHandleOverlay, RealClose, TableInv
<1>3. NothingSeen' /\ batch' = {}
  BY <1>1, <1>2, ScanStartsClean DEF CallInv, NothingSeen
<1>4. ASSUME NEW n \in Names \ Foreign PROVE OnceOf(n)'
  <2>1. seen'[n] = 0 /\ n \notin batch'
    BY <1>3 DEF NothingSeen
  <2>2. overlay'.Started /\ n \in overlay'.Snapshot => n \notin real'
    BY <1>2 DEF OnceInv, OnceOf, NewOverlay, NoOverlay
  <2>3. QED
    BY <2>1, <2>2 DEF OnceOf
<1>5. onlyOverlay' => overlay'.Snapshot = {}
  BY <1>2 DEF OnceInv, NewOverlay, NoOverlay
<1>6. QED
  BY <1>4, <1>5 DEF OnceInv

LEMMA OnceCalls ==
  ASSUME ScanInv, OnceInv,
         \/ FindFirstFileExW
         \/ FindNextFileW
         \/ \E length \in Lengths, single \in BOOLEAN, restart \in BOOLEAN :
              Query(length, single, restart)
  PROVE  OnceInv'
<1>. USE DEF ScanInv
<1>1. /\ UNCHANGED <<disk, overlay, batch>> /\ pc = "idle"
      /\ ScanStarts \/ UNCHANGED <<osPos, seen>>
  BY DEF FindFirstFileExW, FindNextFileW, Query, TableInv
<1>2. batch' = {}
  BY <1>1 DEF CallInv
<1>3. ASSUME NEW n \in Names \ Foreign PROVE OnceOf(n)'
  <2>1. overlay'.Started /\ n \in overlay'.Snapshot => n \notin real'
    BY <1>1 DEF OnceInv, OnceOf
  <2>2. CASE ScanStarts
    <3>1. seen'[n] = 0
      BY <2>2, ScanStartsClean DEF NothingSeen
    <3>2. QED
      BY <1>2, <2>1, <3>1 DEF OnceOf
  <2>3. CASE UNCHANGED <<osPos, seen>>
    BY <1>1, <2>3 DEF OnceInv, OnceOf
  <2>4. QED
    BY <1>1, <2>2, <2>3
<1>4. QED
  BY <1>1, <1>3 DEF OnceInv

LEMMA OnceRealQuery ==
  ASSUME ScanInv, OnceInv, RealQuery
  PROVE  OnceInv'
<1>. USE DEF ScanInv
<1>1. UNCHANGED <<disk, table, seen>>
  BY DEF RealQuery
<1>2. /\ batch' \in SUBSET Rest /\ osPos <= osPos'
      /\ batch' # {} => osPos' \in batch' /\ \A n \in batch' : n <= osPos'
  BY RealQueryMeans
<1>3. Rest \in SUBSET Listing /\ Rest \in SUBSET Names /\ osPos \in Nat
  BY RestIsNames
<1>4. osPos' \in Nat
  BY <1>2, <1>3, RealQueryMeans, NamesAreNumbers
<1>5. batch = {}
  BY DEF RealQuery, CallInv
<1>6. ASSUME NEW n \in Names \ Foreign PROVE OnceOf(n)'
  <2>1. OnceOf(n) /\ n \in Nat
    BY NamesAreNumbers DEF OnceInv
  <2>2. CASE n \in batch'
    <3>1. n > osPos /\ n \in Listing /\ n <= osPos'
      BY <1>2, <1>3, <2>2 DEF Rest
    <3>2. onlyOverlay \/ n \in real
      BY <3>1 DEF Listing
    <3>3. seen[n] = 0
      BY <1>3, <2>1, <3>1, <3>2 DEF OnceOf
    <3>4. QED
      BY <1>1, <2>1, <3>1, <3>2, <3>3 DEF OnceOf
  <2>3. CASE n \notin batch'
    <3>1. n <= osPos => n <= osPos'
      BY <1>2, <1>3, <1>4, <2>1
    <3>2. QED
      BY <1>1, <2>1, <2>3, <3>1 DEF OnceOf
  <2>4. QED
    BY <2>2, <2>3
<1>7. QED
  BY <1>1, <1>6 DEF OnceInv

LEMMA OnceFilter ==
  ASSUME OnceInv, ApplyEnumerationFilter
  PROVE  OnceInv'
<1>1. UNCHANGED <<disk, table, os, seen>> /\ batch' \subseteq batch
  BY DEF ApplyEnumerationFilter, FilterDirectoryInformation
<1>2. QED
  BY <1>1 DEF OnceInv, OnceOf

\* The tail takes over where the snapshot begins: none of its names was handed
\* out before, and none of them will come from the OS.
LEMMA OnceTail ==
  ASSUME ScanInv, OnceInv, pc \in {"insert", "append"}, NEW n \in Names \ Foreign
  PROVE  /\ Tail0.Started /\ Tail0.Cursor \in Nat
         /\ n \in Tail0.Snapshot => n \notin real /\ ~onlyOverlay
         /\ ~onlyOverlay /\ n \notin real /\ seen[n] # 0 =>
              n \in Tail0.Snapshot /\ n <= Tail0.Cursor
         /\ ~onlyOverlay /\ n \notin real /\ n \in batch =>
              n \in Tail0.Snapshot /\ n <= Tail0.Cursor
<1>. USE DEF ScanInv
<1>1. /\ Kept(Tail0) /\ Tail0.Started
      /\ ~query.restart /\ overlay.Started => Tail0 = overlay
      /\ query.restart \/ ~overlay.Started =>
           Tail0.Cursor = 0 /\ Tail0.Snapshot = IF onlyOverlay THEN {} ELSE back \ real
  BY TailRecord
<1>2. OnceOf(n) /\ (onlyOverlay => overlay.Snapshot = {}) /\ n \in Nat
  BY NamesAreNumbers DEF OnceInv
<1>3. Tail0.Cursor \in Nat
  BY <1>1, KeptIsTyped
<1>4. CASE ~query.restart /\ overlay.Started
  BY <1>1, <1>2, <1>3, <1>4 DEF OnceOf
<1>5. CASE query.restart
  <2>1. seen[n] = 0
    BY <1>5 DEF CallInv, NothingSeen
  <2>2. ~onlyOverlay => batch \subseteq real
    BY DEF CallInv
  <2>3. QED
    BY <1>1, <1>3, <1>5, <2>1, <2>2
<1>6. CASE ~query.restart /\ ~overlay.Started
  BY <1>1, <1>2, <1>3, <1>6 DEF OnceOf
<1>7. QED
  BY <1>4, <1>5, <1>6

LEMMA OnceWritten ==
  ASSUME ScanInv, OnceInv, pc \in {"insert", "append"}, UNCHANGED <<disk, os, seen>>,
         TailWritten(Tail0, overlay', batch'), NEW n \in Names \ Foreign
  PROVE  OnceOf(n)'
<1>1. /\ Tail0.Started /\ Tail0.Cursor \in Nat
      /\ n \in Tail0.Snapshot => n \notin real /\ ~onlyOverlay
      /\ ~onlyOverlay /\ n \notin real /\ seen[n] # 0 =>
           n \in Tail0.Snapshot /\ n <= Tail0.Cursor
  BY OnceTail
<1>2. OnceOf(n) /\ n \in Nat
  BY NamesAreNumbers DEF OnceInv
<1>3. Kept(Tail0) /\ Kept(overlay')
  BY TailRecord DEF TailWritten
<1>4. overlay'.Cursor \in Nat
  BY <1>3, KeptIsTyped
<1>5. n \in batch' => n \in Tail0.Snapshot /\ n > Tail0.Cursor /\ n <= overlay'.Cursor
  BY <1>3, PendingIsLeft DEF TailWritten
<1>6. n \in batch' => seen[n] = 0
  BY <1>1, <1>2, <1>5
<1>7. /\ overlay'.Started /\ overlay'.Snapshot = Tail0.Snapshot
      /\ Tail0.Cursor <= overlay'.Cursor
  BY DEF TailWritten
<1>8. n <= Tail0.Cursor => n <= overlay'.Cursor
  BY <1>1, <1>2, <1>4, <1>7
<1>9. QED
  BY <1>1, <1>2, <1>5, <1>6, <1>7, <1>8 DEF OnceOf

LEMMA OnceSnapshot ==
  ASSUME ScanInv, OnceInv, pc \in {"insert", "append"}
  PROVE  onlyOverlay => Tail0.Snapshot = {}
<1>1. /\ ~query.restart /\ overlay.Started => Tail0 = overlay
      /\ query.restart \/ ~overlay.Started =>
           Tail0.Snapshot = IF onlyOverlay THEN {} ELSE back \ real
  BY TailRecord
<1>2. QED
  BY <1>1 DEF OnceInv

LEMMA OnceInsert ==
  ASSUME ScanInv, OnceInv, InsertOverlayEntries
  PROVE  OnceInv'
<1>1. pc = "insert" /\ UNCHANGED <<disk, os, seen>>
  BY DEF InsertOverlayEntries
<1>2. CASE onlyOverlay
  BY <1>1, <1>2 DEF InsertOverlayEntries, OnceInv, OnceOf
<1>3. CASE ~onlyOverlay /\ status = "nomore"
  <2>1. TailWritten(Tail0, overlay', batch')
    BY <1>3, InsertMeans
  <2>2. \A n \in Names \ Foreign : OnceOf(n)'
    BY <1>1, <2>1, OnceWritten
  <2>3. QED
    BY <1>1, <1>3, <2>2 DEF OnceInv
<1>4. CASE ~onlyOverlay /\ status # "nomore"
  <2>1. overlay' = Tail0 /\ batch' = batch
    BY <1>4 DEF InsertOverlayEntries, Tail0
  <2>2. ASSUME NEW n \in Names \ Foreign PROVE OnceOf(n)'
    BY <1>1, <1>4, <2>1, OnceTail DEF OnceInv, OnceOf
  <2>3. QED
    BY <1>1, <1>4, <2>2 DEF OnceInv
<1>5. QED
  BY <1>2, <1>3, <1>4

LEMMA OnceAppend ==
  ASSUME ScanInv, OnceInv, TryAppendOverlayFindDataW
  PROVE  OnceInv'
<1>1. pc = "append" /\ UNCHANGED <<disk, os, seen>>
  BY DEF TryAppendOverlayFindDataW
<1>2. batch = {}
  BY <1>1 DEF ScanInv, CallInv
<1>3. PICK found \in SUBSET Pending(Tail0) :
        /\ TailWritten(Tail0, overlay', found)
        /\ found = {} => UNCHANGED <<batch, status>>
        /\ found # {} => batch' = found
  BY AppendMeans
<1>4. batch' = found
  BY <1>2, <1>3
<1>5. TailWritten(Tail0, overlay', batch')
  BY <1>3, <1>4
<1>6. \A n \in Names \ Foreign : OnceOf(n)'
  BY <1>1, <1>5, OnceWritten
<1>7. onlyOverlay => Tail0.Snapshot = {}
  BY <1>1, OnceSnapshot
<1>8. QED
  BY <1>1, <1>5, <1>6, <1>7 DEF OnceInv, TailWritten

LEMMA OnceSynth ==
  ASSUME ScanInv, OnceInv, TrySynthesizeOverlayFindFirstW
  PROVE  OnceInv'
<1>1. UNCHANGED <<disk, seen>> /\ batch = {} /\ NothingSeen
  BY SynthMeans
<1>2. \/ UNCHANGED overlay
      \/ overlay' = NewOverlay
  BY SynthMeans
<1>3. \/ batch' = {}
      \/ /\ ~onlyOverlay /\ batch' = {osPos'} /\ osPos' \in real
  BY <1>1, SynthMeans
<1>4. ASSUME NEW n \in Names \ Foreign PROVE OnceOf(n)'
  <2>1. seen'[n] = 0 /\ n \in Nat
    BY <1>1, NamesAreNumbers DEF NothingSeen
  <2>2. overlay'.Started /\ n \in overlay'.Snapshot => n \notin real'
    BY <1>1, <1>2 DEF OnceInv, OnceOf, NewOverlay
  <2>3. n \in batch' => n \in real' /\ n <= osPos' /\ ~onlyOverlay'
    BY <1>1, <1>3, <2>1
  <2>4. QED
    BY <2>1, <2>2, <2>3 DEF OnceOf
<1>5. onlyOverlay' => overlay'.Snapshot = {}
  BY <1>1, <1>2 DEF OnceInv, NewOverlay
<1>6. QED
  BY <1>4, <1>5 DEF OnceInv

LEMMA OnceReturns ==
  ASSUME ScanInv, OnceInv, QueryReturns \/ FindFirstReturns
  PROVE  OnceInv'
<1>1. Delivered
  BY DEF QueryReturns, FindFirstReturns
<1>2. /\ UNCHANGED <<disk, os>> /\ batch' = {}
      /\ \A n \in Names :
           /\ n \notin batch => seen'[n] = seen[n]
           /\ n \in batch /\ seen[n] = 0 => seen'[n] = 1
  BY <1>1, DeliveredMeans
<1>3. \/ overlay'.Started = overlay.Started /\ overlay'.Snapshot = overlay.Snapshot
         /\ overlay'.Cursor = overlay.Cursor
      \/ NothingSeen /\ status = "success" /\ overlay' = NewOverlay /\ overlay = NoOverlay
      \/ NothingSeen /\ status # "success" /\ overlay' = NoOverlay
  BY TypesReturn, FirstReturnMeans
<1>4. ASSUME NEW n \in Names \ Foreign PROVE OnceOf(n)'
  <2>1. OnceOf(n)
    BY DEF OnceInv
  <2>2. /\ seen'[n] <= 1 /\ n \notin batch'
        /\ seen'[n] # 0 => n \in batch \/ seen[n] # 0
    BY <1>2, <2>1 DEF OnceOf
  <2>3. CASE overlay'.Started = overlay.Started /\ overlay'.Snapshot = overlay.Snapshot
             /\ overlay'.Cursor = overlay.Cursor
    BY <1>2, <2>1, <2>2, <2>3 DEF OnceOf
  <2>4. CASE NothingSeen /\ status = "success" /\ overlay' = NewOverlay /\ overlay = NoOverlay
    BY <1>2, <2>1, <2>2, <2>4 DEF OnceOf, NothingSeen, NewOverlay, NoOverlay
  <2>5. CASE NothingSeen /\ status # "success" /\ overlay' = NoOverlay
    <3>1. batch = {}
      BY <2>5 DEF ScanInv, CallInv
    <3>2. seen'[n] = 0
      BY <2>2, <2>5, <3>1 DEF NothingSeen
    <3>3. QED
      BY <2>2, <2>5, <3>2 DEF OnceOf, NoOverlay
  <2>6. QED
    BY <1>3, <2>3, <2>4, <2>5
<1>5. onlyOverlay' => overlay'.Snapshot = {}
  BY <1>2, <1>3 DEF OnceInv, NewOverlay, NoOverlay
<1>6. QED
  BY <1>4, <1>5 DEF OnceInv

LEMMA OnceMeanwhile ==
  ASSUME OnceInv,
         \/ UNCHANGED vars
         \/ \E n \in Names : OverlayWrite(n) \/ OverlayDelete(n) \/ ForeignCreate(n)
  PROVE  OnceInv'
<1>1. /\ UNCHANGED <<onlyOverlay, overlay, osPos, batch, seen>>
      /\ \A n \in Names \ Foreign : n \in real' <=> n \in real
  BY DEF vars, OverlayWrite, OverlayDelete, ForeignCreate
<1>2. QED
  BY <1>1 DEF OnceInv, OnceOf

LEMMA OnceInductive == ScanInv /\ OnceInv /\ [Next]_vars => OnceInv'
<1>. SUFFICES ASSUME ScanInv, OnceInv, [Next]_vars PROVE OnceInv'
  OBVIOUS
<1>1. CASE RegisterHandleOverlay \/ CloseHandle \/ CloseHandleOverlay \/ RealClose
  BY <1>1, OnceHandles
<1>2. ASSUME NEW length \in Lengths, NEW restart \in BOOLEAN,
             \/ \E single \in BOOLEAN : NtQueryDirectoryFile(length, single, restart)
             \/ GetFileInformationByHandleEx(length, restart)
      PROVE  OnceInv'
  <2>1. \E single \in BOOLEAN : Query(length, single, restart)
    BY <1>2 DEF NtQueryDirectoryFile, GetFileInformationByHandleEx
  <2>2. QED
    BY <2>1, OnceCalls
<1>3. CASE FindFirstFileExW \/ FindNextFileW
  BY <1>3, OnceCalls
<1>4. CASE HookStep
  BY <1>4, OnceRealQuery, OnceFilter, OnceInsert, OnceSynth, OnceAppend, OnceReturns
     DEF HookStep
<1>5. CASE \/ UNCHANGED vars
           \/ \E n \in Names : OverlayWrite(n) \/ OverlayDelete(n) \/ ForeignCreate(n)
  BY <1>5, OnceMeanwhile
<1>6. QED
  BY <1>1, <1>2, <1>3, <1>4, <1>5 DEF Next

\* However the buffers are cut, the scan is restarted, the handle is closed and its
\* value given out again, and the processes of the action create and delete files
\* meanwhile: the OS and the tail between them hand a name out once
\* (overlay_engine.cpp:1455-1506).
THEOREM NoNameTwice == Spec => []ListedAtMostOnce
<1>1. Init => OnceInv
  BY DEF Init, OnceInv, OnceOf, NoOverlay
<1>2. OnceInv => ListedAtMostOnce
  BY DEF OnceInv, OnceOf, ListedAtMostOnce
<1>3. QED
  BY <1>1, <1>2, OnceInductive, ScanStartsTyped, TypesInductive, PTL DEF Spec

-----------------------------------------------------------------------------
(* Every name comes                                                        *)

\* The snapshot of this scan is in the record: a restart that has not reached
\* InsertOverlayEntries still finds the one of the scan before.
Spliced == /\ handle = "open" /\ overlay.Started
           /\ ~(query.restart /\ pc \in {"os", "filter", "insert"})

\* What the caller has, or is about to get from the buffer that is being filled.
Got(n) == \/ seen[n] # 0
          \/ n \in batch /\ (pc = "filter" => IsEnumChildVisible(n))

Due(n) == n \in Wildcard /\ InMergedView(n)

\* A name nobody touched in this scan: the OS brings it or the tail does, and it is
\* with the caller exactly if its lister has passed it and it belongs there.
SteadyOf(n) ==
    /\ seen[n] <= 1
    /\ n \in batch => seen[n] = 0
    /\ n \in Listing /\ (n \in batch \/ seen[n] # 0) => n <= osPos
    /\ Spliced => (n \in overlay.Snapshot <=> n \in back /\ n \notin Listing)
    /\ n \notin Listing => (Got(n) <=> /\ Spliced /\ n \in overlay.Snapshot
                                       /\ n \in Wildcard /\ n <= overlay.Cursor)
    /\ ReopenedClean /\ n \in Listing => (Got(n) <=> n <= osPos /\ Due(n))

\* The OS has passed every name it should bring.
OSDone == \A n \in steady : n \in Listing /\ n \in Wildcard => n <= osPos

ScanFlags ==
    /\ ~query.raw /\ ~overlay.EnumerationHasBeenReported
    /\ pc = "filter" => FilterInputs
    /\ status # "overflow"
    /\ ReopenedClean /\ osAll => osPos = MaxName

ExactInv ==
    /\ ScanFlags
    /\ \A n \in steady : SteadyOf(n)
    /\ status = "nomore" /\ pc # "return" /\ ReopenedClean => OSDone
    /\ (pc = "return" /\ status = "nomore") \/ (pc = "idle" /\ done) =>
         (ReopenedClean => \A n \in steady : Due(n) => seen[n] # 0)

LEMMA SteadyNames ==
  ASSUME TypeOK, NEW n \in steady
  PROVE  n \in Names /\ n \in Nat /\ n # 0 /\ n <= MaxName /\ seen[n] \in Nat
<1>1. n \in Names /\ seen[n] \in 0 .. 2
  BY DEF TypeOK
<1>2. QED
  BY <1>1, Bound DEF Names

\* A scan that starts: nothing is due yet.
LEMMA FreshSteady ==
  ASSUME TypeOK', NothingSeen', batch' = {}, ~Spliced', osPos' = 0, NEW n \in steady'
  PROVE  SteadyOf(n)'
<1>1. n \in Names /\ n \in Nat /\ n # 0
  BY Bound DEF TypeOK, Names
<1>2. ~Got(n)'
  BY <1>1 DEF Got, NothingSeen
<1>3. seen'[n] = 0
  BY <1>1 DEF NothingSeen
<1>4. QED
  BY <1>1, <1>2, <1>3 DEF SteadyOf

LEMMA ExactHandles ==
  ASSUME ScanInv, ScanInv', ExactInv,
         RegisterHandleOverlay \/ CloseHandle \/ CloseHandleOverlay \/ RealClose
  PROVE  ExactInv'
<1>. USE DEF ScanInv
<1>1. pc = "idle" /\ pc' = "idle" /\ UNCHANGED <<disk, call>>
  BY DEF TableInv, RegisterHandleOverlay, CloseHandle, CloseHandleOverlay, RealClose
<1>2. batch' = {} /\ status' = "success" /\ query' = NoQuery /\ ~query'.restart /\ ~query'.raw
  BY <1>1, QueryTypes DEF CallInv, NoQuery
<1>3. ~overlay'.EnumerationHasBeenReported
  BY DEF ExactInv, ScanFlags, RegisterHandleOverlay, CloseHandle, CloseHandleOverlay, RealClose,
         NewOverlay, NoOverlay
<1>4. CASE RegisterHandleOverlay \/ CloseHandle
  <2>1. ScanStarts /\ osPos' = 0 /\ osAll' = FALSE
    BY <1>4 DEF RegisterHandleOverlay, CloseHandle
  <2>2. ~Spliced'
    BY <1>4 DEF RegisterHandleOverlay, CloseHandle, Spliced, NewOverlay
  <2>3. NothingSeen' /\ ~done'
    BY <2>1, ScanStartsClean
  <2>4. \A n \in steady' : SteadyOf(n)'
    BY <1>2, <2>1, <2>2, <2>3, FreshSteady
  <2>5. QED
    BY <1>1, <1>2, <1>3, <2>1, <2>3, <2>4 DEF ExactInv, ScanFlags
<1>5. CASE CloseHandleOverlay \/ RealClose
  <2>1. UNCHANGED <<os, caller, disk, call>> /\ handle # "open" /\ handle' # "open"
    BY <1>1, <1>5 DEF CloseHandleOverlay, RealClose, TableInv
  <2>2. ~Spliced /\ ~Spliced'
    BY <2>1 DEF Spliced
  <2>3. ASSUME NEW n \in steady' PROVE SteadyOf(n)'
    <3>1. SteadyOf(n)
      BY <2>1 DEF ExactInv
    <3>2. QED
      BY <2>1, <2>2, <3>1
         DEF SteadyOf, Got, Due, InMergedView, Hidden, IsEnumChildVisible, Listing, Wildcard,
             ReopenedClean
  <2>4. ScanFlags'
    BY <1>2, <1>3, <1>1, <2>1 DEF ExactInv, ScanFlags, ReopenedClean, Wildcard
  <2>5. QED
    BY <1>1, <1>2, <2>1, <2>3, <2>4
       DEF ExactInv, ReopenedClean, Wildcard, Due, InMergedView, Hidden
<1>6. QED
  BY <1>4, <1>5

LEMMA ExactCalls ==
  ASSUME ScanInv, ScanInv', ExactInv,
         \/ FindFirstFileExW
         \/ FindNextFileW
         \/ \E length \in Lengths, single \in BOOLEAN, restart \in BOOLEAN :
              api # "find" /\ Query(length, single, restart)
  PROVE  ExactInv'
<1>. USE DEF ScanInv
<1>1. /\ pc = "idle" /\ pc' = "os" /\ UNCHANGED <<disk, overlay, batch, status>>
      /\ batch = {} /\ status = "success" /\ query = NoQuery
  BY DEF FindFirstFileExW, FindNextFileW, Query, CallInv, TableInv
<1>2. ~overlay'.EnumerationHasBeenReported
  BY <1>1 DEF ExactInv, ScanFlags
<1>3. handle = "open" => overlay # NoOverlay
  BY <1>1, Bound DEF TableInv, NoOverlay
<1>4. ~query'.raw
  BY <1>2, <1>3, <1>1, QueryTypes
     DEF FindFirstFileExW, FindNextFileW, Query, ExactInv, ScanFlags
<1>5. CASE ScanStarts /\ osPos' = 0 /\ ~osAll' /\ ~Spliced'
  <2>1. \A n \in steady' : SteadyOf(n)'
    BY <1>1, <1>5, ScanStartsClean, FreshSteady
  <2>2. QED
    BY <1>1, <1>2, <1>4, <1>5, <2>1 DEF ExactInv, ScanFlags
<1>6. CASE UNCHANGED <<os, caller, handle>> /\ ~query'.restart
  <2>1. Spliced' <=> Spliced
    BY <1>1, <1>6, QueryTypes DEF Spliced
  <2>2. ASSUME NEW n \in steady' PROVE SteadyOf(n)'
    <3>1. SteadyOf(n)
      BY <1>6 DEF ExactInv
    <3>2. QED
      BY <1>1, <1>6, <2>1, <3>1
         DEF SteadyOf, Got, Due, InMergedView, Hidden, IsEnumChildVisible, Listing, Wildcard,
             ReopenedClean
  <2>3. ScanFlags'
    BY <1>1, <1>2, <1>4, <1>6 DEF ExactInv, ScanFlags, ReopenedClean, Wildcard
  <2>4. QED
    BY <1>1, <2>2, <2>3 DEF ExactInv
<1>7. CASE FindFirstFileExW
  <2>1. overlay' = NoOverlay /\ ScanStarts /\ osPos' = 0 /\ ~osAll'
    BY <1>7 DEF FindFirstFileExW, TableInv
  <2>2. ~Spliced'
    BY <2>1 DEF Spliced, NoOverlay
  <2>3. QED
    BY <1>5, <2>1, <2>2
<1>8. CASE FindNextFileW
  BY <1>6, <1>8, QueryTypes DEF FindNextFileW
<1>9. ASSUME NEW length \in Lengths, NEW single \in BOOLEAN, NEW restart \in BOOLEAN,
             api # "find", Query(length, single, restart)
      PROVE  ExactInv'
  <2>1. query'.restart = restart /\ UNCHANGED <<table, osAll>>
    BY <1>9 DEF Query
  <2>2. CASE restart
    <3>1. ScanStarts /\ osPos' = 0 /\ ~osAll'
      BY <1>9, <2>2 DEF Query, CallInv
    <3>2. ~Spliced'
      BY <1>1, <2>1, <2>2 DEF Spliced
    <3>3. QED
      BY <1>5, <3>1, <3>2
  <2>3. CASE ~restart
    BY <1>6, <1>9, <2>1, <2>3 DEF Query
  <2>4. QED
    BY <2>2, <2>3
<1>10. QED
  BY <1>7, <1>8, <1>9

\* What the filter lets through of what the OS lists is what the merged view shows.
LEMMA FilterIsView ==
  ASSUME NEW n \in Listing
  PROVE  InMergedView(n) <=> ~FilterInputs \/ IsEnumChildVisible(n)
BY DEF InMergedView, Hidden, IsEnumChildVisible, Listing

LEMMA ExactRealQuery ==
  ASSUME AllFit, ScanInv, ScanInv', ExactInv, RealQuery
  PROVE  ExactInv'
<1>. USE DEF ScanInv
<1>1. /\ pc = "os" /\ handle = "open" /\ UNCHANGED <<disk, table, osAll, query, caller>>
      /\ batch = {} /\ status = "success"
  BY DEF RealQuery, TableInv, CallInv
<1>2. /\ batch' = Fitting(Rest, query) /\ batch' \in SUBSET Rest
      /\ \A n \in batch', m \in Rest \ batch' : n < m
      /\ batch' = {} => osPos' = osPos
      /\ batch' # {} => osPos' \in batch' /\ \A n \in batch' : n <= osPos'
      /\ osPos <= osPos'
      /\ status' = "nomore" <=> Rest = {}
      /\ status' = "success" <=> batch' # {}
      /\ status' \in {"success", "nomore", "overflow"}
  BY RealQueryMeans
<1>3. Rest \in SUBSET Names /\ Rest \in SUBSET Listing /\ osPos \in Nat
  BY RestIsNames
<1>4. batch' = {} => Rest = {}
  BY <1>1, <1>2, <1>3, FirstFits, QueryLength
<1>5. osPos' \in Nat
  BY <1>2, <1>3, NamesAreNumbers
<1>6. /\ ReopenedClean' <=> ReopenedClean
      /\ Listing' = Listing
  BY <1>1 DEF ReopenedClean, Wildcard, Listing
<1>7. \/ pc' = "filter" /\ FilterInputs
      \/ pc' # "filter" /\ ~FilterInputs
  BY <1>1, AfterFilterMeans DEF RealQuery, ExactInv, ScanFlags
<1>8. \/ pc' = "filter"
      \/ pc' = "return" /\ api = "find" /\ status' = "success"
      \/ pc' = "insert"
      \/ pc' \in {"synth", "append"} /\ api = "find"
  BY AfterFilterMeans DEF RealQuery, ExactInv, ScanFlags
<1>9. Spliced' <=> Spliced
  BY <1>1, <1>8 DEF Spliced, CallInv
<1>10. ASSUME NEW n \in steady' PROVE SteadyOf(n)'
  <2>1. SteadyOf(n) /\ n \in Names /\ n \in Nat /\ n # 0 /\ n <= MaxName
    BY <1>1, SteadyNames DEF ExactInv
  <2>2. n \in batch' <=> n \in Rest /\ n <= osPos'
    <3>1. CASE batch' = {}
      BY <1>4, <3>1
    <3>2. CASE batch' # {}
      BY <1>2, <1>5, <2>1, <3>2
    <3>3. QED
      BY <3>1, <3>2
  <2>3. n \in batch' => n \in Listing /\ n > osPos
    BY <1>2, <1>3 DEF Rest
  <2>4. n \in batch' => seen[n] = 0
    BY <1>3, <2>1, <2>3 DEF SteadyOf
  <2>5. n <= osPos => n <= osPos'
    BY <1>2, <1>3, <1>5, <2>1
  <2>6. n \in Listing /\ (n \in batch' \/ seen[n] # 0) => n <= osPos'
    BY <2>1, <2>2, <2>5 DEF SteadyOf
  <2>7. Spliced' => (n \in overlay'.Snapshot <=> n \in back' /\ n \notin Listing')
    BY <1>1, <1>6, <1>9, <2>1 DEF SteadyOf
  <2>8. n \notin Listing =>
          (Got(n)' <=> Spliced' /\ n \in overlay'.Snapshot /\ n \in Wildcard' /\ n <= overlay'.Cursor)
    <3>1. ASSUME n \notin Listing PROVE Got(n)' <=> Got(n)
      BY <1>1, <2>3, <3>1 DEF Got
    <3>2. QED
      BY <1>1, <1>9, <2>1, <3>1 DEF SteadyOf, Wildcard
  <2>9. ASSUME ReopenedClean, n \in Listing
        PROVE  Got(n)' <=> n <= osPos' /\ Due(n)
    <3>1. seen[n] # 0 <=> n <= osPos /\ Due(n)
      BY <1>1, <2>1, <2>9 DEF SteadyOf, Got
    <3>2. Got(n)' <=> seen[n] # 0 \/ (n \in batch' /\ InMergedView(n))
      BY <1>1, <1>7, <2>9, FilterIsView DEF Got, IsEnumChildVisible
    <3>3. CASE osAll
      <4>1. osPos = MaxName
        BY <2>9, <3>3 DEF ExactInv, ScanFlags
      <4>2. n <= osPos
        BY <2>1, <4>1
      <4>3. n \notin batch'
        BY <1>3, <2>1, <2>3, <4>2
      <4>4. n <= osPos'
        BY <2>5, <4>2
      <4>5. QED
        BY <3>1, <3>2, <4>2, <4>3, <4>4
    <3>4. CASE ~osAll
      <4>1. n \in Rest <=> n > osPos /\ n \in Wildcard
        BY <2>9, <3>4 DEF Rest
      <4>2. n > osPos <=> ~(n <= osPos)
        BY <1>3, <2>1
      <4>3. n \in batch' /\ InMergedView(n) <=> n > osPos /\ n <= osPos' /\ Due(n)
        BY <2>2, <4>1 DEF Due
      <4>4. QED
        BY <2>5, <3>1, <3>2, <4>2, <4>3
    <3>5. QED
      BY <3>3, <3>4
  <2>10. Due(n)' <=> Due(n)
    BY <1>1 DEF Due, InMergedView, Hidden, Wildcard
  <2>11. QED
    BY <1>1, <1>6, <2>1, <2>4, <2>6, <2>7, <2>8, <2>9, <2>10 DEF SteadyOf
<1>11. status' = "nomore" /\ ReopenedClean' => OSDone'
  <2>1. SUFFICES ASSUME status' = "nomore", ReopenedClean, NEW n \in steady,
                        n \in Listing, n \in Wildcard
                 PROVE  n <= osPos'
    BY <1>1, <1>6 DEF OSDone, Wildcard
  <2>2. n \in Nat /\ n \notin Rest
    BY <1>2, <2>1, SteadyNames
  <2>3. n <= osPos
    BY <1>3, <2>1, <2>2 DEF Rest
  <2>4. QED
    BY <1>2, <1>3, <1>5, <2>2, <2>3
<1>12. status' # "overflow"
  BY <1>2, <1>4
<1>13. ReopenedClean /\ osAll => osPos' = MaxName
  <2>1. SUFFICES ASSUME ReopenedClean, osAll PROVE osPos' = MaxName
    OBVIOUS
  <2>2. osPos = MaxName
    BY <2>1 DEF ExactInv, ScanFlags
  <2>3. batch' = {}
    <3>1. \A n \in Rest : n \in Nat /\ n <= MaxName /\ n > MaxName
      BY <1>3, <2>2, Bound DEF Rest, Names
    <3>2. QED
      BY <1>2, <3>1, Bound
  <2>4. QED
    BY <1>2, <2>2, <2>3
<1>14. ScanFlags'
  BY <1>1, <1>6, <1>7, <1>12, <1>13 DEF ExactInv, ScanFlags
<1>15. ~(pc' = "return" /\ status' = "nomore") /\ pc' # "idle"
  BY <1>8
<1>16. QED
  BY <1>10, <1>11, <1>14, <1>15 DEF ExactInv

LEMMA ExactFilter ==
  ASSUME ScanInv, ScanInv', ExactInv, ApplyEnumerationFilter
  PROVE  ExactInv'
<1>. USE DEF ScanInv
<1>1. /\ pc = "filter" /\ pc' # "filter" /\ handle = "open" /\ pc' # "idle"
      /\ UNCHANGED <<disk, table, os, query, status, caller>>
      /\ batch' = {n \in batch : IsEnumChildVisible(n)}
  BY AfterFilterMeans DEF ApplyEnumerationFilter, FilterDirectoryInformation, TableInv
<1>2. \/ pc' = "os" /\ status = "success"
      \/ pc' = "return" /\ api = "find" /\ status = "success"
      \/ pc' = "insert"
      \/ pc' \in {"synth", "append"} /\ api = "find"
  BY AfterFilterMeans DEF ApplyEnumerationFilter
<1>3. Spliced' <=> Spliced
  BY <1>1, <1>2 DEF Spliced, CallInv
<1>4. ASSUME NEW n \in steady' PROVE SteadyOf(n)'
  <2>1. SteadyOf(n)
    BY <1>1 DEF ExactInv
  <2>2. Got(n)' <=> Got(n)
    BY <1>1 DEF Got
  <2>3. /\ n \in batch' => n \in batch
        /\ Listing' = Listing /\ Wildcard' = Wildcard
        /\ ReopenedClean' <=> ReopenedClean
        /\ Due(n)' <=> Due(n)
    BY <1>1 DEF Listing, Wildcard, ReopenedClean, Due, InMergedView, Hidden
  <2>4. QED
    BY <1>1, <1>3, <2>1, <2>2, <2>3 DEF SteadyOf
<1>5. ScanFlags'
  BY <1>1 DEF ExactInv, ScanFlags, ReopenedClean, Wildcard
<1>6. ~(pc' = "return" /\ status' = "nomore") /\ pc' # "idle"
  BY <1>1, <1>2
<1>7. status' = "nomore" /\ ReopenedClean' => OSDone'
  BY <1>1 DEF ExactInv, OSDone, ReopenedClean, Wildcard, Listing
<1>8. QED
  BY <1>4, <1>5, <1>6, <1>7 DEF ExactInv

LEMMA ExactMeanwhile ==
  ASSUME ScanInv, ExactInv,
         \/ UNCHANGED vars
         \/ \E n \in Names : OverlayWrite(n) \/ OverlayDelete(n) \/ ForeignCreate(n)
  PROVE  ExactInv'
<1>1. /\ UNCHANGED <<api, onlyOverlay, table, os, call, seen, done>>
      /\ steady' \subseteq steady /\ real \subseteq real'
      /\ \A n \in steady' : (n \in real' <=> n \in real) /\ (n \in back' <=> n \in back)
  BY DEF vars, OverlayWrite, OverlayDelete, ForeignCreate
<1>2. /\ ReopenedClean' => ReopenedClean
      /\ Wildcard' = Wildcard
      /\ Spliced' <=> Spliced
  BY <1>1 DEF ReopenedClean, Wildcard, Spliced
<1>3. ASSUME NEW n \in steady'
      PROVE  /\ n \in Listing' <=> n \in Listing
             /\ Due(n)' <=> Due(n)
             /\ Got(n)' <=> Got(n)
  BY <1>1, <1>2 DEF Listing, Due, InMergedView, Hidden, Got, IsEnumChildVisible
<1>4. ASSUME NEW n \in steady' PROVE SteadyOf(n)'
  <2>1. SteadyOf(n)
    BY <1>1 DEF ExactInv
  <2>2. QED
    BY <1>1, <1>2, <1>3, <2>1 DEF SteadyOf
<1>5. ScanFlags'
  BY <1>1, <1>2 DEF ExactInv, ScanFlags
<1>6. OSDone => OSDone'
  BY <1>1, <1>2, <1>3 DEF OSDone
<1>7. QED
  BY <1>1, <1>2, <1>3, <1>4, <1>5, <1>6 DEF ExactInv

\* The tail starts where it should: the snapshot it is taken from is of this scan.
TailOf(n) ==
    /\ n \in Tail0.Snapshot <=> n \in back /\ n \notin Listing
    /\ n \notin Listing => (Got(n) <=> /\ n \in Tail0.Snapshot /\ n \in Wildcard
                                       /\ n <= Tail0.Cursor)

LEMMA ExactTail ==
  ASSUME ScanInv, OnceInv, ExactInv, pc \in {"insert", "append"}, NEW n \in steady
  PROVE  TailOf(n)
<1>. USE DEF ScanInv
<1>1. /\ ~query.restart /\ overlay.Started => Tail0 = overlay
      /\ query.restart \/ ~overlay.Started =>
           Tail0.Cursor = 0 /\ Tail0.Snapshot = IF onlyOverlay THEN {} ELSE back \ real
  BY TailRecord
<1>2. SteadyOf(n) /\ n \in Nat /\ n # 0 /\ handle = "open"
  BY SteadyNames DEF ExactInv, TableInv
<1>3. CASE ~query.restart /\ overlay.Started
  <2>1. Spliced
    BY <1>2, <1>3 DEF Spliced
  <2>2. QED
    BY <1>1, <1>2, <1>3, <2>1 DEF SteadyOf, TailOf
<1>4. CASE query.restart \/ ~overlay.Started
  <2>1. pc = "append" => ~query.restart
    BY DEF CallInv
  <2>2. ~Spliced
    BY <1>4, <2>1 DEF Spliced
  <2>3. ~(n <= Tail0.Cursor)
    BY <1>1, <1>2, <1>4
  <2>4. n \in Tail0.Snapshot <=> n \in back /\ n \notin Listing
    BY <1>1, <1>4 DEF Listing
  <2>5. QED
    BY <1>2, <2>2, <2>3, <2>4 DEF SteadyOf, TailOf
<1>5. QED
  BY <1>3, <1>4

\* The tail was written into an empty buffer.
LEMMA ExactWritten ==
  ASSUME ScanInv, OnceInv, ExactInv, pc \in {"insert", "append"}, pc' = "return",
         UNCHANGED <<disk, handle, os, query, caller>>, batch = {},
         TailWritten(Tail0, overlay', batch'), NEW n \in steady
  PROVE  /\ SteadyOf(n)'
         /\ Pending(Tail0) = {} /\ n \notin Listing /\ Due(n) => seen[n] # 0
<1>. USE DEF ScanInv
<1>1. /\ n \in Tail0.Snapshot <=> n \in back /\ n \notin Listing
      /\ n \notin Listing => (Got(n) <=> /\ n \in Tail0.Snapshot /\ n \in Wildcard
                                         /\ n <= Tail0.Cursor)
  BY ExactTail DEF TailOf
<1>2. SteadyOf(n) /\ n \in Nat /\ n # 0 /\ handle = "open"
  BY SteadyNames DEF ExactInv, TableInv
<1>3. Kept(Tail0) /\ Kept(overlay')
  BY TailRecord DEF TailWritten
<1>4. overlay'.Cursor \in Nat /\ Tail0.Cursor \in Nat
  BY <1>3, KeptIsTyped
<1>5. /\ overlay'.Started /\ overlay'.Snapshot = Tail0.Snapshot
      /\ Tail0.Cursor <= overlay'.Cursor
      /\ batch' \in SUBSET Pending(Tail0)
      /\ n \in batch' => n <= overlay'.Cursor
      /\ n \in Pending(Tail0) /\ n \notin batch' => overlay'.Cursor < n
  BY DEF TailWritten
<1>6. n \in Pending(Tail0) <=> n \in Tail0.Snapshot /\ n > Tail0.Cursor /\ n \in Wildcard
  BY <1>3, PendingIsLeft
<1>7. n \in batch' <=> n \in Pending(Tail0) /\ n <= overlay'.Cursor
  BY <1>2, <1>4, <1>5
<1>8. Got(n) <=> seen[n] # 0
  BY DEF Got
<1>9. n \in batch' => seen[n] = 0 /\ n \notin Listing
  BY <1>1, <1>2, <1>4, <1>6, <1>7, <1>8
<1>10. Spliced'
  BY <1>2, <1>5 DEF Spliced
<1>11. /\ Listing' = Listing /\ Wildcard' = Wildcard
       /\ ReopenedClean' <=> ReopenedClean
       /\ Due(n)' <=> Due(n)
  BY DEF Listing, Wildcard, ReopenedClean, Due, InMergedView, Hidden
<1>12. Got(n)' <=> seen[n] # 0 \/ n \in batch'
  BY DEF Got
<1>13. ASSUME n \notin Listing
       PROVE  Got(n)' <=> n \in Tail0.Snapshot /\ n \in Wildcard /\ n <= overlay'.Cursor
  BY <1>1, <1>2, <1>4, <1>5, <1>6, <1>7, <1>8, <1>12, <1>13
<1>14. ASSUME n \in Listing PROVE Got(n)' <=> Got(n)
  BY <1>8, <1>9, <1>12, <1>14
<1>15. SteadyOf(n)'
  BY <1>1, <1>2, <1>5, <1>9, <1>10, <1>11, <1>13, <1>14 DEF SteadyOf
<1>16. ASSUME Pending(Tail0) = {}, n \notin Listing, Due(n) PROVE seen[n] # 0
  <2>1. n \in back /\ n \in Wildcard
    BY <1>16 DEF Due, InMergedView, Listing, TypeOK
  <2>2. n <= Tail0.Cursor
    BY <1>1, <1>2, <1>4, <1>6, <1>16, <2>1
  <2>3. QED
    BY <1>1, <1>8, <1>16, <2>1, <2>2
<1>17. QED
  BY <1>15, <1>16

\* What is due of the OS's share, once the OS has passed everything.
LEMMA ListedDone ==
  ASSUME ExactInv, ScanInv, status = "nomore", pc # "return", ReopenedClean,
         NEW n \in steady, n \in Listing, Due(n)
  PROVE  seen[n] # 0
<1>1. n <= osPos
  BY DEF ExactInv, OSDone, Due
<1>2. Got(n)
  BY <1>1 DEF ExactInv, SteadyOf
<1>3. batch = {}
  BY DEF ScanInv, CallInv
<1>4. QED
  BY <1>2, <1>3 DEF Got

LEMMA ExactInsert ==
  ASSUME AllFit, ScanInv, ScanInv', OnceInv, ExactInv, InsertOverlayEntries
  PROVE  ExactInv'
<1>. USE DEF ScanInv
<1>1. /\ pc = "insert" /\ pc' = "return" /\ handle = "open" /\ api # "find" /\ ~osAll
      /\ UNCHANGED <<disk, handle, closing, os, query, caller>>
  BY DEF InsertOverlayEntries, TableInv, CallInv
<1>2. ReopenedClean /\ ReopenedClean'
  BY <1>1 DEF ReopenedClean
<1>3. /\ Listing' = Listing /\ Wildcard' = Wildcard
      /\ \A n \in steady : Due(n)' <=> Due(n)
  BY <1>1 DEF Listing, Wildcard, Due, InMergedView, Hidden
<1>4. CASE ~onlyOverlay /\ status = "nomore"
  <2>1. /\ TailWritten(Tail0, overlay', batch')
        /\ batch' = Fitting(Pending(Tail0), query)
        /\ status' = IF batch' # {} THEN "success" ELSE "nomore"
    BY <1>4, InsertMeans
  <2>2. batch = {}
    BY <1>4 DEF CallInv
  <2>3. \A n \in steady : /\ SteadyOf(n)'
                          /\ Pending(Tail0) = {} /\ n \notin Listing /\ Due(n) => seen[n] # 0
    BY <1>1, <2>1, <2>2, ExactWritten
  <2>4. batch' = {} => Pending(Tail0) = {}
    <3>1. Kept(Tail0)
      BY <1>1, TailRecord
    <3>2. Pending(Tail0) \in SUBSET Names
      BY <3>1, PendingIsLeft
    <3>3. QED
      BY <1>1, <2>1, <3>2, FirstFits, QueryLength
  <2>5. ASSUME status' = "nomore", NEW n \in steady, Due(n) PROVE seen[n] # 0
    <3>1. CASE n \in Listing
      BY <1>1, <1>2, <1>4, <2>5, <3>1, ListedDone
    <3>2. CASE n \notin Listing
      BY <2>1, <2>3, <2>4, <2>5, <3>2
    <3>3. QED
      BY <3>1, <3>2
  <2>6. ~overlay'.EnumerationHasBeenReported
    BY <1>1, <2>1, TailRecord DEF TailWritten, ExactInv, ScanFlags
  <2>7. ScanFlags'
    BY <1>1, <2>1, <2>6 DEF ExactInv, ScanFlags
  <2>8. QED
    BY <1>1, <1>3, <2>3, <2>5, <2>7 DEF ExactInv
<1>5. CASE ~onlyOverlay /\ status # "nomore"
  <2>1. overlay' = Tail0 /\ UNCHANGED <<batch, status>>
    BY <1>5 DEF InsertOverlayEntries, Tail0
  <2>2. ASSUME NEW n \in steady PROVE SteadyOf(n)'
    <3>1. SteadyOf(n) /\ TailOf(n)
      BY <1>1, ExactTail DEF ExactInv
    <3>2. Spliced' <=> overlay'.Started
      BY <1>1 DEF Spliced
    <3>3. overlay'.Started
      BY <1>1, <2>1, TailRecord
    <3>4. Got(n)' <=> Got(n)
      BY <1>1, <2>1 DEF Got
    <3>5. QED
      BY <1>1, <1>2, <1>3, <2>1, <3>1, <3>2, <3>3, <3>4 DEF SteadyOf, TailOf
  <2>3. ~overlay'.EnumerationHasBeenReported
    BY <1>1, <2>1, TailRecord DEF ExactInv, ScanFlags
  <2>4. QED
    BY <1>1, <1>5, <2>1, <2>2, <2>3 DEF ExactInv, ScanFlags
<1>6. CASE onlyOverlay
  <2>1. UNCHANGED <<overlay, batch, status>>
    BY <1>6 DEF InsertOverlayEntries
  <2>2. overlay.Snapshot = {} /\ Listing = back
    BY <1>6 DEF OnceInv, Listing
  <2>3. ASSUME NEW n \in steady PROVE SteadyOf(n)'
    <3>1. SteadyOf(n)
      BY DEF ExactInv
    <3>2. Got(n)' <=> Got(n)
      BY <1>1, <2>1 DEF Got
    <3>3. QED
      BY <1>1, <1>2, <1>3, <2>1, <2>2, <3>1, <3>2 DEF SteadyOf
  <2>4. ASSUME status = "nomore", NEW n \in steady, Due(n) PROVE seen[n] # 0
    <3>1. n \in Listing
      BY <1>6, <2>2, <2>4 DEF Due, InMergedView, TypeOK
    <3>2. QED
      BY <1>1, <1>2, <2>4, <3>1, ListedDone
  <2>5. QED
    BY <1>1, <1>3, <2>1, <2>3, <2>4 DEF ExactInv, ScanFlags
<1>7. QED
  BY <1>4, <1>5, <1>6

LEMMA ExactAppend ==
  ASSUME ScanInv, ScanInv', OnceInv, ExactInv, TryAppendOverlayFindDataW
  PROVE  ExactInv'
<1>. USE DEF ScanInv
<1>1. /\ pc = "append" /\ pc' = "return" /\ handle = "open" /\ batch = {}
      /\ status = "nomore"
      /\ UNCHANGED <<disk, handle, closing, os, query, caller>>
  BY DEF TryAppendOverlayFindDataW, TableInv, CallInv, TypeOK, ExactInv, ScanFlags
<1>2. PICK found \in SUBSET Pending(Tail0) :
        /\ TailWritten(Tail0, overlay', found)
        /\ found = {} <=> Pending(Tail0) = {}
        /\ found = {} => UNCHANGED <<batch, status>>
        /\ found # {} => batch' = found /\ status' = "success"
  BY AppendMeans
<1>3. TailWritten(Tail0, overlay', batch') /\ (status' = "nomore" => Pending(Tail0) = {})
      /\ status' \in {"success", "nomore"}
  <2>1. batch' = found
    BY <1>1, <1>2
  <2>2. QED
    BY <1>1, <1>2, <2>1
<1>4. \A n \in steady : /\ SteadyOf(n)'
                        /\ Pending(Tail0) = {} /\ n \notin Listing /\ Due(n) => seen[n] # 0
  BY <1>1, <1>3, ExactWritten
<1>5. /\ ReopenedClean' <=> ReopenedClean
      /\ \A n \in steady : Due(n)' <=> Due(n)
  BY <1>1 DEF ReopenedClean, Wildcard, Due, InMergedView, Hidden
<1>6. ASSUME status' = "nomore", ReopenedClean, NEW n \in steady, Due(n) PROVE seen[n] # 0
  <2>1. CASE n \in Listing
    BY <1>1, <1>6, <2>1, ListedDone
  <2>2. CASE n \notin Listing
    BY <1>3, <1>4, <1>6, <2>2
  <2>3. QED
    BY <2>1, <2>2
<1>7. ~overlay'.EnumerationHasBeenReported
  BY <1>1, <1>3, TailRecord DEF TailWritten, ExactInv, ScanFlags
<1>8. ScanFlags'
  BY <1>1, <1>3, <1>5, <1>7 DEF ExactInv, ScanFlags
<1>9. QED
  BY <1>1, <1>4, <1>5, <1>6, <1>8 DEF ExactInv

LEMMA ExactSynth ==
  ASSUME ScanInv, ScanInv', ExactInv, TrySynthesizeOverlayFindFirstW
  PROVE  ExactInv'
<1>. USE DEF ScanInv
<1>1. /\ UNCHANGED <<disk, handle, closing, query, caller>>
      /\ pc = "synth" /\ handle = "open" /\ query.first /\ ~osAll /\ api = "find"
      /\ batch = {} /\ status # "success" /\ NothingSeen /\ overlay = NoOverlay
  BY SynthMeans
<1>2. status = "nomore" /\ ReopenedClean
  BY <1>1 DEF ExactInv, ScanFlags, TypeOK, ReopenedClean
<1>3. /\ Listing' = Listing /\ Wildcard' = Wildcard
      /\ \A n \in steady : Due(n)' <=> Due(n)
  BY <1>1 DEF Listing, Wildcard, Due, InMergedView, Hidden
<1>4. ASSUME NEW n \in steady
      PROVE  /\ SteadyOf(n) /\ n \in Names /\ n \in Nat /\ ~Got(n) /\ seen[n] = 0
             /\ n \in Listing => ~Due(n)
  <2>1. SteadyOf(n) /\ n \in Names /\ n \in Nat
    BY SteadyNames DEF ExactInv
  <2>2. ~Got(n) /\ seen[n] = 0
    BY <1>1, <2>1 DEF Got, NothingSeen
  <2>3. n \in Listing => ~Due(n)
    BY <1>1, <1>2, <2>2, ListedDone
  <2>4. QED
    BY <2>1, <2>2, <2>3
<1>5. ~Spliced /\ (overlay' = NewOverlay \/ overlay' = NoOverlay => ~Spliced')
  BY <1>1 DEF Spliced, NoOverlay, NewOverlay
<1>6. CASE /\ pc' = "return" /\ UNCHANGED <<overlay, os, batch, status>>
           /\ onlyOverlay \/ Wildcard \cap (back \ real) = {}
  <2>1. ReopenedClean' <=> ReopenedClean
    BY <1>1, <1>6 DEF ReopenedClean, Wildcard
  <2>2. ASSUME NEW n \in steady PROVE SteadyOf(n)'
    <3>1. ~Got(n)'
      BY <1>1, <1>4, <1>6 DEF Got
    <3>2. QED
      BY <1>1, <1>3, <1>4, <1>5, <1>6, <2>1, <3>1 DEF SteadyOf
  <2>3. ASSUME NEW n \in steady PROVE ~Due(n)
    BY <1>4, <1>6 DEF Due, InMergedView, Listing, TypeOK
  <2>4. ScanFlags'
    BY <1>1, <1>6, <2>1 DEF ExactInv, ScanFlags
  <2>5. QED
    BY <1>1, <1>3, <1>6, <2>2, <2>3, <2>4 DEF ExactInv
<1>7. CASE /\ ~onlyOverlay /\ overlay' = NewOverlay /\ osAll' = TRUE
           /\ Wildcard \cap real = {} /\ pc' = "append" /\ osPos' = MaxName
           /\ UNCHANGED <<batch, status>>
  <2>1. ASSUME NEW n \in steady PROVE SteadyOf(n)' /\ n <= osPos'
    <3>1. ~Got(n)' /\ n <= MaxName
      BY <1>1, <1>4, <1>7, SteadyNames DEF Got
    <3>2. n \in Listing => ~Due(n)
      BY <1>4
    <3>3. QED
      BY <1>1, <1>3, <1>4, <1>5, <1>7, <3>1, <3>2 DEF SteadyOf
  <2>2. ScanFlags'
    BY <1>1, <1>2, <1>7 DEF ExactInv, ScanFlags, NewOverlay
  <2>3. OSDone'
    BY <1>1, <2>1 DEF OSDone
  <2>4. QED
    BY <1>1, <1>7, <2>1, <2>2, <2>3 DEF ExactInv
<1>8. CASE /\ ~onlyOverlay /\ overlay' = NewOverlay /\ osAll' = TRUE
           /\ pc' = "return" /\ status' = "success"
           /\ osPos' \in Wildcard \cap real /\ batch' = {osPos'}
  <2>1. ~ReopenedClean'
    BY <1>1, <1>8 DEF ReopenedClean, Wildcard
  <2>2. Listing = real
    BY <1>8 DEF Listing
  <2>3. ASSUME NEW n \in steady PROVE SteadyOf(n)'
    <3>1. seen'[n] = 0 /\ n \in Nat
      BY <1>1, <1>4
    <3>2. n \in batch' => n \in Listing /\ n <= osPos'
      BY <1>8, <2>2, <3>1
    <3>3. n \notin Listing => ~Got(n)'
      BY <3>1, <3>2 DEF Got
    <3>4. QED
      BY <1>3, <1>5, <1>8, <2>1, <3>1, <3>2, <3>3 DEF SteadyOf
  <2>4. ScanFlags'
    BY <1>1, <1>8, <2>1 DEF ExactInv, ScanFlags, NewOverlay
  <2>5. QED
    BY <1>1, <1>8, <2>3, <2>4 DEF ExactInv
<1>9. QED
  BY <1>6, <1>7, <1>8, SynthMeans

LEMMA ExactReturns ==
  ASSUME ~Trace, ScanInv, ScanInv', ExactInv, QueryReturns \/ FindFirstReturns
  PROVE  ExactInv'
<1>. USE DEF ScanInv
<1>1. Delivered
  BY DEF QueryReturns, FindFirstReturns
<1>2. /\ pc = "return" /\ pc' = "idle" /\ handle = "open"
      /\ UNCHANGED <<disk, os, closing, steady>>
      /\ query' = NoQuery /\ batch' = {} /\ status' = "success"
      /\ done' = (status = "nomore")
      /\ \A n \in Names :
           /\ n \notin batch => seen'[n] = seen[n]
           /\ n \in batch => seen'[n] # 0
           /\ n \in batch /\ seen[n] = 0 => seen'[n] = 1
  BY <1>1, DeliveredMeans
<1>3. \/ /\ UNCHANGED handle
         /\ overlay'.Started = overlay.Started /\ overlay'.Snapshot = overlay.Snapshot
         /\ overlay'.Cursor = overlay.Cursor
      \/ /\ UNCHANGED handle /\ NothingSeen /\ overlay' = NewOverlay /\ overlay = NoOverlay
      \/ /\ status # "success" /\ NothingSeen /\ overlay' = NoOverlay /\ handle' = "free"
  BY TypesReturn, FirstReturnMeans
<1>4. ~overlay'.EnumerationHasBeenReported
  BY TypesReturn, FirstReturnMeans DEF ExactInv, ScanFlags, NewOverlay, NoOverlay
<1>5. /\ ReopenedClean' <=> ReopenedClean
      /\ Listing' = Listing /\ Wildcard' = Wildcard
  BY <1>2 DEF ReopenedClean, Wildcard, Listing
<1>6. ASSUME NEW n \in steady
      PROVE  /\ SteadyOf(n) /\ n \in Names
             /\ seen'[n] <= 1 /\ n \notin batch'
             /\ Got(n)' <=> Got(n)
             /\ seen'[n] # 0 <=> Got(n)
             /\ Due(n)' <=> Due(n)
             /\ seen[n] # 0 => seen'[n] # 0
  <2>1. SteadyOf(n) /\ n \in Names
    BY SteadyNames DEF ExactInv
  <2>2. Got(n) <=> seen[n] # 0 \/ n \in batch
    BY <1>2 DEF Got
  <2>3. Got(n)' <=> seen'[n] # 0
    BY <1>2 DEF Got
  <2>4. seen'[n] # 0 <=> seen[n] # 0 \/ n \in batch
    BY <1>2, <2>1
  <2>5. seen'[n] <= 1
    BY <1>2, <2>1 DEF SteadyOf
  <2>6. Due(n)' <=> Due(n)
    BY <1>2 DEF Due, InMergedView, Hidden, Wildcard
  <2>7. QED
    BY <1>2, <2>1, <2>2, <2>3, <2>4, <2>5, <2>6
<1>7. ASSUME NEW n \in steady PROVE SteadyOf(n)'
  <2>1. Got(n) => seen[n] # 0 \/ n \in batch
    BY DEF Got
  <2>2. CASE UNCHANGED handle
             /\ overlay'.Started = overlay.Started /\ overlay'.Snapshot = overlay.Snapshot
             /\ overlay'.Cursor = overlay.Cursor
    <3>1. Spliced' <=> Spliced
      BY <1>2, <2>2, QueryTypes DEF Spliced
    <3>2. QED
      BY <1>2, <1>5, <1>6, <2>1, <2>2, <3>1 DEF SteadyOf
  <2>3. CASE UNCHANGED handle /\ NothingSeen /\ overlay' = NewOverlay /\ overlay = NoOverlay
    <3>1. ~Spliced' /\ ~Spliced
      BY <2>3 DEF Spliced, NewOverlay, NoOverlay
    <3>2. QED
      BY <1>2, <1>5, <1>6, <2>1, <3>1 DEF SteadyOf
  <2>4. CASE status # "success" /\ NothingSeen /\ overlay' = NoOverlay /\ handle' = "free"
    <3>1. ~Spliced'
      BY <2>4 DEF Spliced
    <3>2. batch = {}
      BY <2>4 DEF CallInv
    <3>3. ~Got(n)
      BY <1>6, <2>4, <3>2 DEF Got, NothingSeen
    <3>4. QED
      BY <1>2, <1>5, <1>6, <3>1, <3>3 DEF SteadyOf
  <2>5. QED
    BY <1>3, <2>2, <2>3, <2>4
<1>8. ScanFlags'
  BY <1>2, <1>4, <1>5, QueryTypes DEF ExactInv, ScanFlags, NoQuery
<1>9. ASSUME done', ReopenedClean, NEW n \in steady, Due(n) PROVE seen'[n] # 0
  <2>1. seen[n] # 0
    BY <1>2, <1>9 DEF ExactInv
  <2>2. QED
    BY <1>6, <2>1
<1>10. QED
  BY <1>2, <1>5, <1>6, <1>7, <1>8, <1>9 DEF ExactInv

\* A finished scan is the merged view, each of its names once, for every mix of
\* layers, policies, wildcards and sizes of buffers and whatever happened to other
\* names meanwhile: given that the caller's buffers hold any one record, and that no
\* trace makes the hook leave an enumeration alone (overlay_engine.cpp:1276-1506).
THEOREM ListingsAreExact == ASSUME ~Trace, AllFit PROVE Spec => []ListingExact
<1>1. Init => ExactInv
  <2>. SUFFICES ASSUME Init PROVE ExactInv
    OBVIOUS
  <2>1. ScanInv
    BY ScanStartsTyped
  <2>2. ASSUME NEW n \in steady PROVE SteadyOf(n)
    <3>1. n \in Names /\ n \in Nat /\ n # 0
      BY <2>1, SteadyNames DEF ScanInv
    <3>2. seen[n] = 0 /\ batch = {} /\ osPos = 0 /\ handle = "free"
      BY <3>1 DEF Init
    <3>3. ~Got(n) /\ ~Spliced
      BY <3>2 DEF Got, Spliced
    <3>4. QED
      BY <3>1, <3>2, <3>3 DEF SteadyOf
  <2>3. ScanFlags
    BY DEF Init, ScanFlags, NoQuery, NoOverlay
  <2>4. QED
    BY <2>2, <2>3 DEF Init, ExactInv
<1>2. ScanInv /\ ScanInv' /\ OnceInv /\ ExactInv /\ [Next]_vars => ExactInv'
  <2>. SUFFICES ASSUME ScanInv, ScanInv', OnceInv, ExactInv, [Next]_vars PROVE ExactInv'
    OBVIOUS
  <2>1. CASE RegisterHandleOverlay \/ CloseHandle \/ CloseHandleOverlay \/ RealClose
    BY <2>1, ExactHandles
  <2>2. ASSUME NEW length \in Lengths, NEW restart \in BOOLEAN,
               \/ \E single \in BOOLEAN : NtQueryDirectoryFile(length, single, restart)
               \/ GetFileInformationByHandleEx(length, restart)
        PROVE  ExactInv'
    <3>1. \E single \in BOOLEAN : api # "find" /\ Query(length, single, restart)
      BY <2>2 DEF NtQueryDirectoryFile, GetFileInformationByHandleEx
    <3>2. QED
      BY <3>1, ExactCalls
  <2>3. CASE FindFirstFileExW \/ FindNextFileW
    BY <2>3, ExactCalls
  <2>4. CASE HookStep
    BY <2>4, ExactRealQuery, ExactFilter, ExactInsert, ExactSynth, ExactAppend, ExactReturns
       DEF HookStep
  <2>5. CASE \/ UNCHANGED vars
             \/ \E n \in Names : OverlayWrite(n) \/ OverlayDelete(n) \/ ForeignCreate(n)
    BY <2>5, ExactMeanwhile
  <2>6. QED
    BY <2>1, <2>2, <2>3, <2>4, <2>5 DEF Next
<1>3. ScanInv /\ ExactInv => ListingExact
  <2>. SUFFICES ASSUME ScanInv, ExactInv, pc = "idle", done, ReopenedClean, NEW n \in steady
                PROVE  seen[n] = IF n \in Wildcard /\ InMergedView(n) THEN 1 ELSE 0
    BY DEF ListingExact
  <2>1. SteadyOf(n) /\ seen[n] \in Nat /\ batch = {} /\ n \in Names
    BY SteadyNames DEF ExactInv, ScanInv, CallInv
  <2>2. CASE Due(n)
    <3>1. seen[n] # 0 /\ seen[n] <= 1
      BY <2>1, <2>2 DEF ExactInv, SteadyOf
    <3>2. QED
      BY <2>1, <2>2, <3>1 DEF Due
  <2>3. CASE ~Due(n)
    <3>1. ASSUME n \notin Listing PROVE ~Got(n)
      <4>1. SUFFICES ASSUME Got(n) PROVE FALSE
        OBVIOUS
      <4>2. Spliced /\ n \in overlay.Snapshot /\ n \in Wildcard
        BY <2>1, <3>1, <4>1 DEF SteadyOf
      <4>3. n \in back
        BY <2>1, <4>2 DEF SteadyOf
      <4>4. QED
        BY <2>3, <4>2, <4>3 DEF Due, InMergedView
    <3>2. n \in Listing => ~Got(n)
      BY <2>1, <2>3 DEF SteadyOf
    <3>3. seen[n] = 0
      BY <3>1, <3>2 DEF Got
    <3>4. QED
      BY <2>3, <3>3 DEF Due
  <2>4. QED
    BY <2>2, <2>3
<1>4. Init => OnceInv
  BY DEF Init, OnceInv, OnceOf, NoOverlay
<1>5. QED
  BY <1>1, <1>2, <1>3, <1>4, OnceInductive, ScanStartsTyped, TypesInductive, PTL DEF Spec
=============================================================================

------------------------- MODULE OverlayTreeProofs -------------------------
(***************************************************************************)
(* Directories and names of the write overlay, for any set of paths, any   *)
(* manifest and any number of processes: both trees stay trees, absolute   *)
(* and relative names agree, children start where they were asked to, and  *)
(* the real tree changes at declared outputs only.                         *)
(***************************************************************************)
EXTENDS OverlayTree, WellFoundedInduction, SequenceTheorems, TLAPS

-----------------------------------------------------------------------------
(* Paths                                                                   *)

\* A set of numbers that has a member has a least one.
LEMMA LeastOf ==
  ASSUME NEW T \in SUBSET Nat, T # {}
  PROVE  \E n \in T : \A m \in T : n <= m
<1>1. PICK n \in T : \A m \in T : ~(<<m, n>> \in OpToRel(<, Nat))
  BY WFMin, NatLessThanWellFounded
<1>2. \A m \in T : ~(m < n)
  BY <1>1 DEF OpToRel
<1>3. QED
  BY <1>2

\* A piece of a sequence, by its length and its members.
LEMMA PieceMeans ==
  ASSUME NEW p \in Seq(STRING), NEW m \in 1..(Len(p) + 1), NEW n \in (m - 1)..Len(p)
  PROVE  /\ SubSeq(p, m, n) \in Seq(STRING)
         /\ Len(SubSeq(p, m, n)) = n - m + 1
         /\ \A i \in 1..(n - m + 1) : SubSeq(p, m, n)[i] = p[m + i - 1]
<1>1. \A i \in m..n : p[i] \in STRING
  OBVIOUS
<1>2. m \in Int /\ n \in Int
  OBVIOUS
<1>3. QED
  BY <1>1, <1>2, SubSeqProperties

\* Two sequences one after the other.
LEMMA JoinMeans ==
  ASSUME NEW p \in Seq(STRING), NEW q \in Seq(STRING)
  PROVE  /\ p \o q \in Seq(STRING)
         /\ Len(p \o q) = Len(p) + Len(q)
         /\ \A i \in 1..Len(p) : (p \o q)[i] = p[i]
         /\ \A i \in 1..Len(q) : (p \o q)[Len(p) + i] = q[i]
<1>1. p \o q \in Seq(STRING) /\ Len(p \o q) = Len(p) + Len(q)
  OBVIOUS
<1>2. \A i \in 1..Len(p) : (p \o q)[i] = p[i]
  OBVIOUS
<1>3. ASSUME NEW i \in 1..Len(q)
      PROVE  (p \o q)[Len(p) + i] = q[i]
  <2>1. Len(p) + i \in 1..(Len(p) + Len(q)) /\ ~(Len(p) + i <= Len(p))
        /\ Len(p) + i - Len(p) = i
    OBVIOUS
  <2>2. QED
    BY <2>1
<1>4. QED
  BY <1>1, <1>2, <1>3

\* Sequences of one length with the same members are the same.
LEMMA SameSequence ==
  ASSUME NEW p \in Seq(STRING), NEW q \in Seq(STRING), Len(p) = Len(q),
         \A i \in 1..Len(p) : p[i] = q[i]
  PROVE  p = q
OBVIOUS

\* What lies above a path, by lengths and initial segments.
LEMMA AboveMeans ==
  ASSUME NEW p \in Paths, NEW q \in Paths
  PROVE  /\ p \in Seq(STRING) /\ q \in Seq(STRING)
         /\ Len(p) \in Nat /\ Len(q) \in Nat
         /\ q \in Above[p] <=>
              Len(q) < Len(p) /\ \A i \in 1..Len(q) : q[i] = p[i]
<1>1. p \in Seq(STRING) /\ q \in Seq(STRING) /\ Len(p) \in Nat /\ Len(q) \in Nat
  BY PathsAssumption
<1>2. q \in Above[p] <=> Len(q) <= Len(p) /\ SubSeq(q, 1, Len(q)) = SubSeq(p, 1, Len(q))
                          /\ q # p
  BY DEF Above, IsStrictPrefix, IsPrefix
<1>3. SubSeq(q, 1, Len(q)) = q
  BY <1>1
<1>4. ASSUME Len(q) <= Len(p)
      PROVE  /\ q = SubSeq(p, 1, Len(q)) <=> \A i \in 1..Len(q) : q[i] = p[i]
  <2>1. SubSeq(p, 1, Len(q)) \in Seq(STRING) /\ Len(SubSeq(p, 1, Len(q))) = Len(q)
        /\ \A i \in 1..Len(q) : SubSeq(p, 1, Len(q))[i] = p[i]
    BY <1>1, <1>4
  <2>2. QED
    BY <1>1, <2>1
<1>5. ASSUME Len(q) = Len(p), \A i \in 1..Len(q) : q[i] = p[i]
      PROVE  q = p
  BY <1>1, <1>5
<1>6. QED
  BY <1>1, <1>2, <1>3, <1>4, <1>5

LEMMA AboveIsPath ==
  ASSUME NEW p \in Paths, NEW q \in Above[p]
  PROVE  q \in Paths
BY DEF Above

\* The parent of a path is its last ancestor.
LEMMA ParentAbove ==
  ASSUME NEW p \in Paths
  PROVE  /\ Parent(p) \in Paths
         /\ p = << >> => Parent(p) = p
         /\ p # << >> => Parent(p) \in Above[p]
         /\ \A q \in Above[p] : q = Parent(p) \/ q \in Above[Parent(p)]
<1>1. p \in Seq(STRING) /\ Parent(p) \in Paths /\ Parent(p) \in Seq(STRING)
  BY PathsAssumption
<1>2. CASE p = << >>
  <2>1. Len(p) = 0
    BY <1>2
  <2>2. Above[p] = {}
    BY <2>1, AboveMeans, AboveIsPath
  <2>3. Parent(p) = << >>
    BY <1>2 DEF Parent
  <2>4. QED
    BY <1>1, <1>2, <2>2, <2>3
<1>3. CASE p # << >>
  <2>1. Len(p) \in Nat /\ Len(p) > 0
    BY <1>1, <1>3
  <2>2. Len(Parent(p)) = Len(p) - 1 /\ \A i \in 1..(Len(p) - 1) : Parent(p)[i] = p[i]
    <3>1. 1 \in 1..(Len(p) + 1) /\ Len(p) - 1 \in (1 - 1)..Len(p)
          /\ (Len(p) - 1) - 1 + 1 = Len(p) - 1 /\ \A i \in Nat : 1 + i - 1 = i
      BY <2>1
    <3>2. QED
      BY <1>1, <3>1, PieceMeans DEF Parent
  <2>3. Parent(p) \in Above[p]
    BY <1>1, <2>1, <2>2, AboveMeans
  <2>4. ASSUME NEW q \in Above[p]
        PROVE  q = Parent(p) \/ q \in Above[Parent(p)]
    <3>1. q \in Paths /\ q \in Seq(STRING) /\ Len(q) \in Nat /\ Len(q) < Len(p)
          /\ \A i \in 1..Len(q) : q[i] = p[i]
      BY AboveIsPath, AboveMeans
    <3>2. \A i \in 1..Len(q) : q[i] = Parent(p)[i]
      BY <2>1, <2>2, <3>1
    <3>3. CASE Len(q) = Len(p) - 1
      <4>1. q = Parent(p)
        BY <1>1, <2>2, <3>1, <3>2, <3>3
      <4>2. QED
        BY <4>1
    <3>4. CASE Len(q) < Len(p) - 1
      BY <1>1, <2>2, <3>1, <3>2, <3>4, AboveMeans
    <3>5. QED
      BY <2>1, <3>1, <3>3, <3>4
  <2>5. QED
    BY <1>1, <1>3, <2>3, <2>4
<1>4. QED
  BY <1>2, <1>3

\* To lie above is a strict order with the working directory at its top.
LEMMA AboveOrder ==
  ASSUME NEW p \in Paths
  PROVE  /\ p \notin Above[p]
         /\ \A q \in Above[p] : Above[q] \subseteq Above[p]
         /\ p # << >> => << >> \in Above[p]
         /\ Above[Parent(p)] \subseteq Above[p]
<1>1. p \notin Above[p]
  BY AboveMeans
<1>2. ASSUME NEW q \in Above[p], NEW r \in Above[q]
      PROVE  r \in Above[p]
  <2>1. q \in Paths /\ r \in Paths
    BY AboveIsPath
  <2>2. Len(q) \in Nat /\ Len(p) \in Nat /\ Len(r) \in Nat
    BY <2>1, AboveMeans
  <2>3. Len(q) < Len(p) /\ \A i \in 1..Len(q) : q[i] = p[i]
    BY <2>1, AboveMeans
  <2>4. Len(r) < Len(q) /\ \A i \in 1..Len(r) : r[i] = q[i]
    BY <2>1, AboveMeans
  <2>5. Len(r) < Len(p) /\ \A i \in 1..Len(r) : r[i] = p[i]
    BY <2>2, <2>3, <2>4
  <2>6. QED
    BY <2>1, <2>5, AboveMeans
<1>3. p # << >> => << >> \in Above[p]
  <2>1. << >> \in Paths /\ Len(<< >>) = 0
    BY PathsAssumption
  <2>2. p # << >> => Len(p) > 0
    BY PathsAssumption
  <2>3. QED
    BY <2>1, <2>2, AboveMeans
<1>4. Above[Parent(p)] \subseteq Above[p]
  BY <1>2, ParentAbove
<1>5. QED
  BY <1>1, <1>2, <1>3, <1>4

\* A place below d, carried below s, keeps its distance from the top.
LEMMA BelowMeans ==
  ASSUME NEW s \in Paths, NEW d \in Paths
  PROVE  /\ Below(s, d, d) = s
         /\ \A p \in Paths : d \in Above[p] => Below(s, d, Parent(p)) = Parent(Below(s, d, p))
<1>1. s \in Seq(STRING) /\ d \in Seq(STRING) /\ Len(s) \in Nat /\ Len(d) \in Nat
  BY PathsAssumption
<1>2. Below(s, d, d) = s
  <2>1. SubSeq(d, Len(d) + 1, Len(d)) = << >>
    BY <1>1
  <2>2. QED
    BY <1>1, <2>1 DEF Below
<1>3. ASSUME NEW p \in Paths, d \in Above[p]
      PROVE  Below(s, d, Parent(p)) = Parent(Below(s, d, p))
  <2>1. p \in Seq(STRING) /\ Len(p) \in Nat /\ Len(d) < Len(p)
    BY <1>3, AboveMeans
  <2> DEFINE rest == SubSeq(p, Len(d) + 1, Len(p))
             pp == SubSeq(p, 1, Len(p) - 1)
             short == SubSeq(pp, Len(d) + 1, Len(pp))
  <2>2. /\ rest \in Seq(STRING) /\ Len(rest) = Len(p) - Len(d)
        /\ \A i \in 1..(Len(p) - Len(d)) : rest[i] = p[Len(d) + i]
    <3>1. /\ Len(d) + 1 \in 1..(Len(p) + 1) /\ Len(p) \in ((Len(d) + 1) - 1)..Len(p)
          /\ Len(p) - (Len(d) + 1) + 1 = Len(p) - Len(d)
          /\ \A i \in Nat : (Len(d) + 1) + i - 1 = Len(d) + i
      BY <1>1, <2>1
    <3>2. QED
      BY <2>1, <3>1, PieceMeans
  <2>3. /\ pp \in Seq(STRING) /\ Len(pp) = Len(p) - 1
        /\ \A i \in 1..(Len(p) - 1) : pp[i] = p[i]
    <3>1. 1 \in 1..(Len(p) + 1) /\ Len(p) - 1 \in (1 - 1)..Len(p)
          /\ (Len(p) - 1) - 1 + 1 = Len(p) - 1 /\ \A i \in Nat : 1 + i - 1 = i
      BY <1>1, <2>1
    <3>2. QED
      BY <2>1, <3>1, PieceMeans
  <2> HIDE DEF pp
  <2>4. /\ short \in Seq(STRING) /\ Len(short) = Len(p) - 1 - Len(d)
        /\ \A i \in 1..(Len(p) - 1 - Len(d)) : short[i] = p[Len(d) + i]
    <3>1. /\ Len(d) + 1 \in 1..(Len(pp) + 1) /\ Len(pp) \in ((Len(d) + 1) - 1)..Len(pp)
          /\ Len(pp) - (Len(d) + 1) + 1 = Len(p) - 1 - Len(d)
          /\ \A i \in Nat : (Len(d) + 1) + i - 1 = Len(d) + i
      BY <1>1, <2>1, <2>3
    <3>2. /\ short \in Seq(STRING) /\ Len(short) = Len(p) - 1 - Len(d)
          /\ \A i \in 1..(Len(p) - 1 - Len(d)) : short[i] = pp[Len(d) + i]
      BY <2>3, <3>1, PieceMeans
    <3>3. \A i \in 1..(Len(p) - 1 - Len(d)) : Len(d) + i \in 1..(Len(p) - 1)
      BY <1>1, <2>1
    <3>4. QED
      BY <2>3, <3>2, <3>3
  <2> HIDE DEF rest, short
  <2>5. /\ s \o rest \in Seq(STRING) /\ Len(s \o rest) = Len(s) + Len(p) - Len(d)
        /\ \A i \in 1..Len(s) : (s \o rest)[i] = s[i]
        /\ \A i \in 1..(Len(p) - Len(d)) : (s \o rest)[Len(s) + i] = p[Len(d) + i]
    <3>1. Len(s) + (Len(p) - Len(d)) = Len(s) + Len(p) - Len(d)
      BY <1>1, <2>1
    <3>2. /\ s \o rest \in Seq(STRING) /\ Len(s \o rest) = Len(s) + Len(rest)
          /\ \A i \in 1..Len(s) : (s \o rest)[i] = s[i]
          /\ \A i \in 1..Len(rest) : (s \o rest)[Len(s) + i] = rest[i]
      BY <1>1, <2>2, JoinMeans
    <3>3. QED
      BY <2>2, <3>1, <3>2
  <2>6. /\ s \o short \in Seq(STRING) /\ Len(s \o short) = Len(s) + Len(p) - 1 - Len(d)
        /\ \A i \in 1..Len(s) : (s \o short)[i] = s[i]
        /\ \A i \in 1..(Len(p) - 1 - Len(d)) : (s \o short)[Len(s) + i] = p[Len(d) + i]
    <3>1. Len(s) + (Len(p) - 1 - Len(d)) = Len(s) + Len(p) - 1 - Len(d)
      BY <1>1, <2>1
    <3>2. /\ s \o short \in Seq(STRING) /\ Len(s \o short) = Len(s) + Len(short)
          /\ \A i \in 1..Len(s) : (s \o short)[i] = s[i]
          /\ \A i \in 1..Len(short) : (s \o short)[Len(s) + i] = short[i]
      BY <1>1, <2>4, JoinMeans
    <3>3. QED
      BY <2>4, <3>1, <3>2
  <2> DEFINE long == s \o rest
             want == s \o short
             cut == SubSeq(long, 1, Len(long) - 1)
  <2>7. /\ cut \in Seq(STRING) /\ Len(cut) = Len(s) + Len(p) - 1 - Len(d)
        /\ \A i \in 1..(Len(s) + Len(p) - 1 - Len(d)) : cut[i] = long[i]
    BY <1>1, <2>1, <2>5
  <2> HIDE DEF long, want, cut
  <2>8. ASSUME NEW i \in 1..(Len(s) + Len(p) - 1 - Len(d))
        PROVE  want[i] = long[i]
    <3>1. CASE i <= Len(s)
      BY <1>1, <2>1, <2>5, <2>6, <3>1 DEF long, want
    <3>2. CASE i > Len(s)
      <4>1. i - Len(s) \in 1..(Len(p) - 1 - Len(d)) /\ i - Len(s) \in 1..(Len(p) - Len(d))
            /\ Len(s) + (i - Len(s)) = i
        BY <1>1, <2>1, <3>2
      <4>2. want[i] = p[Len(d) + (i - Len(s))] /\ long[i] = p[Len(d) + (i - Len(s))]
        BY <2>5, <2>6, <4>1 DEF long, want
      <4>3. QED
        BY <4>2
    <3>3. QED
      BY <1>1, <3>1, <3>2
  <2>9. want = cut
    <3>1. want \in Seq(STRING) /\ Len(want) = Len(cut)
      BY <2>6, <2>7 DEF want
    <3>2. \A i \in 1..Len(cut) : want[i] = cut[i]
      BY <2>7, <2>8
    <3>3. QED
      BY <2>7, <3>1, <3>2
  <2>10. QED
    BY <2>9 DEF Below, Parent, want, cut, long, short, rest, pp
<1>4. QED
  BY <1>2, <1>3

-----------------------------------------------------------------------------
(* Trees                                                                   *)

\* What is above something that is there is a directory.
LEMMA AncestorsAreDirs ==
  ASSUME NEW t, WellFormed(t), NEW p \in Paths, t[p] # "none", NEW q \in Above[p]
  PROVE  t[q] = "dir"
<1> DEFINE Bad == {r \in Paths : t[r] # "none" /\ q \in Above[r] /\ t[q] # "dir"}
           Lengths == {Len(r) : r \in Bad}
<1>1. SUFFICES ASSUME Bad # {}
               PROVE  FALSE
  BY <1>1
<1>2. Lengths \in SUBSET Nat /\ Lengths # {}
  <2>1. \A r \in Paths : Len(r) \in Nat
    BY AboveMeans
  <2>2. QED
    BY <1>1, <2>1
<1>3. PICK n \in Lengths : \A m \in Lengths : n <= m
  BY <1>2, LeastOf
<1>4. PICK r \in Bad : Len(r) = n
  BY <1>3
<1>5. r \in Paths /\ r # << >> /\ t[Parent(r)] = "dir" /\ Parent(r) \in Above[r]
  <2>1. r \in Paths /\ t[r] # "none" /\ q \in Above[r]
    BY <1>4
  <2>2. r # << >>
    BY <2>1, AboveOrder, AboveMeans, PathsAssumption DEF Above
  <2>3. t[Parent(r)] = "dir"
    BY <2>1, <2>2 DEF WellFormed
  <2>4. QED
    BY <2>1, <2>2, <2>3, ParentAbove
<1>6. q \in Above[Parent(r)]
  BY <1>4, <1>5, ParentAbove
<1>7. Parent(r) \in Bad
  BY <1>4, <1>5, <1>6, ParentAbove
<1>8. Len(Parent(r)) < Len(r) /\ Len(r) \in Nat /\ Len(Parent(r)) \in Nat
  BY <1>5, AboveMeans, AboveIsPath
<1>9. QED
  BY <1>3, <1>4, <1>7, <1>8

\* A tree that the current directories of the processes in a layer stand on.
Standing(l, t) ==
    /\ t \in [Paths -> Types]
    /\ WellFormed(t)
    /\ \A w \in Procs : cwd[w].layer = l => t[cwd[w].at] = "dir"

CwdTyped ==
    /\ cwd \in [Procs -> CurrentDirs \cup {Unborn, Windows}]
    /\ \A w \in Procs : cwd[w].layer \in Layers => cwd[w].at \in Paths

Sound(t) == /\ t \in [Layers -> [Paths -> Types]]
            /\ \A l \in Layers : Standing(l, t[l])

\* What is on disk stays, and what comes is in a directory.
LEMMA PutStands ==
  ASSUME CwdTyped, NEW l \in Layers, NEW t, Standing(l, t), NEW p \in Paths,
         NEW type \in {"dir", "file"}
  PROVE  Standing(l, Put(t, p, type))
<1>1. CASE t[p] = "none" /\ t[Parent(p)] = "dir"
  <2> DEFINE u == [t EXCEPT ![p] = type]
  <2>1. Put(t, p, type) = u
    BY <1>1 DEF Put
  <2>2. u \in [Paths -> Types] /\ \A q \in Paths : u[q] = IF q = p THEN type ELSE t[q]
    BY DEF Standing, Types
  <2>3. p # << >>
    BY <1>1 DEF Standing, WellFormed
  <2>4. ASSUME NEW q \in Paths, u[q] # "none"
        PROVE  u[Parent(q)] = "dir"
    <3>1. Parent(q) \in Paths /\ Parent(p) # p
      BY <2>3, ParentAbove, AboveOrder
    <3>2. CASE q = p
      BY <1>1, <2>2, <3>1, <3>2
    <3>3. CASE q # p
      <4>1. t[Parent(q)] = "dir"
        BY <2>2, <2>4, <3>3 DEF Standing, WellFormed
      <4>2. QED
        BY <1>1, <2>2, <3>1, <4>1
    <3>4. QED
      BY <3>2, <3>3
  <2>5. u[<< >>] = "dir"
    BY <2>2, <2>3, PathsAssumption DEF Standing, WellFormed
  <2>6. \A w \in Procs : cwd[w].layer = l => u[cwd[w].at] = "dir"
    BY <1>1, <2>2 DEF Standing, CwdTyped
  <2> HIDE DEF u
  <2>7. QED
    BY <2>1, <2>2, <2>4, <2>5, <2>6 DEF Standing, WellFormed
<1>2. CASE ~(t[p] = "none" /\ t[Parent(p)] = "dir")
  BY <1>2 DEF Put
<1>3. QED
  BY <1>1, <1>2

LEMMA ParentsStand ==
  ASSUME CwdTyped, NEW l \in Layers, NEW t, Standing(l, t), NEW p \in Paths
  PROVE  Standing(l, EnsureBackingParentDirs(t, p))
<1> DEFINE u == EnsureBackingParentDirs(t, p)
           Made(q) == q \in Above[p] /\ t[q] = "none" /\ \A r \in Above[q] : t[r] # "file"
<1>1. /\ u \in [Paths -> Types]
      /\ \A q \in Paths : u[q] = IF Made(q) THEN "dir" ELSE t[q]
  BY DEF EnsureBackingParentDirs, Standing, Types
<1> HIDE DEF u
<1>2. ASSUME NEW q \in Paths, u[q] # "none"
      PROVE  u[Parent(q)] = "dir"
  <2>1. CASE Made(q)
    <3>1. q # << >>
      BY <2>1 DEF Standing, WellFormed
    <3>2. Parent(q) \in Above[q] /\ Parent(q) \in Paths /\ Parent(q) \in Above[p]
          /\ Above[Parent(q)] \subseteq Above[q]
      BY <2>1, <3>1, ParentAbove, AboveOrder
    <3>3. t[Parent(q)] \in {"none", "dir"}
      BY <2>1, <3>2 DEF Standing, Types
    <3>4. QED
      BY <1>1, <2>1, <3>2, <3>3
  <2>2. CASE ~Made(q)
    <3>1. t[Parent(q)] = "dir" /\ Parent(q) \in Paths
      BY <1>1, <1>2, <2>2, ParentAbove DEF Standing, WellFormed
    <3>2. QED
      BY <1>1, <3>1
  <2>3. QED
    BY <2>1, <2>2
<1>3. \A q \in Paths : t[q] # "none" => u[q] = t[q]
  BY <1>1
<1>4. u[<< >>] = "dir" /\ \A w \in Procs : cwd[w].layer = l => u[cwd[w].at] = "dir"
  BY <1>3, PathsAssumption DEF Standing, WellFormed, CwdTyped
<1>5. QED
  BY <1>1, <1>2, <1>4 DEF Standing, WellFormed, u

\* Only what is a file, or an empty directory with nobody in it, may go.
LEMMA RemovalStands ==
  ASSUME CwdTyped, NEW l \in Layers, NEW t, Standing(l, t), NEW p \in Paths, p # << >>,
         NEW types, Removable(t, l, p, types), types \subseteq {"dir", "file"}
  PROVE  Standing(l, [t EXCEPT ![p] = "none"])
<1> DEFINE u == [t EXCEPT ![p] = "none"]
<1>1. /\ u \in [Paths -> Types]
      /\ \A q \in Paths : u[q] = IF q = p THEN "none" ELSE t[q]
  BY DEF Standing, Types
<1> HIDE DEF u
<1>2. t[p] = "file" \/ (t[p] = "dir" /\ Empty(t, p) /\ ~Busy(l, p))
  BY DEF Removable
<1>3. ASSUME NEW q \in Paths, u[q] # "none"
      PROVE  u[Parent(q)] = "dir"
  <2>1. q # p /\ t[q] # "none" /\ t[Parent(q)] = "dir" /\ Parent(q) \in Paths
    BY <1>1, <1>3, ParentAbove DEF Standing, WellFormed
  <2>2. Parent(q) # p
    <3>1. SUFFICES ASSUME Parent(q) = p
                   PROVE  FALSE
      OBVIOUS
    <3>2. p \in Above[q]
      BY <2>1, <3>1, ParentAbove
    <3>3. QED
      BY <1>2, <2>1, <3>1, <3>2 DEF Empty
  <2>3. QED
    BY <1>1, <2>1, <2>2
<1>4. \A w \in Procs : cwd[w].layer = l => u[cwd[w].at] = "dir"
  BY <1>1, <1>2 DEF Standing, CwdTyped, Busy, Upwards
<1>5. u[<< >>] = "dir"
  BY <1>1, PathsAssumption DEF Standing, WellFormed
<1>6. QED
  BY <1>1, <1>3, <1>4, <1>5 DEF Standing, WellFormed, u

\* A subtree goes to a place whose parent is a directory, and where no directory is.
LEMMA GraftStands ==
  ASSUME CwdTyped, NEW l \in Layers, NEW a, NEW b, NEW s \in Paths, NEW d \in Paths,
         a \in [Paths -> Types], WellFormed(a), Standing(l, b), d # << >>,
         b[Parent(d)] = "dir", b[d] # "dir"
  PROVE  Standing(l, Grafted(a, s, b, d))
<1> DEFINE g == Grafted(a, s, b, d)
<1>1. /\ g \in [Paths -> Types]
      /\ \A q \in Paths :
           g[q] = IF d \in Upwards[q]
                  THEN IF Below(s, d, q) \in Paths THEN a[Below(s, d, q)] ELSE "none"
                  ELSE b[q]
  BY DEF Grafted, Standing, Types
<1> HIDE DEF g
<1>2. \A q \in Paths : d \in Upwards[q] <=> q = d \/ d \in Above[q]
  BY DEF Upwards
<1>3. b \in [Paths -> Types] /\ WellFormed(b)
  BY DEF Standing
<1>4. ASSUME NEW q \in Paths, g[q] # "none"
      PROVE  g[Parent(q)] = "dir"
  <2>1. Parent(q) \in Paths
    BY ParentAbove
  <2>2. CASE q = d
    <3>1. d \notin Upwards[Parent(d)]
      BY <1>2, <2>1, <2>2, ParentAbove, AboveOrder
    <3>2. QED
      BY <1>1, <2>1, <2>2, <3>1
  <2>3. CASE d \in Above[q]
    <3>1. d \in Upwards[Parent(q)] /\ d \in Upwards[q]
      BY <1>2, <2>1, <2>3, ParentAbove
    <3>2. Below(s, d, q) \in Paths /\ a[Below(s, d, q)] # "none"
      BY <1>1, <1>4, <3>1
    <3>3. Below(s, d, Parent(q)) = Parent(Below(s, d, q))
      BY <2>3, BelowMeans
    <3>4. a[Parent(Below(s, d, q))] = "dir" /\ Parent(Below(s, d, q)) \in Paths
      BY <3>2, ParentAbove DEF WellFormed
    <3>5. QED
      BY <1>1, <2>1, <3>1, <3>3, <3>4
  <2>4. CASE d \notin Upwards[q]
    <3>1. b[Parent(q)] = "dir"
      BY <1>1, <1>3, <1>4, <2>4 DEF WellFormed
    <3>2. d \notin Upwards[Parent(q)]
      BY <1>2, <2>1, <2>4, ParentAbove, AboveOrder
    <3>3. QED
      BY <1>1, <2>1, <3>1, <3>2
  <2>5. QED
    BY <1>2, <2>2, <2>3, <2>4
<1>5. ASSUME NEW q \in Paths, b[q] = "dir"
      PROVE  g[q] = "dir"
  <2>1. d \notin Upwards[q]
    BY <1>2, <1>3, <1>5, AncestorsAreDirs
  <2>2. QED
    BY <1>1, <1>5, <2>1
<1>6. g[<< >>] = "dir" /\ \A w \in Procs : cwd[w].layer = l => g[cwd[w].at] = "dir"
  BY <1>5, PathsAssumption DEF Standing, WellFormed, CwdTyped
<1>7. QED
  BY <1>1, <1>4, <1>6 DEF Standing, WellFormed, g

\* A subtree that nobody is in goes.
LEMMA PruneStands ==
  ASSUME CwdTyped, NEW l \in Layers, NEW t, Standing(l, t), NEW s \in Paths, s # << >>,
         \A w \in Procs : cwd[w].layer = l => s \notin Upwards[cwd[w].at]
  PROVE  Standing(l, Pruned(t, s))
<1> DEFINE u == Pruned(t, s)
<1>1. /\ u \in [Paths -> Types]
      /\ \A q \in Paths : u[q] = IF s \in Upwards[q] THEN "none" ELSE t[q]
  BY DEF Pruned, Standing, Types
<1> HIDE DEF u
<1>2. ASSUME NEW q \in Paths, u[q] # "none"
      PROVE  u[Parent(q)] = "dir"
  <2>1. s \notin Upwards[q] /\ t[Parent(q)] = "dir" /\ Parent(q) \in Paths
    BY <1>1, <1>2, ParentAbove DEF Standing, WellFormed
  <2>2. s \notin Upwards[Parent(q)]
    BY <2>1, ParentAbove, AboveOrder DEF Upwards
  <2>3. QED
    BY <1>1, <2>1, <2>2
<1>3. s \notin Upwards[<< >>]
  BY PathsAssumption, AboveOrder, ParentAbove, AboveMeans DEF Upwards
<1>4. u[<< >>] = "dir" /\ \A w \in Procs : cwd[w].layer = l => u[cwd[w].at] = "dir"
  BY <1>1, <1>3, PathsAssumption DEF Standing, WellFormed, CwdTyped
<1>5. QED
  BY <1>1, <1>2, <1>4 DEF Standing, WellFormed, u

\* A change of one layer.
LEMMA LayerSound ==
  ASSUME NEW t, Sound(t), NEW l \in Layers, NEW u, Standing(l, u)
  PROVE  Sound([t EXCEPT ![l] = u])
BY DEF Sound, Standing

LEMMA RealMoveSound ==
  ASSUME CwdTyped, NEW t, Sound(t), NEW ls \in Layers, NEW ld \in Layers,
         NEW s \in Paths, NEW d \in Paths
  PROVE  Sound(RealMove(t, ls, s, ld, d))
<1> DEFINE Moves == /\ t[ls][s] # "none" /\ s # << >> /\ d # << >>
                    /\ t[ls][s] = "dir" => ~Busy(ls, s)
                    /\ ~(ls = ld /\ s \in Upwards[d])
                    /\ t[ld][Parent(d)] = "dir"
                    /\ \/ t[ld][d] = "none"
                       \/ t[ls][s] = "file" /\ t[ld][d] = "file"
           g == [t EXCEPT ![ld] = Grafted(t[ls], s, t[ld], d)]
<1>1. CASE Moves
  <2>1. Standing(ls, t[ls]) /\ Standing(ld, t[ld])
    BY DEF Sound
  <2>2. t[ls] \in [Paths -> Types] /\ WellFormed(t[ls])
    BY <2>1 DEF Standing
  <2>3. t[ld][d] # "dir"
    BY <1>1
  <2>4. Standing(ld, Grafted(t[ls], s, t[ld], d))
    BY <1>1, <2>1, <2>2, <2>3, GraftStands
  <2>5. Sound(g)
    BY <2>4, LayerSound
  <2>6. ASSUME NEW w \in Procs, cwd[w].layer = ls
        PROVE  s \notin Upwards[cwd[w].at]
    <3>1. cwd[w].at \in Paths /\ t[ls][cwd[w].at] = "dir"
      BY <2>1, <2>6 DEF Standing, CwdTyped
    <3>2. SUFFICES ASSUME s \in Upwards[cwd[w].at]
                   PROVE  FALSE
      OBVIOUS
    <3>3. s = cwd[w].at \/ s \in Above[cwd[w].at]
      BY <3>1, <3>2 DEF Upwards
    <3>4. t[ls][s] = "dir"
      BY <2>2, <3>1, <3>3, AncestorsAreDirs
    <3>5. QED
      BY <1>1, <2>6, <3>2, <3>4 DEF Busy
  <2> HIDE DEF g
  <2>7. Standing(ls, g[ls])
    BY <2>5 DEF Sound
  <2>8. Standing(ls, Pruned(g[ls], s))
    BY <1>1, <2>6, <2>7, PruneStands
  <2>9. Sound([g EXCEPT ![ls] = Pruned(g[ls], s)])
    BY <2>5, <2>8, LayerSound
  <2>10. RealMove(t, ls, s, ld, d) = [g EXCEPT ![ls] = Pruned(g[ls], s)]
    BY <1>1 DEF RealMove, g
  <2>11. QED
    BY <2>9, <2>10
<1>2. CASE ~Moves
  BY <1>2 DEF RealMove
<1>3. QED
  BY <1>1, <1>2

-----------------------------------------------------------------------------
(* The inductive invariant                                                 *)

\* Only a current directory in the backing store is in the extended form.
RealIsPlain ==
    \A w \in Procs : cwd[w].layer = "real" => cwd[w].form = "plain"

TreeInv == TypeOK /\ RealIsPlain

LEMMA TypesSound ==
  TypeOK <=> CwdTyped /\ Sound(tree) /\ filterInputs \in BOOLEAN
<1>1. ASSUME cwd \in [Procs -> CurrentDirs \cup {Unborn, Windows}]
      PROVE  \A w \in Procs : cwd[w].layer \in Layers => cwd[w].at \in Paths
  BY <1>1 DEF CurrentDirs, Unborn, Windows, Layers
<1>2. ASSUME cwd \in [Procs -> CurrentDirs \cup {Unborn, Windows}],
             tree \in [Layers -> [Paths -> Types]]
      PROVE  (\A l \in Layers : Standing(l, tree[l])) <=>
               /\ \A l \in Layers : WellFormed(tree[l])
               /\ \A w \in Procs : cwd[w].layer \in Layers => IsDir(cwd[w].layer, cwd[w].at)
  BY <1>2 DEF Standing, IsDir
<1>3. QED
  BY <1>1, <1>2 DEF TypeOK, CwdTyped, Sound

\* A step that changes the trees only.
LEMMA TreesKeepInv ==
  ASSUME TreeInv, NEW u, Sound(u), tree' = u, UNCHANGED <<cwd, filterInputs>>
  PROVE  TreeInv'
<1>1. CwdTyped /\ filterInputs \in BOOLEAN
  BY TypesSound DEF TreeInv
<1>2. TypeOK'
  BY <1>1 DEF TypeOK, CwdTyped, Sound, Standing, IsDir, WellFormed
<1>3. RealIsPlain'
  BY DEF TreeInv, RealIsPlain
<1>4. QED
  BY <1>2, <1>3 DEF TreeInv

LEMMA LayerKeepsInv ==
  ASSUME TreeInv, NEW l \in Layers, NEW u, Standing(l, u), SetTree(l, u),
         UNCHANGED <<cwd, filterInputs>>
  PROVE  TreeInv'
<1>1. Sound([tree EXCEPT ![l] = u])
  BY TypesSound, LayerSound DEF TreeInv
<1>2. QED
  BY <1>1, TreesKeepInv DEF SetTree

LEMMA NamesArePlaces ==
  /\ \A w \in Procs : Named(w) \subseteq Places
  /\ Names \subseteq Places
  /\ MappedNames \subseteq Places
<1>1. \A w \in Procs : Named(w) \subseteq Places
  BY DEF Named, Places, Virtual, Layers
<1>2. Names \subseteq Places
  BY <1>1 DEF Names
<1>3. \A pl \in Places : ReverseMap(pl) \in Places
  BY DEF ReverseMap, Places, Virtual, Layers
<1>4. QED
  BY <1>1, <1>2, <1>3 DEF MappedNames

LEMMA PlaceParts ==
  ASSUME NEW pl \in Places
  PROVE  /\ pl.layer \in Layers /\ pl.at \in Paths
         /\ \A b \in BOOLEAN : Redirect(pl, b) \in Layers
BY DEF Places, Redirect, Layers

LEMMA CreateDirectoryKeeps ==
  ASSUME TreeInv, NEW pl \in Places, CreateDirectoryW(pl)
  PROVE  TreeInv'
<1>1. CwdTyped /\ \A l \in Layers : Standing(l, tree[l])
  BY TypesSound DEF TreeInv, Sound
<1>2. pl.layer \in Layers /\ pl.at \in Paths /\ "back" \in Layers
  BY PlaceParts DEF Layers
<1>3. CASE ShouldRedirectToOverlay(pl)
  <2>1. Standing("back", EnsureBackingParentDirs(tree["back"], pl.at))
    BY <1>1, <1>2, ParentsStand
  <2>2. Standing("back", Put(EnsureBackingParentDirs(tree["back"], pl.at), pl.at, "dir"))
    BY <1>1, <1>2, <2>1, PutStands
  <2>3. QED
    BY <1>2, <1>3, <2>2, LayerKeepsInv DEF CreateDirectoryW
<1>4. CASE ~ShouldRedirectToOverlay(pl)
  <2>1. Standing(pl.layer, Put(tree[pl.layer], pl.at, "dir"))
    BY <1>1, <1>2, PutStands
  <2>2. QED
    BY <1>2, <1>4, <2>1, LayerKeepsInv DEF CreateDirectoryW
<1>5. QED
  BY <1>3, <1>4

\* What an open leaves in the layer it goes to.
LEMMA OpenedStands ==
  ASSUME TreeInv, NEW pl \in Places, NEW disp
  PROVE  WriteLayer(pl, disp) \in Layers /\ Standing(WriteLayer(pl, disp), Opened(pl, disp))
<1>1. CwdTyped /\ \A l \in Layers : Standing(l, tree[l])
  BY TypesSound DEF TreeInv, Sound
<1>2. pl.layer \in Layers /\ pl.at \in Paths /\ "back" \in Layers
  BY PlaceParts DEF Layers
<1>3. CASE OpensBacking(pl, TRUE, disp)
  <2>1. WriteLayer(pl, disp) = "back"
    BY <1>3 DEF WriteLayer, Redirect
  <2>2. Standing("back", EnsureBackingParentDirs(tree["back"], pl.at))
    BY <1>1, <1>2, ParentsStand
  <2>3. Standing("back", Put(EnsureBackingParentDirs(tree["back"], pl.at), pl.at, "file"))
    BY <1>1, <1>2, <2>2, PutStands
  <2>4. QED
    BY <1>2, <1>3, <2>1, <2>2, <2>3 DEF Opened
<1>4. CASE ~OpensBacking(pl, TRUE, disp)
  <2>1. WriteLayer(pl, disp) = pl.layer
    BY <1>4 DEF WriteLayer, Redirect
  <2>2. Standing(pl.layer, Put(tree[pl.layer], pl.at, "file"))
    BY <1>1, <1>2, PutStands
  <2>3. QED
    BY <1>1, <1>2, <1>4, <2>1, <2>2 DEF Opened
<1>5. QED
  BY <1>3, <1>4

LEMMA CreateFileKeeps ==
  ASSUME TreeInv, NEW pl \in Places, NEW disp, CreateFileW(pl, disp)
  PROVE  TreeInv'
BY OpenedStands, LayerKeepsInv DEF CreateFileW

LEMMA RealRemoveKeeps ==
  ASSUME TreeInv, NEW pl \in Places, NEW type \in {"dir", "file"}, RealRemove(pl, type),
         pl.at # << >>
  PROVE  TreeInv'
<1> DEFINE l == RemovalLayer(pl)
<1>1. l \in Layers /\ pl.at \in Paths
  BY PlaceParts DEF RemovalLayer
<1>2. CwdTyped /\ Standing(l, tree[l])
  BY <1>1, TypesSound DEF TreeInv, Sound
<1>3. /\ Removable(tree[l], l, pl.at, {type}) /\ {type} \subseteq {"dir", "file"}
      /\ SetTree(l, [tree[l] EXCEPT ![pl.at] = "none"])
      /\ UNCHANGED <<cwd, filterInputs>>
  BY DEF RealRemove
<1> HIDE DEF l
<1>4. Standing(l, [tree[l] EXCEPT ![pl.at] = "none"])
  BY <1>1, <1>2, <1>3, RemovalStands
<1>5. QED
  BY <1>1, <1>3, <1>4, LayerKeepsInv

LEMMA DeleteFileKeeps ==
  ASSUME TreeInv, NEW pl \in Places, DeleteFileW(pl)
  PROVE  TreeInv'
<1>1. RemovalLayer(pl) \in Layers
  BY PlaceParts DEF RemovalLayer
<1>2. pl.at # << >>
  BY <1>1 DEF DeleteFileW, RealRemove, Removable, TreeInv, TypeOK, WellFormed
<1>3. QED
  BY <1>2, RealRemoveKeeps DEF DeleteFileW

\* The backing parents of a destination, made before a move to it.
Prepared(t, dst) ==
    IF ShouldRedirectToOverlay(dst)
    THEN [t EXCEPT !["back"] = EnsureBackingParentDirs(@, dst.at)]
    ELSE t

LEMMA PreparedSound ==
  ASSUME CwdTyped, NEW t, Sound(t), NEW dst \in Places
  PROVE  Sound(Prepared(t, dst))
<1>1. "back" \in Layers /\ dst.at \in Paths
  BY PlaceParts DEF Layers
<1>2. Standing("back", EnsureBackingParentDirs(t["back"], dst.at))
  BY <1>1, ParentsStand DEF Sound
<1>3. Sound([t EXCEPT !["back"] = EnsureBackingParentDirs(t["back"], dst.at)])
  BY <1>1, <1>2, LayerSound
<1>4. [t EXCEPT !["back"] = EnsureBackingParentDirs(@, dst.at)]
        = [t EXCEPT !["back"] = EnsureBackingParentDirs(t["back"], dst.at)]
  OBVIOUS
<1>5. QED
  BY <1>3, <1>4 DEF Prepared

LEMMA MoveDirectoryKeeps ==
  ASSUME TreeInv, NEW src \in Places, NEW dst \in Places, MoveDirectory(src, dst)
  PROVE  TreeInv'
<1>1. CwdTyped /\ Sound(tree)
  BY TypesSound DEF TreeInv
<1>2. Sound(RealMove(tree, src.layer, src.at, dst.layer, dst.at))
  BY <1>1, PlaceParts, RealMoveSound
<1>3. QED
  BY <1>2, TreesKeepInv DEF MoveDirectory

LEMMA MoveFileKeeps ==
  ASSUME TreeInv, NEW src \in Places, NEW dst \in Places, MoveFileWithProgress(src, dst)
  PROVE  TreeInv'
<1> DEFINE l == RemovalLayer(src)
           k == Redirect(dst, ShouldRedirectToOverlay(dst))
<1>1. CwdTyped /\ Sound(tree)
  BY TypesSound DEF TreeInv
<1>2. l \in Layers /\ k \in Layers /\ src.at \in Paths /\ dst.at \in Paths
  BY PlaceParts DEF RemovalLayer, ShouldRedirectToOverlay
<1>3. Sound(Prepared(tree, dst))
  BY <1>1, PreparedSound
<1>4. tree' = RealMove(Prepared(tree, dst), l, src.at, k, dst.at)
      /\ UNCHANGED <<cwd, filterInputs>>
  BY DEF MoveFileWithProgress, Prepared
<1> HIDE DEF l, k
<1>5. Sound(RealMove(Prepared(tree, dst), l, src.at, k, dst.at))
  BY <1>1, <1>2, <1>3, RealMoveSound
<1>6. QED
  BY <1>4, <1>5, TreesKeepInv

\* A handle that was opened for DELETE is on a place, and the trees are sound.
LEMMA OpenedForDeleteSound ==
  ASSUME TreeInv, NEW pl \in Places
  PROVE  /\ Sound(OpenedForDelete(pl))
         /\ Held(pl) \in Places /\ Held(pl).layer \in Layers
         /\ Held(pl).at = pl.at /\ pl.at \in Paths
<1>1. /\ Held(pl).layer = WriteLayer(pl, "OPEN_EXISTING") /\ Held(pl).at = pl.at
      /\ pl.at \in Paths
  BY PlaceParts DEF Held
<1>2. /\ Held(pl).layer \in Layers
      /\ Standing(Held(pl).layer, Opened(pl, "OPEN_EXISTING"))
  BY <1>1, OpenedStands
<1>3. Held(pl) \in Places
  BY <1>1, <1>2 DEF Held, Places
<1>4. Sound(tree)
  BY TypesSound DEF TreeInv
<1>5. QED
  BY <1>1, <1>2, <1>3, <1>4, LayerSound DEF OpenedForDelete

LEMMA HandleDeleteKeeps ==
  ASSUME TreeInv, NEW pl \in Places, DeleteUsingSetFileInformationByHandle(pl)
  PROVE  TreeInv'
<1> DEFINE l == Held(pl).layer
           t == OpenedForDelete(pl)
           u == [t[l] EXCEPT ![pl.at] = "none"]
<1>1. l \in Layers /\ Held(pl).at = pl.at /\ pl.at \in Paths /\ Sound(t) /\ CwdTyped
  BY OpenedForDeleteSound, TypesSound DEF TreeInv
<1>2. /\ Removable(t[l], l, pl.at, {"dir", "file"}) /\ pl.at # << >>
      /\ tree' = [t EXCEPT ![l][pl.at] = "none"]
      /\ UNCHANGED <<cwd, filterInputs>>
  BY <1>1 DEF DeleteUsingSetFileInformationByHandle
<1> HIDE DEF l, t
<1>3. [t EXCEPT ![l][pl.at] = "none"] = [t EXCEPT ![l] = u]
  OBVIOUS
<1>4. Standing(l, t[l])
  BY <1>1 DEF Sound
<1>5. Standing(l, u)
  BY <1>1, <1>2, <1>4, RemovalStands
<1> HIDE DEF u
<1>6. Sound([t EXCEPT ![l] = u])
  BY <1>1, <1>5, LayerSound
<1>7. QED
  BY <1>2, <1>3, <1>6, TreesKeepInv

LEMMA HandleRenameKeeps ==
  ASSUME TreeInv, NEW pl \in Places, NEW dst \in Places,
         RenameUsingSetFileInformationByHandle(pl, dst)
  PROVE  TreeInv'
<1> DEFINE l == Held(pl).layer
           k == Redirect(dst, ShouldRedirectToOverlay(dst))
           t == OpenedForDelete(pl)
<1>1. /\ l \in Layers /\ k \in Layers /\ Held(pl).at = pl.at
      /\ pl.at \in Paths /\ dst.at \in Paths /\ Sound(t) /\ CwdTyped
  BY OpenedForDeleteSound, PlaceParts, TypesSound DEF TreeInv, ShouldRedirectToOverlay
<1>2. /\ tree' = RealMove(Prepared(t, dst), l, pl.at, k, dst.at)
      /\ UNCHANGED <<cwd, filterInputs>>
  BY <1>1 DEF RenameUsingSetFileInformationByHandle, Prepared
<1> HIDE DEF l, k, t
<1>3. Sound(Prepared(t, dst))
  BY <1>1, PreparedSound
<1>4. Sound(RealMove(Prepared(t, dst), l, pl.at, k, dst.at))
  BY <1>1, <1>3, RealMoveSound
<1>5. QED
  BY <1>2, <1>4, TreesKeepInv

\* A step that changes the current directory of one process only.
LEMMA CwdKeepsInv ==
  ASSUME TreeInv, NEW w \in Procs, NEW d \in CurrentDirs \cup {Unborn, Windows},
         d.layer \in Layers => IsDir(d.layer, d.at),
         d.layer = "real" => d.form = "plain",
         cwd' = [cwd EXCEPT ![w] = d], UNCHANGED <<tree, filterInputs>>
  PROVE  TreeInv'
<1>1. cwd \in [Procs -> CurrentDirs \cup {Unborn, Windows}]
  BY DEF TreeInv, TypeOK
<1>2. /\ cwd' \in [Procs -> CurrentDirs \cup {Unborn, Windows}]
      /\ \A v \in Procs : cwd'[v] = IF v = w THEN d ELSE cwd[v]
  BY <1>1
<1>3. TypeOK'
  BY <1>2 DEF TreeInv, TypeOK, IsDir, WellFormed
<1>4. RealIsPlain'
  BY <1>2 DEF TreeInv, RealIsPlain
<1>5. QED
  BY <1>3, <1>4 DEF TreeInv

\* An open that finds a directory finds it in the layer it goes to.
LEMMA OpenFinds ==
  ASSUME NEW name, NEW type \in {"dir", "file"}, OpenForRead(name) = type
  PROVE  LET pl == ReverseMap(name)
         IN  tree[ReadLayer(pl)][pl.at] = type /\ CheckReadAccess(pl, type)
BY DEF OpenForRead, Masked, RealOutcome, Present

LEMMA ReadLayerIsLayer ==
  ASSUME NEW pl \in Places
  PROVE  ReadLayer(pl) \in Layers
BY DEF ReadLayer, Redirect, Places, Layers

LEMMA SetCurrentDirectoryKeeps ==
  ASSUME TreeInv, NEW w \in Procs, NEW name \in Named(w), SetCurrentDirectoryW(w, name)
  PROVE  TreeInv'
<1> DEFINE pl == ReverseMap(name)
           l == ReadLayer(pl)
           form == CASE l = "real" -> "plain"
                     [] l = "back" /\ pl.layer = "real" -> "extended"
                     [] OTHER -> cwd[w].form
           d == [layer |-> l, at |-> pl.at, form |-> form]
<1>1. name \in Places /\ pl \in Places
  BY NamesArePlaces DEF ReverseMap, Places, Virtual, Layers
<1>2. l \in Layers /\ pl.at \in Paths
  BY <1>1, ReadLayerIsLayer, PlaceParts
<1>3. cwd[w].form \in {"plain", "extended"}
  BY DEF TreeInv, TypeOK, CurrentDirs, Unborn, Windows
<1>4. form \in {"plain", "extended"} /\ (l = "real" => form = "plain")
  BY <1>3
<1>5. IsDir(l, pl.at)
  BY OpenFinds DEF SetCurrentDirectoryW, IsDir
<1>6. cwd' = [cwd EXCEPT ![w] = d] /\ UNCHANGED <<tree, filterInputs>>
  BY DEF SetCurrentDirectoryW
<1> HIDE DEF pl, l, form
<1>7. d \in CurrentDirs
  BY <1>2, <1>4 DEF CurrentDirs
<1>8. QED
  BY <1>4, <1>5, <1>6, <1>7, CwdKeepsInv

\* Where a child is sent.
LEMMA WorkingDirectoryTyped ==
  ASSUME TreeInv, NEW w \in Procs, cwd[w] # Unborn, NEW dir \in Named(w) \cup {Inherit}
  PROVE  LET d == ResolveOverlayWorkingDirectory(w, dir)
         IN  /\ d \in CurrentDirs \cup {Windows}
             /\ d.layer = "real" => d.form = "plain"
<1>1. cwd[w] \in CurrentDirs \cup {Windows} /\ cwd[w].form \in {"plain", "extended"}
  BY DEF TreeInv, TypeOK, CurrentDirs, Unborn, Windows
<1>2. cwd[w].layer = "real" => cwd[w].form = "plain"
  BY DEF TreeInv, RealIsPlain
<1>3. \A p \in Paths : /\ PlainOverlayChildPath(p) \in CurrentDirs
                       /\ PlainOverlayChildPath(p).layer = "back"
  BY DEF PlainOverlayChildPath, CurrentDirs, Layers
<1>4. CASE dir = Inherit
  <2>1. ResolveOverlayWorkingDirectory(w, dir) =
          IF cwd[w].layer = "back" THEN PlainOverlayChildPath(cwd[w].at) ELSE cwd[w]
    BY <1>4 DEF ResolveOverlayWorkingDirectory, InheritedOverlayWorkingDirectory
  <2>2. cwd[w].layer = "back" => cwd[w].at \in Paths
    BY <1>1 DEF CurrentDirs, Windows
  <2>3. QED
    BY <1>1, <1>2, <1>3, <2>1, <2>2
<1>5. CASE dir # Inherit
  <2>1. dir \in Places
    BY <1>5, NamesArePlaces
  <2> DEFINE asNamed == [layer |-> dir.layer, at |-> dir.at,
                         form |-> IF dir.layer = "back" THEN cwd[w].form ELSE "plain"]
  <2>2. ResolveOverlayWorkingDirectory(w, dir) =
          IF OpensBacking(dir, FALSE, "OPEN_EXISTING")
          THEN PlainOverlayChildPath(dir.at) ELSE asNamed
    BY <1>5 DEF ResolveOverlayWorkingDirectory
  <2>3. asNamed \in CurrentDirs /\ (asNamed.layer = "real" => asNamed.form = "plain")
    BY <1>1, <2>1, PlaceParts DEF CurrentDirs
  <2>4. QED
    BY <1>3, <2>1, <2>2, <2>3, PlaceParts
<1>6. QED
  BY <1>4, <1>5

LEMMA CreateProcessKeeps ==
  ASSUME TreeInv, NEW w \in Procs, NEW child \in Procs, NEW dir \in Named(w) \cup {Inherit},
         NEW isCmd \in BOOLEAN, CreateProcessW(w, child, dir, isCmd)
  PROVE  TreeInv'
<1> DEFINE d == ResolveOverlayWorkingDirectory(w, dir)
           e == ChildDirectory(w, dir, isCmd)
<1>1. d \in CurrentDirs \cup {Windows} /\ (d.layer = "real" => d.form = "plain")
  BY WorkingDirectoryTyped DEF CreateProcessW
<1>2. PICK image \in Named(w) : ChildStarts(w, image, dir)
  BY DEF CreateProcessW
<1>3. d.layer = "windows" \/ IsDir(d.layer, d.at)
  BY <1>2 DEF ChildStarts
<1>4. e = Windows \/ e = d
  BY DEF ChildDirectory
<1>5. cwd' = [cwd EXCEPT ![child] = e] /\ UNCHANGED <<tree, filterInputs>>
  BY DEF CreateProcessW
<1> HIDE DEF d, e
<1>6. e \in CurrentDirs \cup {Unborn, Windows} /\ (e.layer = "real" => e.form = "plain")
  BY <1>1, <1>4 DEF Windows
<1>7. e.layer \in Layers => IsDir(e.layer, e.at)
  BY <1>3, <1>4 DEF Windows, Layers
<1>8. QED
  BY <1>5, <1>6, <1>7, CwdKeepsInv

LEMMA ExitProcessKeeps ==
  ASSUME TreeInv, NEW w \in Procs, ExitProcess(w)
  PROVE  TreeInv'
<1>1. Unborn.layer \notin Layers
  BY DEF Unborn, Layers
<1>2. QED
  BY <1>1, CwdKeepsInv DEF ExitProcess, Layers

LEMMA TreeInit == Init => TreeInv
<1> SUFFICES ASSUME Init
             PROVE  TreeInv
  OBVIOUS
<1>1. PICK t \in Disks : tree = [l \in Layers |-> IF l = "real" THEN t ELSE BareRoot]
  BY DEF Init
<1>2. t \in [Paths -> Types] /\ WellFormed(t)
  BY DisksAssumption
<1>3. BareRoot \in [Paths -> Types] /\ WellFormed(BareRoot)
  <2>1. \A p \in Paths : BareRoot[p] # "none" => p = << >> /\ Parent(p) = << >>
    BY ParentAbove DEF BareRoot
  <2>2. BareRoot[<< >>] = "dir"
    BY PathsAssumption DEF BareRoot
  <2>3. QED
    BY <2>1, <2>2 DEF BareRoot, WellFormed, Types
<1>4. tree \in [Layers -> [Paths -> Types]] /\ \A l \in Layers : WellFormed(tree[l])
  BY <1>1, <1>2, <1>3
<1>5. cwd = [w \in Procs |-> IF w = Root THEN [Unborn EXCEPT !.layer = "real"] ELSE Unborn]
  BY DEF Init
<1>6. /\ [Unborn EXCEPT !.layer = "real"] \in CurrentDirs
      /\ [Unborn EXCEPT !.layer = "real"].layer = "real"
      /\ [Unborn EXCEPT !.layer = "real"].at = << >>
      /\ [Unborn EXCEPT !.layer = "real"].form = "plain"
  BY PathsAssumption DEF Unborn, CurrentDirs, Layers
<1>7. tree["real"][<< >>] = "dir"
  BY <1>4 DEF Layers, WellFormed
<1>8. \A w \in Procs : cwd[w].layer \in Layers => IsDir(cwd[w].layer, cwd[w].at)
  BY <1>5, <1>6, <1>7 DEF IsDir, Unborn, Layers
<1>9. cwd \in [Procs -> CurrentDirs \cup {Unborn, Windows}]
  BY <1>5, <1>6
<1>10. RealIsPlain
  BY <1>5, <1>6 DEF RealIsPlain, Unborn
<1>11. QED
  BY <1>4, <1>8, <1>9, <1>10 DEF TreeInv, TypeOK, Init

LEMMA TreeStep == TreeInv /\ [Next]_vars => TreeInv'
<1> SUFFICES ASSUME TreeInv, [Next]_vars
             PROVE  TreeInv'
  OBVIOUS
<1>1. CASE FileCalls
  <2>1. CASE \E name \in Names : CreateDirectoryW(name) \/ RemoveDirectoryW(name)
    BY <2>1, NamesArePlaces, CreateDirectoryKeeps, RealRemoveKeeps DEF RemoveDirectoryW
  <2>2. CASE \E pl \in MappedNames :
               \/ \E disp \in Dispositions : CreateFileW(pl, disp)
               \/ DeleteFileW(pl) \/ DeleteUsingSetFileInformationByHandle(pl)
    BY <2>2, NamesArePlaces, CreateFileKeeps, DeleteFileKeeps, HandleDeleteKeeps
  <2>3. CASE \E pl \in MappedNames :
               \/ \E dst \in MappedNames :
                    MoveDirectory(pl, dst) \/ MoveFileWithProgress(pl, dst)
               \/ \E name \in Names : RenameUsingSetFileInformationByHandle(pl, name)
    BY <2>3, NamesArePlaces, MoveDirectoryKeeps, MoveFileKeeps, HandleRenameKeeps
  <2>4. QED
    BY <1>1, <2>1, <2>2, <2>3 DEF FileCalls
<1>2. ASSUME NEW w \in Procs, ProcessCalls(w)
      PROVE  TreeInv'
  BY <1>2, SetCurrentDirectoryKeeps, CreateProcessKeeps, ExitProcessKeeps DEF ProcessCalls
<1>3. CASE UNCHANGED vars
  BY <1>3 DEF vars, TreeInv, TypeOK, RealIsPlain, IsDir, WellFormed
<1>4. QED
  BY <1>1, <1>2, <1>3 DEF Next

\* Both trees are trees, every process is in a directory that is there, and only a
\* current directory in the backing store is in the extended form, whatever
\* names the hooks were called with (overlay_engine.cpp:251-267, 549-629).
THEOREM TreeInvariant == Spec => []TreeInv
BY TreeInit, TreeStep, PTL DEF Spec

\* The same for the types: no hook leaves a file with something below it, in
\* either layer, or a process in a directory that is gone.
THEOREM TreesStayTrees == Spec => []TypeOK
<1>1. TreeInv => TypeOK
  BY DEF TreeInv
<1>2. QED
  BY <1>1, TreeInvariant, PTL

-----------------------------------------------------------------------------
(* Names                                                                   *)

\* The virtual path is not mapped.
LEMMA VirtualPlace ==
  ASSUME NEW p \in Paths
  PROVE  /\ Virtual(p) \in Places /\ ReverseMap(Virtual(p)) = Virtual(p)
         /\ Virtual(p).layer = "real" /\ Virtual(p).at = p
BY DEF Virtual, Places, Layers, ReverseMap

\* A place in the backing store is mapped when nothing is there.
LEMMA Mapping ==
  ASSUME NEW p \in Paths, NEW pl \in Places, pl.at = p
  PROVE  \/ ReverseMap(pl) = Virtual(p)
         \/ ReverseMap(pl) = pl /\ pl.layer = "back" /\ Present("back", p)
<1>1. CASE pl.layer = "real"
  BY <1>1 DEF Virtual, Places, Layers, ReverseMap
<1>2. CASE pl.layer = "back"
  BY <1>2 DEF Places, Layers, ReverseMap
<1>3. QED
  BY <1>1, <1>2 DEF Places, Layers

\* Which layer an open for reading, or a probe, of the virtual path goes to.
LEMMA VirtualLayers ==
  ASSUME NEW p \in Paths
  PROVE  /\ ReadLayer(Virtual(p)) =
              IF /\ Kind[p] = "scratch" /\ ~IsDir("real", p)
                 /\ Present("back", p) \/ OverlayOnly(Parent(p))
              THEN "back" ELSE "real"
         /\ Redirect(Virtual(p), ProbesBacking(Virtual(p))) =
              IF Kind[p] = "scratch" /\ Present("back", p) THEN "back" ELSE "real"
BY VirtualPlace DEF ReadLayer, Redirect, OpensBacking, ProbesBacking, ShouldRedirectToOverlay

\* What the tool is told is what is there, unless reading it is denied.
LEMMA OutcomeMeans ==
  ASSUME TypeOK, NEW l \in Layers, NEW p \in Paths, NEW pl \in Places
  PROVE  /\ Found(RealOutcome(l, p)) <=> Present(l, p)
         /\ Present(l, p) => RealOutcome(l, p) = tree[l][p]
         /\ RealOutcome(l, p) = "path not found" <=> ~Present(l, p) /\ ~IsDir(l, Parent(p))
         /\ tree[l][p] \in Types
         /\ \A o : Masked(pl, o) = o \/ Masked(pl, o) = "name not found"
         /\ Masked(pl, "dir") = "dir"
<1>1. tree[l][p] \in Types
  BY DEF TypeOK
<1>2. /\ Found(RealOutcome(l, p)) <=> Present(l, p)
      /\ Present(l, p) => RealOutcome(l, p) = tree[l][p]
      /\ RealOutcome(l, p) = "path not found" <=> ~Present(l, p) /\ ~IsDir(l, Parent(p))
  BY <1>1 DEF Found, RealOutcome, Present, Types
<1>3. /\ \A o : Masked(pl, o) = o \/ Masked(pl, o) = "name not found"
      /\ Masked(pl, "dir") = "dir"
  BY DEF Masked, CheckReadAccess
<1>4. QED
  BY <1>1, <1>2, <1>3

\* What is in the backing store may be read, by either name.
LEMMA BackReadable ==
  ASSUME TypeOK, NEW pl \in Places, Present("back", pl.at),
         pl.layer = "back" \/ Kind[pl.at] = "scratch"
  PROVE  Masked(pl, tree["back"][pl.at]) = tree["back"][pl.at]
<1>1. tree["back"][pl.at] \in {"dir", "file"}
  BY PlaceParts DEF TypeOK, Types, Present, Layers
<1>2. pl.layer \in {"real", "back"}
  BY DEF Places, Layers
<1>3. CheckReadAccess(pl, tree["back"][pl.at])
  BY <1>1, <1>2 DEF CheckReadAccess, AllowRead, ShouldRedirectToOverlay
<1>4. QED
  BY <1>3 DEF Masked

\* The two names of a scratch path, when something is in the backing store.
LEMMA BackFound ==
  ASSUME TypeOK, NEW p \in Paths, Kind[p] = "scratch", Present("back", p),
         NEW pl \in Places, pl.at = p, ReverseMap(pl) = pl, ~Clash(p)
  PROVE  OpenForRead(pl) = tree["back"][p] /\ Probe(pl) = tree["back"][p]
<1>1. tree["back"][p] \in {"dir", "file"} /\ tree["real"][p] \in Types
  BY DEF TypeOK, Types, Present, Layers
<1>2. Masked(pl, tree["back"][p]) = tree["back"][p]
  BY BackReadable
<1>3. RealOutcome("back", p) = tree["back"][p]
  BY DEF RealOutcome
<1>4. pl = Virtual(p) \/ (pl.layer = "back" /\ ReadLayer(pl) = "back"
                          /\ Redirect(pl, ProbesBacking(pl)) = "back")
  <2>1. CASE pl.layer = "back"
    BY <2>1 DEF ReadLayer, Redirect, OpensBacking, ProbesBacking, ShouldRedirectToOverlay
  <2>2. CASE pl.layer = "real"
    BY <2>2, VirtualPlace DEF Virtual, Places
  <2>3. QED
    BY <2>1, <2>2 DEF Places, Layers
<1>5. Redirect(pl, ProbesBacking(pl)) = "back"
  BY <1>4, VirtualLayers
<1>6. Probe(pl) = tree["back"][p]
  BY <1>2, <1>3, <1>5 DEF Probe
<1>7. RealOutcome(ReadLayer(pl), p) = tree["back"][p]
  <2>1. CASE ReadLayer(pl) = "back"
    BY <1>3, <2>1
  <2>2. CASE ReadLayer(pl) # "back"
    <3>1. ReadLayer(pl) = "real" /\ IsDir("real", p)
      BY <1>4, <2>2, VirtualLayers
    <3>2. QED
      BY <1>1, <3>1 DEF Clash, Present, IsDir, RealOutcome
  <2>3. QED
    BY <2>1, <2>2
<1>8. OpenForRead(pl) = tree["back"][p]
  BY <1>2, <1>7 DEF OpenForRead
<1>9. QED
  BY <1>6, <1>8

\* In a process whose current directory is a scratch directory a relative name
\* denotes what the absolute one does (overlay_engine.cpp:98-248).
THEOREM RelativeNamesAgree == Spec => []NamesAgree
<1>1. TreeInv => NamesAgree
  <2> SUFFICES ASSUME TreeInv, NEW w \in Procs, NEW pl \in Named(w),
                      Kind[pl.at] = "scratch", ~Clash(pl.at)
               PROVE  /\ OpenForRead(pl) = OpenForRead(Virtual(pl.at))
                      /\ Found(Probe(pl)) = Found(Probe(Virtual(pl.at)))
    BY DEF NamesAgree
  <2>1. TypeOK /\ pl \in Places /\ pl.at \in Paths
    BY NamesArePlaces, PlaceParts DEF TreeInv
  <2>2. ReverseMap(Virtual(pl.at)) = Virtual(pl.at) /\ Virtual(pl.at) \in Places
        /\ Virtual(pl.at).at = pl.at
    BY <2>1, VirtualPlace
  <2>3. CASE ReverseMap(pl) = Virtual(pl.at)
    BY <2>2, <2>3 DEF OpenForRead, Probe
  <2>4. CASE ReverseMap(pl) = pl /\ Present("back", pl.at)
    <3>1. /\ OpenForRead(pl) = tree["back"][pl.at]
          /\ Probe(pl) = tree["back"][pl.at]
      BY <2>1, <2>4, BackFound
    <3>2. /\ OpenForRead(Virtual(pl.at)) = tree["back"][pl.at]
          /\ Probe(Virtual(pl.at)) = tree["back"][pl.at]
      BY <2>1, <2>2, <2>4, BackFound
    <3>3. QED
      BY <3>1, <3>2
  <2>5. QED
    BY <2>1, <2>3, <2>4, Mapping
<1>2. QED
  BY <1>1, TreeInvariant, PTL

\* A probe and an open of one name agree on what is there (overlay_engine.cpp:377-523,
\* 709-728).
THEOREM StatAgrees == Spec => []StatAgreesWithOpen
<1>1. TreeInv => StatAgreesWithOpen
  <2> SUFFICES ASSUME TreeInv, NEW w \in Procs, NEW pl \in Named(w),
                      Kind[pl.at] = "scratch", ~Clash(pl.at)
               PROVE  /\ Found(Probe(pl)) = Found(OpenForRead(pl))
                      /\ Found(Probe(pl)) => Probe(pl) = OpenForRead(pl)
    BY DEF StatAgreesWithOpen
  <2>1. TypeOK /\ pl \in Places /\ pl.at \in Paths
    BY NamesArePlaces, PlaceParts DEF TreeInv
  <2> DEFINE v == Virtual(pl.at)
  <2>2. ReverseMap(v) = v /\ v \in Places /\ v.at = pl.at
    BY <2>1, VirtualPlace
  <2>3. CASE Present("back", pl.at)
    <3>1. CASE ReverseMap(pl) = pl
      BY <2>1, <2>3, <3>1, BackFound
    <3>2. CASE ReverseMap(pl) = v
      <4>1. OpenForRead(v) = tree["back"][pl.at] /\ Probe(v) = tree["back"][pl.at]
        BY <2>1, <2>2, <2>3, BackFound
      <4>2. OpenForRead(pl) = OpenForRead(v) /\ Probe(pl) = Probe(v)
        BY <2>2, <3>2 DEF OpenForRead, Probe
      <4>3. QED
        BY <4>1, <4>2
    <3>3. QED
      BY <2>1, <3>1, <3>2, Mapping
  <2>4. CASE ~Present("back", pl.at)
    <3>1. ReverseMap(pl) = v
      BY <2>1, <2>4, Mapping
    <3>2. /\ Probe(pl) = Masked(v, RealOutcome("real", pl.at))
          /\ OpenForRead(pl) = Masked(v, RealOutcome(ReadLayer(v), pl.at))
      BY <2>1, <2>2, <2>4, <3>1, VirtualLayers DEF Probe, OpenForRead
    <3>3. CASE ReadLayer(v) = "real"
      BY <3>2, <3>3
    <3>4. CASE ReadLayer(v) # "real"
      <4>1. ReadLayer(v) = "back" /\ ~Present("real", Parent(pl.at))
        BY <2>1, <2>4, <3>4, VirtualLayers DEF OverlayOnly
      <4>2. ~Present("real", pl.at)
        BY <2>1, <4>1 DEF TypeOK, WellFormed, Present, Layers
      <4>3. ~Found(RealOutcome("real", pl.at)) /\ ~Found(RealOutcome("back", pl.at))
            /\ \A o : Masked(v, o) = o \/ Masked(v, o) = "name not found"
        BY <2>1, <2>2, <2>4, <4>2, OutcomeMeans DEF Layers
      <4>4. ~Found(Probe(pl)) /\ ~Found(OpenForRead(pl))
        BY <3>2, <4>1, <4>3 DEF Found
      <4>5. QED
        BY <4>4 DEF Found
    <3>5. QED
      BY <3>3, <3>4
  <2>5. QED
    BY <2>3, <2>4
<1>2. QED
  BY <1>1, TreeInvariant, PTL

\* What is missing from a directory the tool can see is a missing leaf, never a
\* missing directory (overlay_engine.cpp:488-520).
THEOREM LeavesGoMissing == Spec => []MissingLeaf
<1>1. TreeInv => MissingLeaf
  <2> SUFFICES ASSUME TreeInv, NEW p \in Paths, Kind[p] = "scratch", ~Clash(Parent(p)),
                      OpenForRead(Virtual(Parent(p))) = "dir",
                      OpenForRead(Virtual(p)) = "path not found"
               PROVE  FALSE
    BY DEF MissingLeaf
  <2> DEFINE q == Parent(p)
             l == ReadLayer(Virtual(p))
  <2>1. TypeOK /\ q \in Paths
    BY ParentAbove DEF TreeInv
  <2>2. tree[ReadLayer(Virtual(q))][q] = "dir"
    <3>1. ReverseMap(Virtual(q)) = Virtual(q) /\ Virtual(q).at = q
      BY <2>1, VirtualPlace
    <3>2. QED
      BY <3>1, OpenFinds
  <2>3. l \in Layers /\ OpenForRead(Virtual(p)) = Masked(Virtual(p), RealOutcome(l, p))
    BY VirtualPlace, ReadLayerIsLayer DEF OpenForRead
  <2>4. ~Present(l, p) /\ ~IsDir(l, q)
    <3>1. RealOutcome(l, p) = "path not found"
      BY <2>3 DEF Masked
    <3> HIDE DEF l
    <3>2. RealOutcome(l, p) = "path not found" <=> ~Present(l, p) /\ ~IsDir(l, q)
      BY <2>1, <2>3, VirtualPlace, OutcomeMeans
    <3>3. QED
      BY <3>1, <3>2
  <2>5. l = IF ~IsDir("real", p) /\ (Present("back", p) \/ OverlayOnly(q))
            THEN "back" ELSE "real"
    BY VirtualLayers
  <2>6. ReadLayer(Virtual(q)) \in {"real", "back"}
    BY <2>1, VirtualPlace, ReadLayerIsLayer DEF Layers
  <2>7. QED
    BY <2>2, <2>4, <2>5, <2>6 DEF Present, IsDir, OverlayOnly, Clash
<1>2. QED
  BY <1>1, TreeInvariant, PTL

\* The current directory a process is told about leads back to the directory it
\* is in (overlay_engine.cpp:98-248, DetouredFunctions.cpp:1975-2032).
THEOREM CwdLeadsBack == Spec => []ReportedCwdLeadsBack
<1>1. TreeInv => ReportedCwdLeadsBack
  <2> SUFFICES ASSUME TreeInv, NEW w \in Procs, cwd[w].layer \in Layers,
                      Kind[cwd[w].at] = "scratch"
               PROVE  /\ OpenForRead(Virtual(cwd[w].at)) = "dir"
                      /\ ReadLayer(Virtual(cwd[w].at)) = "back" => cwd[w].layer = "back"
    BY DEF ReportedCwdLeadsBack, ReportedCurrentDirectory
  <2> DEFINE p == cwd[w].at
             l == ReadLayer(Virtual(p))
  <2>1. p \in Paths /\ IsDir(cwd[w].layer, p) /\ TypeOK
    BY TypesSound DEF TreeInv, TypeOK, CwdTyped
  <2>2. OpenForRead(Virtual(p)) = Masked(Virtual(p), RealOutcome(l, p))
    BY <2>1, VirtualPlace DEF OpenForRead
  <2>3. l = IF ~IsDir("real", p) /\ (Present("back", p) \/ OverlayOnly(Parent(p)))
            THEN "back" ELSE "real"
    BY <2>1, VirtualLayers
  <2>4. IsDir(l, p) /\ (l = "back" => cwd[w].layer = "back")
    BY <2>1, <2>3 DEF IsDir, Present, Layers
  <2>5. Masked(Virtual(p), RealOutcome(l, p)) = "dir"
    BY <2>4 DEF IsDir, RealOutcome, Present, Masked, CheckReadAccess
  <2>6. QED
    BY <2>2, <2>4, <2>5
<1>2. QED
  BY <1>1, TreeInvariant, PTL

\* A child can be started from every file the tool can read and in every directory
\* it can see or is in, and starts there (overlay_engine.cpp:525-629).
THEOREM ChildrenStart == Spec => []ChildStartsWhereAsked
<1>1. TreeInv => ChildStartsWhereAsked
  <2> SUFFICES ASSUME TreeInv, NEW w \in Procs, NEW image \in Paths, NEW p \in Paths,
                      NEW isCmd \in BOOLEAN, OpenForRead(Virtual(image)) = "file"
               PROVE  /\ OpenForRead(Virtual(p)) = "dir" =>
                           /\ ChildStarts(w, Virtual(image), Virtual(p))
                           /\ p \notin LongPaths =>
                                /\ ChildDirectory(w, Virtual(p), isCmd).at = p
                                /\ ChildDirectory(w, Virtual(p), isCmd) # Windows
                      /\ cwd[w].layer \in Layers =>
                           /\ ChildStarts(w, Virtual(image), Inherit)
                           /\ cwd[w].at \notin LongPaths =>
                                /\ ChildDirectory(w, Inherit, isCmd).layer = cwd[w].layer
                                /\ ChildDirectory(w, Inherit, isCmd).at = cwd[w].at
    BY DEF ChildStartsWhereAsked
  <2>1. ImageLoads(Virtual(image))
    <3>1. /\ tree[ReadLayer(Virtual(image))][image] = "file"
          /\ CheckReadAccess(Virtual(image), "file")
      BY OpenFinds, VirtualPlace
    <3>2. RealOutcome(ReadLayer(Virtual(image)), image) = "file"
      BY <3>1 DEF RealOutcome, Present
    <3>3. QED
      BY <3>1, <3>2, VirtualPlace DEF ImageLoads, ReadLayer
  <2>2. ASSUME OpenForRead(Virtual(p)) = "dir"
        PROVE  /\ ChildStarts(w, Virtual(image), Virtual(p))
               /\ p \notin LongPaths =>
                    /\ ChildDirectory(w, Virtual(p), isCmd).at = p
                    /\ ChildDirectory(w, Virtual(p), isCmd) # Windows
    <3> DEFINE d == ResolveOverlayWorkingDirectory(w, Virtual(p))
    <3>1. IsDir(ReadLayer(Virtual(p)), p)
      BY <2>2, OpenFinds, VirtualPlace DEF IsDir
    <3>2. Virtual(p) # Inherit
      BY DEF Virtual, Inherit
    <3>3. d = IF OpensBacking(Virtual(p), FALSE, "OPEN_EXISTING")
              THEN PlainOverlayChildPath(p)
              ELSE [layer |-> "real", at |-> p, form |-> "plain"]
      BY <3>2, VirtualPlace DEF ResolveOverlayWorkingDirectory
    <3>4. d.layer = ReadLayer(Virtual(p)) /\ d.at = p
          /\ (p \notin LongPaths => d.form = "plain")
      <4>1. ReadLayer(Virtual(p)) = IF OpensBacking(Virtual(p), FALSE, "OPEN_EXISTING")
                                    THEN "back" ELSE "real"
        BY VirtualPlace DEF ReadLayer, Redirect
      <4>2. CASE OpensBacking(Virtual(p), FALSE, "OPEN_EXISTING")
        BY <3>3, <4>1, <4>2 DEF PlainOverlayChildPath
      <4>3. CASE ~OpensBacking(Virtual(p), FALSE, "OPEN_EXISTING")
        BY <3>3, <4>1, <4>3
      <4>4. QED
        BY <4>2, <4>3
    <3>5. d.layer \in {"real", "back"}
      BY <3>3 DEF PlainOverlayChildPath
    <3> HIDE DEF d
    <3>6. ChildStarts(w, Virtual(image), Virtual(p))
      BY <2>1, <3>1, <3>4 DEF ChildStarts, d
    <3>7. p \notin LongPaths => ChildDirectory(w, Virtual(p), isCmd) = d
      BY <3>4 DEF ChildDirectory, d
    <3>8. d # Windows
      BY <3>5 DEF Windows
    <3>9. QED
      BY <3>4, <3>6, <3>7, <3>8
  <2>3. ASSUME cwd[w].layer \in Layers
        PROVE  /\ ChildStarts(w, Virtual(image), Inherit)
               /\ cwd[w].at \notin LongPaths =>
                    /\ ChildDirectory(w, Inherit, isCmd).layer = cwd[w].layer
                    /\ ChildDirectory(w, Inherit, isCmd).at = cwd[w].at
    <3> DEFINE d == ResolveOverlayWorkingDirectory(w, Inherit)
    <3>1. IsDir(cwd[w].layer, cwd[w].at)
      BY <2>3 DEF TreeInv, TypeOK
    <3>2. d = IF cwd[w].layer = "back" THEN PlainOverlayChildPath(cwd[w].at) ELSE cwd[w]
      BY DEF ResolveOverlayWorkingDirectory, InheritedOverlayWorkingDirectory
    <3>3. d.layer = cwd[w].layer /\ d.at = cwd[w].at
      BY <3>2 DEF PlainOverlayChildPath
    <3>4. cwd[w].at \notin LongPaths => d.form = "plain"
      <4>1. cwd[w].layer = "real" => cwd[w].form = "plain"
        BY DEF TreeInv, RealIsPlain
      <4>2. QED
        BY <2>3, <3>2, <4>1 DEF PlainOverlayChildPath, Layers
    <3> HIDE DEF d
    <3>5. ChildStarts(w, Virtual(image), Inherit)
      BY <2>1, <3>1, <3>3 DEF ChildStarts, d
    <3>6. cwd[w].at \notin LongPaths => ChildDirectory(w, Inherit, isCmd) = d
      BY <3>4 DEF ChildDirectory, d
    <3>7. QED
      BY <3>3, <3>5, <3>6
  <2>4. QED
    BY <2>2, <2>3
<1>2. QED
  BY <1>1, TreeInvariant, PTL

-----------------------------------------------------------------------------
(* The real tree                                                           *)

\* What is declared below an output is an output.
OutputsAreCones ==
    \A p \in Paths : \A q \in Above[p] : Kind[q] = "output" => Kind[p] = "output"

\* Nothing but outputs differs from the real tree as it is.
OutputsOnly(u) ==
    \A p \in Paths : Kind[p] # "output" => u[p] = tree["real"][p]

LEMMA TouchesOutputs ==
  ASSUME TypeOK, NEW u, OutputsOnly(u["real"]), tree' = u
  PROVE  \A p \in Paths : Kind[p] # "output" => tree'["real"][p] = tree["real"][p]
BY DEF OutputsOnly

\* Where a place that may be written, and is not redirected, can be.
LEMMA WritableReal ==
  ASSUME NEW pl \in Places, AllowWrite(pl), pl.layer = "real", ~ShouldRedirectToOverlay(pl)
  PROVE  Kind[pl.at] = "output"
BY PathsAssumption, PlaceParts DEF AllowWrite, ShouldRedirectToOverlay, Kinds

\* A move changes what is at and below its two ends.
LEMMA MoveTouches ==
  ASSUME OutputsAreCones, NEW t, t \in [Layers -> [Paths -> Types]], OutputsOnly(t["real"]),
         NEW ls \in Layers, NEW ld \in Layers, NEW s \in Paths, NEW d \in Paths,
         ls = "real" => Kind[s] = "output",
         ld = "real" => Kind[d] = "output"
  PROVE  OutputsOnly(RealMove(t, ls, s, ld, d)["real"])
<1> DEFINE g == [t EXCEPT ![ld] = Grafted(t[ls], s, t[ld], d)]
           h == [g EXCEPT ![ls] = Pruned(g[ls], s)]
<1>1. \A p, q \in Paths : q \in Upwards[p] /\ Kind[q] = "output" => Kind[p] = "output"
  BY DEF OutputsAreCones, Upwards
<1>2. OutputsOnly(g["real"])
  <2>1. CASE ld = "real"
    <3>1. \A p \in Paths : Kind[p] # "output" =>
            Grafted(t[ls], s, t["real"], d)[p] = t["real"][p]
      BY <1>1, <2>1 DEF Grafted
    <3>2. g["real"] = Grafted(t[ls], s, t["real"], d)
      BY <2>1 DEF Layers
    <3>3. QED
      BY <3>1, <3>2 DEF OutputsOnly
  <2>2. CASE ld # "real"
    <3>1. g["real"] = t["real"]
      BY <2>2 DEF Layers
    <3>2. QED
      BY <3>1
  <2>3. QED
    BY <2>1, <2>2
<1>3. ls \in DOMAIN g /\ "real" \in DOMAIN g
  BY DEF Layers
<1> HIDE DEF g
<1>4. OutputsOnly(h["real"])
  <2>1. CASE ls = "real"
    <3>1. \A p \in Paths : Kind[p] # "output" => Pruned(g["real"], s)[p] = g["real"][p]
      BY <1>1, <2>1 DEF Pruned
    <3>2. h["real"] = Pruned(g["real"], s)
      BY <1>3, <2>1
    <3>3. QED
      BY <1>2, <3>1, <3>2 DEF OutputsOnly
  <2>2. CASE ls # "real"
    <3>1. h["real"] = g["real"]
      BY <1>3, <2>2
    <3>2. QED
      BY <1>2, <3>1
  <2>3. QED
    BY <2>1, <2>2
<1>5. RealMove(t, ls, s, ld, d) = h \/ RealMove(t, ls, s, ld, d) = t
  BY DEF RealMove, h, g
<1> HIDE DEF h
<1>6. QED
  BY <1>4, <1>5

LEMMA PreparedReal ==
  ASSUME NEW t, t \in [Layers -> [Paths -> Types]], NEW dst
  PROVE  Prepared(t, dst)["real"] = t["real"]
BY DEF Prepared, Layers

\* A removal that the overlay passes through to the real disk is of an output.
LEMMA RemovalOfOutput ==
  ASSUME NEW pl \in Places, AllowWrite(pl), Removes(pl), RemovalLayer(pl) = "real",
         Present("real", pl.at)
  PROVE  Kind[pl.at] = "output"
<1>1. pl.layer = "real" /\ DeleteAction(pl) # "RedirectToBacking"
  BY DEF RemovalLayer, Redirect
<1>2. DeleteAction(pl) = "PassThrough"
  BY <1>1 DEF Removes
<1>3. ~ShouldRedirectToOverlay(pl)
  BY <1>2 DEF DeleteAction
<1>4. QED
  BY <1>1, <1>3, WritableReal

\* A handle that leaves a place on the real disk is on an output, or on a real
\* directory of which the overlay says that it is not there.
LEMMA HeldReal ==
  ASSUME TypeOK, NEW pl \in Places, AllowWrite(pl), MayActThrough(Held(pl))
  PROVE  /\ Held(pl).layer = "real" => Kind[pl.at] = "output" \/ HiddenDirectory(pl)
         /\ OpenedForDelete(pl)["real"] = tree["real"]
<1>1. Held(pl).layer = WriteLayer(pl, "OPEN_EXISTING") /\ Held(pl).at = pl.at
  BY DEF Held
<1>2. ASSUME Held(pl).layer = "real", Kind[pl.at] # "output"
      PROVE  HiddenDirectory(pl)
  <2>1. pl.layer = "real" /\ ~OpensBacking(pl, TRUE, "OPEN_EXISTING")
    BY <1>1, <1>2 DEF WriteLayer, Redirect
  <2>2. ShouldRedirectToOverlay(pl)
    BY <1>2, <2>1, WritableReal
  <2>3. IsDir("real", pl.at)
    BY <2>1, <2>2 DEF OpensBacking
  <2>4. Held(pl) = pl
    BY <1>1, <1>2, <2>1 DEF Held, Places
  <2>5. OverlayRealFileHiddenByFilter(pl.at)
    BY <2>2, <2>3, <2>4 DEF MayActThrough, DeleteAction, IsDir, Present
  <2>6. QED
    BY <2>1, <2>3, <2>5 DEF HiddenDirectory
<1>3. OpenedForDelete(pl)["real"] = tree["real"]
  <2>1. CASE Held(pl).layer = "real"
    <3>1. pl.layer = "real" /\ ~OpensBacking(pl, TRUE, "OPEN_EXISTING")
      BY <1>1, <2>1 DEF WriteLayer, Redirect
    <3>2. Opened(pl, "OPEN_EXISTING") = tree["real"]
      BY <3>1 DEF Opened
    <3>3. QED
      BY <2>1, <3>2 DEF OpenedForDelete, TypeOK, Layers
  <2>2. CASE Held(pl).layer # "real"
    BY <2>2 DEF OpenedForDelete, TypeOK, Layers
  <2>3. QED
    BY <2>1, <2>2
<1>4. QED
  BY <1>2, <1>3

LEMMA FileCallsTouch ==
  ASSUME TreeInv, OutputsAreCones, FileCalls, ~PassesOverlayBy
  PROVE  \A p \in Paths : Kind[p] # "output" => tree'["real"][p] = tree["real"][p]
<1>1. TypeOK /\ tree \in [Layers -> [Paths -> Types]]
  BY DEF TreeInv, TypeOK
<1>2. ASSUME NEW pl \in Places, AllowWrite(pl), NEW l \in Layers, NEW u \in [Paths -> Types],
             tree' = [tree EXCEPT ![l] = u], l = "real" => pl.layer = "real",
             l = "real" => ~ShouldRedirectToOverlay(pl),
             \A q \in Paths : q # pl.at => u[q] = tree[l][q]
      PROVE  \A p \in Paths : Kind[p] # "output" => tree'["real"][p] = tree["real"][p]
  <2>1. l = "real" => Kind[pl.at] = "output"
    BY <1>2, WritableReal
  <2>2. QED
    BY <1>1, <1>2, <2>1 DEF Layers
<1>3. ASSUME NEW pl \in Places, CreateDirectoryW(pl)
      PROVE  \A p \in Paths : Kind[p] # "output" => tree'["real"][p] = tree["real"][p]
  <2>1. CASE ShouldRedirectToOverlay(pl)
    BY <1>1, <1>3, <2>1 DEF CreateDirectoryW, SetTree, Layers
  <2>2. CASE ~ShouldRedirectToOverlay(pl)
    <3> DEFINE u == Put(tree[pl.layer], pl.at, "dir")
    <3>1. AllowWrite(pl) /\ tree' = [tree EXCEPT ![pl.layer] = u]
      BY <1>3, <2>2 DEF CreateDirectoryW, SetTree
    <3>2. u \in [Paths -> Types] /\ \A q \in Paths : q # pl.at => u[q] = tree[pl.layer][q]
      BY <1>1, PlaceParts DEF Put, Types
    <3> HIDE DEF u
    <3>3. QED
      BY <1>2, <2>2, <3>1, <3>2, PlaceParts, ZenonT(40)
  <2>3. QED
    BY <2>1, <2>2
<1>4. ASSUME NEW pl \in Places, NEW disp, CreateFileW(pl, disp)
      PROVE  \A p \in Paths : Kind[p] # "output" => tree'["real"][p] = tree["real"][p]
  <2> DEFINE u == Opened(pl, disp)
             l == WriteLayer(pl, disp)
  <2>1. AllowWrite(pl) /\ tree' = [tree EXCEPT ![l] = u]
    BY <1>4 DEF CreateFileW, SetTree
  <2>2. CASE OpensBacking(pl, TRUE, disp)
    <3>1. l # "real"
      BY <2>2 DEF WriteLayer, Redirect
    <3>2. QED
      BY <1>1, <2>1, <3>1 DEF Layers
  <2>3. CASE ~OpensBacking(pl, TRUE, disp) /\ ShouldRedirectToOverlay(pl)
    <3>1. l = "real" /\ Present("real", pl.at)
      BY <2>3 DEF WriteLayer, Redirect, ShouldRedirectToOverlay, OpensBacking, IsDir, Present
    <3>2. u = tree["real"]
      BY <2>3, <3>1 DEF Opened, Put, Present, ShouldRedirectToOverlay
    <3>3. QED
      BY <1>1, <2>1, <3>1, <3>2 DEF Layers
  <2>4. CASE ~OpensBacking(pl, TRUE, disp) /\ ~ShouldRedirectToOverlay(pl)
    <3>1. l = pl.layer
      BY <2>4 DEF WriteLayer, Redirect
    <3>2. u \in [Paths -> Types] /\ \A q \in Paths : q # pl.at => u[q] = tree[pl.layer][q]
      BY <1>1, <2>4, PlaceParts DEF Opened, Put, Types
    <3> HIDE DEF u
    <3>3. QED
      BY <1>2, <2>1, <2>4, <3>1, <3>2, PlaceParts, ZenonT(40)
  <2>5. QED
    BY <2>2, <2>3, <2>4
<1>5. ASSUME NEW pl \in Places, NEW type \in {"dir", "file"}, RealRemove(pl, type)
      PROVE  \A p \in Paths : Kind[p] # "output" => tree'["real"][p] = tree["real"][p]
  <2> DEFINE l == RemovalLayer(pl)
  <2>1. /\ l \in Layers /\ pl.at \in Paths
        /\ tree' = [tree EXCEPT ![l] = [tree[l] EXCEPT ![pl.at] = "none"]]
        /\ AllowWrite(pl) /\ Removes(pl) /\ tree[l][pl.at] = type
    BY <1>5, PlaceParts DEF RealRemove, RemovalLayer, SetTree, Removable
  <2>2. l = "real" => Kind[pl.at] = "output"
    BY <2>1, RemovalOfOutput DEF Present
  <2> HIDE DEF l
  <2>3. QED
    BY <1>1, <2>1, <2>2 DEF Layers
<1>6. ASSUME NEW src \in Places, NEW dst \in Places, MoveFileWithProgress(src, dst)
      PROVE  \A p \in Paths : Kind[p] # "output" => tree'["real"][p] = tree["real"][p]
  <2> DEFINE l == RemovalLayer(src)
             k == Redirect(dst, ShouldRedirectToOverlay(dst))
  <2>1. l \in Layers /\ k \in Layers /\ src.at \in Paths /\ dst.at \in Paths
    BY PlaceParts DEF RemovalLayer, ShouldRedirectToOverlay
  <2>2. /\ AllowWrite(src) /\ AllowWrite(dst) /\ Removes(src) /\ Present(l, src.at)
        /\ tree' = RealMove(Prepared(tree, dst), l, src.at, k, dst.at)
    BY <1>6 DEF MoveFileWithProgress, Prepared
  <2>3. l = "real" => Kind[src.at] = "output"
    BY <2>2, RemovalOfOutput
  <2>4. k = "real" => Kind[dst.at] = "output"
    BY <2>2, WritableReal DEF Redirect
  <2>5. /\ Prepared(tree, dst) \in [Layers -> [Paths -> Types]]
        /\ OutputsOnly(Prepared(tree, dst)["real"])
    BY <1>1, PreparedReal, PreparedSound, TypesSound DEF TreeInv, Sound, OutputsOnly
  <2> HIDE DEF l, k
  <2>6. OutputsOnly(RealMove(Prepared(tree, dst), l, src.at, k, dst.at)["real"])
    BY <2>1, <2>3, <2>4, <2>5, MoveTouches
  <2>7. QED
    BY <1>1, <2>2, <2>6, TouchesOutputs
<1>7. ASSUME NEW pl \in MappedNames, DeleteUsingSetFileInformationByHandle(pl)
      PROVE  \A p \in Paths : Kind[p] # "output" => tree'["real"][p] = tree["real"][p]
  <2> DEFINE l == Held(pl).layer
             t == OpenedForDelete(pl)
  <2>1. /\ AllowWrite(pl) /\ MayActThrough(Held(pl))
        /\ tree' = [t EXCEPT ![l][Held(pl).at] = "none"]
    BY <1>7 DEF DeleteUsingSetFileInformationByHandle
  <2>2. ~HiddenDirectory(pl)
    BY <1>7 DEF PassesOverlayBy
  <2>3. (l = "real" => Kind[pl.at] = "output") /\ t["real"] = tree["real"]
    BY <1>1, <2>1, <2>2, NamesArePlaces, HeldReal
  <2>4. Held(pl).at = pl.at /\ l \in Layers /\ t \in [Layers -> [Paths -> Types]]
    BY NamesArePlaces, OpenedForDeleteSound DEF Sound
  <2> HIDE DEF l, t
  <2>5. QED
    BY <2>1, <2>3, <2>4 DEF Layers
<1>8. ASSUME NEW pl \in MappedNames, NEW dst \in Names,
             RenameUsingSetFileInformationByHandle(pl, dst)
      PROVE  \A p \in Paths : Kind[p] # "output" => tree'["real"][p] = tree["real"][p]
  <2> DEFINE l == Held(pl).layer
             k == Redirect(dst, ShouldRedirectToOverlay(dst))
             t == OpenedForDelete(pl)
  <2>1. pl \in Places /\ dst \in Places
    BY NamesArePlaces
  <2>2. /\ l \in Layers /\ k \in Layers /\ pl.at \in Paths /\ dst.at \in Paths
        /\ Held(pl).at = pl.at /\ Sound(t) /\ t \in [Layers -> [Paths -> Types]]
    BY <2>1, PlaceParts, OpenedForDeleteSound DEF ShouldRedirectToOverlay, Sound
  <2>3. /\ AllowWrite(pl) /\ AllowWrite(dst) /\ MayActThrough(Held(pl))
        /\ tree' = RealMove(Prepared(t, dst), l, pl.at, k, dst.at)
    BY <1>8, <2>2 DEF RenameUsingSetFileInformationByHandle, Prepared
  <2>4. ~HiddenDirectory(pl)
    BY <1>8 DEF PassesOverlayBy
  <2>5. (l = "real" => Kind[pl.at] = "output") /\ t["real"] = tree["real"]
    BY <1>1, <2>1, <2>3, <2>4, HeldReal
  <2>6. k = "real" => Kind[dst.at] = "output"
    BY <2>1, <2>3, WritableReal DEF Redirect
  <2> HIDE DEF l, k, t
  <2>7. Prepared(t, dst) \in [Layers -> [Paths -> Types]]
    BY <2>1, <2>2, PreparedSound, TypesSound DEF TreeInv, Sound
  <2>8. OutputsOnly(Prepared(t, dst)["real"])
    BY <2>2, <2>5, PreparedReal DEF OutputsOnly
  <2>9. OutputsOnly(RealMove(Prepared(t, dst), l, pl.at, k, dst.at)["real"])
    BY <2>2, <2>5, <2>6, <2>7, <2>8, MoveTouches
  <2>10. QED
    BY <1>1, <2>3, <2>9, TouchesOutputs
<1>9. ASSUME NEW pl \in MappedNames, NEW dst \in MappedNames
      PROVE  ~MoveDirectory(pl, dst)
  BY DEF PassesOverlayBy
<1>10. CASE \E name \in Names : CreateDirectoryW(name) \/ RemoveDirectoryW(name)
  BY <1>3, <1>5, <1>10, NamesArePlaces DEF RemoveDirectoryW
<1>11. CASE \E pl \in MappedNames :
              \/ \E disp \in Dispositions : CreateFileW(pl, disp)
              \/ DeleteFileW(pl) \/ DeleteUsingSetFileInformationByHandle(pl)
  BY <1>4, <1>5, <1>7, <1>11, NamesArePlaces DEF DeleteFileW
<1>12. CASE \E pl \in MappedNames :
              \/ \E dst \in MappedNames : MoveFileWithProgress(pl, dst)
              \/ \E name \in Names : RenameUsingSetFileInformationByHandle(pl, name)
  BY <1>6, <1>8, <1>12, NamesArePlaces
<1>13. QED
  BY <1>9, <1>10, <1>11, <1>12 DEF FileCalls

\* Whatever the processes of an action create, remove, move or enter, by whatever
\* names and through whatever handles, nothing appears, vanishes or changes its
\* type on the real disk outside the declared outputs, but for the two calls
\* that pass the overlay by (overlay_engine.cpp:628-745,
\* DetouredFunctions.cpp:2900, 4370-4608).
THEOREM RealTreeKept ==
  ASSUME OutputsAreCones
  PROVE  Spec => RealTreeUntouched
<1>1. TreeInv /\ [Next]_vars =>
        [(\E p \in Paths :
            Kind[p] # "output" /\ tree'["real"][p] # tree["real"][p]) => PassesOverlayBy]_vars
  <2> SUFFICES ASSUME TreeInv, Next, ~PassesOverlayBy
               PROVE  \A p \in Paths : Kind[p] # "output" => tree'["real"][p] = tree["real"][p]
    BY DEF vars
  <2>1. CASE FileCalls
    BY <2>1, FileCallsTouch
  <2>2. CASE \E w \in Procs : ProcessCalls(w)
    BY <2>2 DEF ProcessCalls, SetCurrentDirectoryW, CreateProcessW, ExitProcess
  <2>3. QED
    BY <2>1, <2>2 DEF Next
<1>2. QED
  BY <1>1, TreeInvariant, PTL DEF Spec, RealTreeUntouched
=============================================================================

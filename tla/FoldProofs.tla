----------------------------- MODULE FoldProofs -----------------------------
(***************************************************************************)
(* A fold from the left takes the members of a sequence one by one: what   *)
(* FoldLeft is of an empty sequence and of one that got a member more.     *)
(***************************************************************************)
EXTENDS Naturals, Sequences, SequencesExt, SequenceTheorems, WellFoundedInduction, TLAPS

CONSTANTS
    Step(_, _), Base,   \* what is folded, and from where
    Inv(_, _)           \* what is to hold of a sequence and the fold of it

Fold(s) == FoldLeft(Step, Base, s)

-----------------------------------------------------------------------------
LEMMA LeastCounterexample ==
  ASSUME NEW T \in SUBSET Nat, T # {}
  PROVE  \E n \in T : \A m \in T : n <= m
<1>1. PICK n \in T : \A m \in T : ~(<<m, n>> \in OpToRel(<, Nat))
  BY WFMin, NatLessThanWellFounded
<1>2. \A m \in T : ~(m < n)
  BY <1>1 DEF OpToRel
<1>3. QED
  BY <1>2

\* The function FoldLeft makes of the sets of positions up to n.
IsIter(g, s, n) ==
    g = [S \in SUBSET (1 .. n) |->
           IF S = {} THEN Base ELSE Step(g[S \ {Max(S)}], s[Max(S)])]

LEMMA FoldMeans ==
  ASSUME NEW U, NEW s \in Seq(U)
  PROVE  Fold(s) = (CHOOSE g : IsIter(g, s, Len(s)))[1 .. Len(s)]
<1>1. DOMAIN s = 1 .. Len(s) OBVIOUS
<1> QED BY <1>1 DEF Fold, FoldLeft, MapThenFoldSet, IsIter

LEMMA MaxOf ==
  ASSUME NEW n \in Nat \ {0}, NEW S \in SUBSET (1 .. n), n \in S
  PROVE  Max(S) = n
<1>1. \A x \in S : x \in Nat /\ n >= x
  OBVIOUS
<1>2. \A x \in S : (\A y \in S : x >= y) => x = n
  BY <1>1
<1>3. QED
  BY <1>1, <1>2 DEF Max

\* It exists, whatever the step is.
LEMMA IterExists ==
  ASSUME NEW s, NEW n \in Nat
  PROVE  \E g : IsIter(g, s, n)
<1> DEFINE T == {k \in Nat : ~\E g : IsIter(g, s, k)}
<1>1. SUFFICES ASSUME T # {} PROVE FALSE
  OBVIOUS
<1>2. PICK k \in T : \A m \in T : k <= m
  BY <1>1, LeastCounterexample
<1>3. k # 0
  <2>1. SUBSET (1 .. 0) = {{}}
    OBVIOUS
  <2>2. IsIter([S \in SUBSET (1 .. 0) |-> Base], s, 0)
    BY <2>1 DEF IsIter
  <2> QED
    BY <2>2
<1>4. k - 1 \in Nat /\ k - 1 \notin T /\ k \in Nat \ {0}
  BY <1>2, <1>3
<1>5. PICK g : IsIter(g, s, k - 1)
  BY <1>4
<1> DEFINE h == [S \in SUBSET (1 .. k) |->
                   IF k \in S THEN Step(g[S \ {k}], s[k]) ELSE g[S]]
<1>6. ASSUME NEW S \in SUBSET (1 .. k)
      PROVE  h[S] = IF S = {} THEN Base ELSE Step(h[S \ {Max(S)}], s[Max(S)])
  <2>1. \A R \in SUBSET (1 .. k) : k \notin R => R \in SUBSET (1 .. k - 1)
    BY <1>4
  <2>2. CASE k \in S
    <3>1. Max(S) = k /\ S \ {k} \in SUBSET (1 .. k) /\ k \notin S \ {k} /\ S # {}
      BY <1>4, <2>2, MaxOf
    <3>2. h[S] = Step(g[S \ {k}], s[k]) /\ h[S \ {k}] = g[S \ {k}]
      BY <2>2, <3>1
    <3> QED
      BY <3>1, <3>2
  <2>3. CASE k \notin S
    <3>1. S \in SUBSET (1 .. k - 1) /\ h[S] = g[S]
      BY <2>1, <2>3
    <3>2. g[S] = IF S = {} THEN Base ELSE Step(g[S \ {Max(S)}], s[Max(S)])
      BY <1>5, <3>1 DEF IsIter
    <3>3. S \ {Max(S)} \in SUBSET (1 .. k) /\ k \notin S \ {Max(S)}
      BY <2>3
    <3>4. h[S \ {Max(S)}] = g[S \ {Max(S)}]
      BY <3>3
    <3> QED
      BY <3>1, <3>2, <3>4
  <2> QED
    BY <2>2, <2>3
<1>7. IsIter(h, s, k)
  BY <1>6 DEF IsIter
<1> QED
  BY <1>2, <1>7

\* The two sequences have the same first m items.
SameTo(s, t, m) == \A i \in 1 .. m : s[i] = t[i]

\* And two of them agree where the sequences do.
LEMMA IterAgrees ==
  ASSUME NEW s, NEW t, NEW m \in Nat, NEW n \in Nat, m <= n,
         NEW g, NEW h, IsIter(g, s, m), IsIter(h, t, n), SameTo(s, t, m)
  PROVE  \A k \in 0 .. m : g[1 .. k] = h[1 .. k]
<1> DEFINE T == {k \in 0 .. m : g[1 .. k] # h[1 .. k]}
<1>0. T \in SUBSET Nat
  OBVIOUS
<1>1. SUFFICES ASSUME T # {} PROVE FALSE
  OBVIOUS
<1>2. PICK k \in T : \A j \in T : k <= j
  BY <1>0, <1>1, LeastCounterexample
<1>3. k # 0
  <2>1. 1 .. 0 = {} /\ {} \in SUBSET (1 .. m) /\ {} \in SUBSET (1 .. n)
    OBVIOUS
  <2> QED
    BY <2>1 DEF IsIter
<1>4. k \in Nat \ {0} /\ k <= m /\ k - 1 \in 0 .. m /\ k - 1 \notin T
  BY <1>2, <1>3
<1>5. g[1 .. k - 1] = h[1 .. k - 1]
  BY <1>4
<1>6. /\ 1 .. k \in SUBSET (1 .. m) /\ 1 .. k \in SUBSET (1 .. n) /\ 1 .. k # {}
      /\ k \in 1 .. k /\ (1 .. k) \ {k} = 1 .. k - 1
  <2>1. k \in 1 .. k
    BY <1>4
  <2>2. (1 .. k) \ {k} = 1 .. k - 1
    BY <1>4
  <2>3. k \in Nat /\ k <= m /\ k <= n
    BY <1>4
  <2>4. 1 .. k \subseteq 1 .. m /\ 1 .. k \subseteq 1 .. n
    BY <2>3
  <2> QED
    BY <2>1, <2>2, <2>4
<1>7. Max(1 .. k) = k
  BY <1>4, <1>6, MaxOf
<1>8. g[1 .. k] = Step(g[1 .. k - 1], s[k]) /\ h[1 .. k] = Step(h[1 .. k - 1], t[k])
  BY <1>6, <1>7, ZenonT(40) DEF IsIter
<1>9. s[k] = t[k]
  BY <1>4 DEF SameTo
<1> QED
  BY <1>5, <1>8, <1>9

\* Before the first word a loop of the code has what it starts with.
THEOREM FoldOfNone == Fold(<< >>) = Base
<1>1. << >> \in Seq({}) /\ Len(<< >>) = 0 /\ 1 .. 0 = {}
  OBVIOUS
<1>2. IsIter(CHOOSE g : IsIter(g, << >>, 0), << >>, 0)
  BY IterExists
<1>3. (CHOOSE g : IsIter(g, << >>, 0))[{}] = Base
  BY <1>2 DEF IsIter
<1> QED
  BY <1>1, <1>3, FoldMeans

\* One turn of the loop more is one step more.
THEOREM FoldOfMore ==
  ASSUME NEW U, NEW s \in Seq(U), NEW x \in U
  PROVE  Fold(Append(s, x)) = Step(Fold(s), x)
<1> DEFINE t == Append(s, x)
           m == Len(s)
           g == CHOOSE g : IsIter(g, s, m)
           h == CHOOSE h : IsIter(h, t, m + 1)
<1>1. t \in Seq(U) /\ Len(t) = m + 1 /\ m \in Nat /\ t[m + 1] = x
      /\ \A i \in 1 .. m : s[i] = t[i]
  OBVIOUS
<1>2. IsIter(g, s, m) /\ IsIter(h, t, m + 1)
  <2>1. m \in Nat /\ m + 1 \in Nat
    BY <1>1
  <2>2. (\E f : IsIter(f, s, m)) /\ (\E f : IsIter(f, t, m + 1))
    BY <2>1, IterExists
  <2> QED
    BY <2>2
<1>3. Fold(s) = g[1 .. m] /\ Fold(t) = h[1 .. m + 1]
  BY <1>1, FoldMeans
<1> HIDE DEF t, g, h
<1>4. g[1 .. m] = h[1 .. m]
  <2> DEFINE n == m + 1
  <2> HIDE DEF m
  <2>1. m \in Nat /\ n \in Nat /\ m <= n /\ m \in 0 .. m
    BY <1>1
  <2>2. SameTo(s, t, m)
    BY <1>1 DEF SameTo
  <2>3. IsIter(g, s, m) /\ IsIter(h, t, n)
    BY <1>2
  <2> HIDE DEF n
  <2>4. \A k \in 0 .. m : g[1 .. k] = h[1 .. k]
    BY <2>1, <2>2, <2>3, IterAgrees
  <2> QED
    BY <2>1, <2>4
<1>5. /\ 1 .. m + 1 \in SUBSET (1 .. m + 1) /\ 1 .. m + 1 # {}
      /\ m + 1 \in 1 .. m + 1 /\ (1 .. m + 1) \ {m + 1} = 1 .. m
  BY <1>1
<1>6. Max(1 .. m + 1) = m + 1
  BY <1>1, <1>5, MaxOf
<1>7. h[1 .. m + 1] = Step(h[1 .. m], t[m + 1])
  BY <1>2, <1>5, <1>6 DEF IsIter
<1> QED
  BY <1>1, <1>3, <1>4, <1>7 DEF t

\* Of a sequence and its fold holds what holds at the start and is kept by a step.
THEOREM FoldInduction ==
  ASSUME NEW U, Inv(<< >>, Base),
         ASSUME NEW s \in Seq(U), NEW x \in U, NEW v, Inv(s, v)
         PROVE  Inv(Append(s, x), Step(v, x))
  PROVE  \A s \in Seq(U) : Inv(s, Fold(s))
<1> SUFFICES ASSUME NEW s \in Seq(U) PROVE Inv(s, Fold(s))
  OBVIOUS
<1> DEFINE Piece(k) == SubSeq(s, 1, k)
           T == {k \in 0 .. Len(s) : ~Inv(Piece(k), Fold(Piece(k)))}
<1>1. Len(s) \in Nat /\ Piece(Len(s)) = s /\ Piece(0) = << >>
  OBVIOUS
<1>2. ASSUME NEW k \in 1 .. Len(s)
      PROVE  /\ Piece(k - 1) \in Seq(U) /\ s[k] \in U
             /\ Piece(k) = Append(Piece(k - 1), s[k])
  <2>1. Piece(k - 1) \in Seq(U) /\ Len(Piece(k - 1)) = k - 1
        /\ \A i \in 1 .. k - 1 : Piece(k - 1)[i] = s[i]
    OBVIOUS
  <2>2. Piece(k) \in Seq(U) /\ Len(Piece(k)) = k /\ \A i \in 1 .. k : Piece(k)[i] = s[i]
    OBVIOUS
  <2> HIDE DEF Piece
  <2> DEFINE r == Append(Piece(k - 1), s[k])
  <2>3. s[k] \in U
    OBVIOUS
  <2>4. r \in Seq(U) /\ Len(r) = k /\ r[k] = s[k] /\ \A i \in 1 .. k - 1 : r[i] = s[i]
    BY <2>1, <2>3
  <2> HIDE DEF r
  <2>5. \A i \in 1 .. k : Piece(k)[i] = r[i]
    BY <2>2, <2>4
  <2>6. Piece(k) = r
    BY <2>2, <2>4, <2>5, SeqEqual
  <2> QED
    BY <2>1, <2>3, <2>6 DEF r
<1> HIDE DEF Piece
<1>3. T = {} => Inv(s, Fold(s))
  BY <1>1
<1>4. T # {} => FALSE
  <2> SUFFICES ASSUME T # {} PROVE FALSE
    OBVIOUS
  <2>1. T \in SUBSET Nat
    OBVIOUS
  <2>2. PICK k \in T : \A j \in T : k <= j
    BY <2>1, LeastCounterexample
  <2>3. k # 0
    BY <1>1, FoldOfNone
  <2>4. k \in 1 .. Len(s) /\ k - 1 \in 0 .. Len(s) /\ k - 1 \notin T
    BY <1>1, <2>2, <2>3
  <2>5. Inv(Piece(k - 1), Fold(Piece(k - 1)))
    BY <2>4
  <2>6. Inv(Append(Piece(k - 1), s[k]), Step(Fold(Piece(k - 1)), s[k]))
    BY <1>2, <2>4, <2>5
  <2>7. Fold(Piece(k)) = Step(Fold(Piece(k - 1)), s[k])
    BY <1>2, <2>4, FoldOfMore
  <2> QED
    BY <1>2, <2>4, <2>6, <2>7
<1> QED
  BY <1>3, <1>4

-----------------------------------------------------------------------------
(* Members put together from the first on, as FlattenSeq does.             *)

Chain(s) ==
    IF Len(s) = 0 THEN s ELSE
      LET chain[i \in 1 .. Len(s)] == IF i = 1 THEN s[i] ELSE Step(chain[i - 1], s[i])
      IN chain[Len(s)]

IsChain(g, ss, n) ==
    g = [i \in 1 .. n |-> IF i = 1 THEN ss[i] ELSE Step(g[i - 1], ss[i])]

LEMMA ChainExists ==
  ASSUME NEW ss, NEW n \in Nat
  PROVE  \E g : IsChain(g, ss, n)
<1> DEFINE T == {k \in Nat : ~\E g : IsChain(g, ss, k)}
<1>1. SUFFICES ASSUME T # {} PROVE FALSE
  OBVIOUS
<1>2. PICK k \in T : \A m \in T : k <= m
  BY <1>1, LeastCounterexample
<1>3. k # 0
  <2>1. IsChain([i \in 1 .. 0 |-> i], ss, 0)
    BY DEF IsChain
  <2> QED
    BY <2>1
<1>4. k - 1 \in Nat /\ k - 1 \notin T /\ k \in Nat \ {0}
  BY <1>2, <1>3
<1>5. PICK g : IsChain(g, ss, k - 1)
  BY <1>4
<1> DEFINE h == [i \in 1 .. k |->
                   IF i = k THEN (IF k = 1 THEN ss[k] ELSE Step(g[k - 1], ss[k])) ELSE g[i]]
<1>6. ASSUME NEW i \in 1 .. k
      PROVE  h[i] = IF i = 1 THEN ss[i] ELSE Step(h[i - 1], ss[i])
  <2>1. CASE i = k
    BY <1>4, <2>1
  <2>2. CASE i # k
    <3>1. i \in 1 .. k - 1 /\ h[i] = g[i] /\ (i # 1 => h[i - 1] = g[i - 1])
      BY <1>4, <2>2
    <3>2. g[i] = IF i = 1 THEN ss[i] ELSE Step(g[i - 1], ss[i])
      BY <1>5, <3>1 DEF IsChain
    <3> QED
      BY <3>1, <3>2
  <2> QED
    BY <2>1, <2>2
<1>7. IsChain(h, ss, k)
  BY <1>6 DEF IsChain
<1> QED
  BY <1>2, <1>7

\* The chain is the last value of that function.
LEMMA ChainMeans ==
  ASSUME NEW U, NEW ss \in Seq(U), ss # << >>
  PROVE  \E g : IsChain(g, ss, Len(ss)) /\ Chain(ss) = g[Len(ss)]
<1>1. Len(ss) \in Nat /\ Len(ss) # 0
  OBVIOUS
<1> DEFINE g == CHOOSE g : IsChain(g, ss, Len(ss))
<1>2. Chain(ss) = g[Len(ss)]
  BY <1>1 DEF Chain, IsChain
<1>3. \E f : IsChain(f, ss, Len(ss))
  BY <1>1, ChainExists
<1>4. IsChain(g, ss, Len(ss))
  BY <1>3
<1> QED
  BY <1>2, <1>4

LEMMA ChainUnfolds ==
  ASSUME NEW ss, NEW n \in Nat, NEW g, IsChain(g, ss, n), NEW k \in 1 .. n
  PROVE  g[k] = IF k = 1 THEN ss[k] ELSE Step(g[k - 1], ss[k])
BY DEF IsChain

LEMMA ChainAgrees ==
  ASSUME NEW ss, NEW tt, NEW m \in Nat, NEW n \in Nat, m <= n,
         NEW g, NEW h, IsChain(g, ss, m), IsChain(h, tt, n),
         \A i \in 1 .. m : ss[i] = tt[i]
  PROVE  \A k \in 1 .. m : g[k] = h[k]
<1> DEFINE T == {k \in 1 .. m : g[k] # h[k]}
<1>0. T \in SUBSET Nat
  OBVIOUS
<1>1. SUFFICES ASSUME T # {} PROVE FALSE
  OBVIOUS
<1>2. PICK k \in T : \A j \in T : k <= j
  BY <1>0, <1>1, LeastCounterexample
<1>3. k \in 1 .. m /\ k \in 1 .. n /\ k - 1 \notin T /\ ss[k] = tt[k]
  BY <1>2
<1>4. g[k] = (IF k = 1 THEN ss[k] ELSE Step(g[k - 1], ss[k]))
      /\ h[k] = (IF k = 1 THEN tt[k] ELSE Step(h[k - 1], tt[k]))
  BY <1>3 DEF IsChain
<1>5. k # 1 => g[k - 1] = h[k - 1]
  BY <1>3
<1> QED
  BY <1>2, <1>3, <1>4, <1>5

\* One sequence more in the row.
LEMMA ChainStep ==
  ASSUME NEW ss, NEW tt, NEW m \in Nat \ {0},
         NEW g, NEW h, IsChain(g, ss, m), IsChain(h, tt, m + 1),
         \A i \in 1 .. m : ss[i] = tt[i]
  PROVE  h[m + 1] = Step(g[m], tt[m + 1])
<1>1. m + 1 \in 1 .. m + 1 /\ m + 1 # 1 /\ m + 1 - 1 = m /\ m \in 1 .. m
      /\ m + 1 \in Nat /\ m \in Nat /\ m <= m + 1
  OBVIOUS
<1>2. h[m + 1] = Step(h[m], tt[m + 1])
  BY <1>1, ChainUnfolds
<1>3. g[m] = h[m]
  <2>1. \A k \in 1 .. m : g[k] = h[k]
    BY <1>1, ChainAgrees
  <2> QED
    BY <1>1, <2>1
<1> QED
  BY <1>2, <1>3

\* The loops that join words write nothing for no words,
THEOREM ChainOfNone == Chain(<< >>) = << >>
BY DEF Chain

\* the word alone for one word,
THEOREM ChainOfOne ==
  ASSUME NEW x
  PROVE  Chain(<<x>>) = x
<1> DEFINE t == <<x>>
<1>1. Len(t) = 1 /\ t[1] = x /\ t \in Seq({x}) /\ t # << >>
  OBVIOUS
<1> HIDE DEF t
<1>2. PICK g : IsChain(g, t, Len(t)) /\ Chain(t) = g[Len(t)]
  BY <1>1, ChainMeans
<1>3. g[1] = t[1]
  BY <1>1, <1>2, ChainUnfolds
<1> QED
  BY <1>1, <1>2, <1>3 DEF t

\* and join each word more to what the words before it made.
THEOREM ChainOfMore ==
  ASSUME NEW U, NEW ss \in Seq(U), NEW s \in U, ss # << >>
  PROVE  Chain(Append(ss, s)) = Step(Chain(ss), s)
<1> DEFINE tt == Append(ss, s)
           m == Len(ss)
<1>1. /\ tt \in Seq(U) /\ Len(tt) = m + 1 /\ m \in Nat \ {0} /\ tt[m + 1] = s
      /\ \A i \in 1 .. m : ss[i] = tt[i]
  OBVIOUS
<1> HIDE DEF tt
<1>2. PICK g : IsChain(g, ss, m) /\ Chain(ss) = g[m]
  BY ChainMeans
<1>3. tt # << >>
  BY <1>1
<1>4. PICK h : IsChain(h, tt, m + 1) /\ Chain(tt) = h[m + 1]
  BY <1>1, <1>3, ChainMeans
<1> HIDE DEF m
<1>5. h[m + 1] = Step(g[m], tt[m + 1])
  BY <1>1, <1>2, <1>4, ChainStep
<1> QED
  BY <1>1, <1>2, <1>4, <1>5 DEF tt
=============================================================================
